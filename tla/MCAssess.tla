------------------------------- MODULE MCAssess -------------------------------
(***************************************************************************)
(* Small workspaces for TLC.  `Busy` has something for every rule: a pool  *)
(* with hot and cold code, a table the advisor names twice, Spark of known *)
(* consumption, unsupported activities.  `Quiet` has the same modules with *)
(* next to nothing in them, `Legacy` Spark accounting of an older version, *)
(* `Huge` needs more than any SKU, `Narrow` has gaps in its accounting.    *)
(***************************************************************************)
EXTENDS FabricMapping, EstateReport, EstateIndex, MCAnalyzeAll, FabricValidation

Entry(schema, name, elapsed) == [schema |-> schema, name |-> name, elapsed |-> elapsed]
Code(id, schema, name, findings, compatibility) ==
  [id |-> id, schema |-> schema, name |-> name, findings |-> findings, compatibility |-> compatibility]
Table(schema, name, distribution, rows, gb, kind) ==
  [schema |-> schema, name |-> name, distribution |-> distribution, rows |-> rows, gb |-> gb, index |-> kind]
Candidate(schema, name, column) == [schema |-> schema, name |-> name, column |-> column]

BusyPool ==
  [name |-> "p1", paused |-> FALSE, collation |-> "other", workload_groups |-> 1, column_collations |-> 0, materialized_views |-> 1,
   tables |-> {Table("dbo", "fact", "REPLICATE", 60, 1, "HEAP"), Table("dbo", "dim", "ROUND_ROBIN", 200, 3, "CCI"),
               Table("stg", "load", "HASH", 5, 1, "HEAP")},
   consumed |-> <<Entry("dbo", "fact", 50), Entry("dbo", "p_load", 30), Entry("dbo", "p_sum", 15), Entry("", "p_any", 4), Entry("x", "p_far", 1)>>,
   code |-> {Code(1, "dbo", "p_load", {"merge", "temp_table"}, "needs_review"), Code(2, "dbo", "p_sum", {"date_funcs"}, "compatible"),
             Code(3, "dbo", "p_any", {"merge"}, "needs_review"), Code(4, "dbo", "p_far", {"clr_proc"}, "incompatible")},
   statistics |-> {[rows |-> 100, modified |-> 20, days |-> 20], [rows |-> 100, modified |-> 0, days |-> 3]},
   candidates |-> <<Candidate("dbo", "fact", "a"), Candidate("dbo", "fact", "b"), Candidate("dbo", "dim", "a")>>]
QuietPool ==
  [name |-> "p2", paused |-> TRUE, collation |-> "fabric", workload_groups |-> 0, column_collations |-> 1, materialized_views |-> 0,
   tables |-> {Table("dbo", "heap", "HASH", 5, 1, "HEAP")}, consumed |-> <<Entry("dbo", "other", 0)>>,
   code |-> {Code(5, "dbo", "p_old", {"cursor"}, "needs_review")},
   statistics |-> {[rows |-> 100, modified |-> 0, days |-> 30]}, candidates |-> <<>>]

Serverless(n, days) ==
  [external_tables |-> 10 * n, cost_estimate |-> n, top_queries |-> n, storage_account_usage |-> n, external_table_columns |-> n,
   queries |-> 6 * n, daily_usage |-> days]

SparkW(cu, unknown, averages, verified) == [cu |-> cu, unknown |-> unknown, averages |-> averages, verified |-> verified]
Spark(n, accounting) ==
  [pools |-> n, notebooks |-> 4 * n, spark_job_definitions |-> n, upgrades |-> n,
   lint |-> IF n = 0 THEN {} ELSE {[rule |-> "mssparkutils", severity |-> "blocker"], [rule |-> "mount", severity |-> "warning"]},
   accounting |-> accounting]
Accounting(legacy, complete, groups, end) ==
  [legacy |-> legacy, complete |-> complete, groups |-> groups, end |-> end,
   daily |-> {[day |-> 9, cu |-> 300], [day |-> 8, cu |-> 1200], [day |-> 1, cu |-> 9000]}]
Group(g, windows) == [group |-> g, windows |-> windows]
Accounted == Accounting(FALSE, "yes", {Group("a", (7 :> SparkW(1400, 0, TRUE, TRUE)) @@ (28 :> SparkW(5000, 0, TRUE, TRUE))),
                                   Group("b", 7 :> SparkW(700, 0, TRUE, TRUE))}, 10)
Gaps == Accounting(FALSE, "yes", {Group("a", 7 :> SparkW(1400, 2, TRUE, FALSE)), Group("b", 7 :> SparkW(700, 0, TRUE, TRUE))}, 10)
Unstated == Accounting(FALSE, "yes", {Group("a", 28 :> SparkW(2800, NotGiven, TRUE, TRUE))}, NotGiven)
Legacy == Accounting(TRUE, "unknown", {Group("a", 7 :> SparkW(2100, NotGiven, FALSE, FALSE))}, NotGiven)
Apart == Accounting(FALSE, "yes", {Group("a", 7 :> SparkW(70, 0, TRUE, TRUE)), Group("b", 28 :> SparkW(70, 0, TRUE, TRUE))}, 10)

PipeW(n, ok, bad, mb, cu, peak) ==
  [runs |-> n, succeeded |-> ok, failed |-> bad, movedMb |-> mb, diu |-> cu, vcore |-> 0, orchestration |-> 0, peak |-> peak]
Pipelines(n, history) ==
  [pipelines |-> n, self_hosted |-> n, schedule_mappings |-> n, linked_services |-> n, triggers |-> n, integration_runtimes |-> n,
   activities |-> IF n = 0 THEN {} ELSE {[type |-> "SSIS", support |-> "unsupported"], [type |-> "Copy", support |-> "partial"]},
   unsupported_services |-> IF n = 0 THEN {} ELSE {"SapOpenHub"}, run_history |-> history,
   expressions |-> {}]
History ==
  {[name |-> "etl", windows |-> (7 :> PipeW(10, 3, 7, 2048, 500, 120)) @@ (28 :> PipeW(40, 12, 28, 2048, 2000, NotGiven))],
   [name |-> "nightly", windows |-> 28 :> PipeW(30, 28, 2, 0, 100, NotGiven)],
   [name |-> "old", windows |-> 28 :> PipeW(0, 0, 0, 0, 0, 0)], [name |-> "new", windows |-> 7 :> PipeW(0, 0, 0, 0, 0, 0)]}

Monitor(p95, avg, blocked, limit, used) ==
  [series |-> [p \in {"p1"} |-> [p95 |-> p95, avg |-> avg, blocked |-> blocked, limit |-> (1 :> limit) @@ (2 :> limit),
                                 used |-> (1 :> used) @@ (3 :> 100)]]]
Storage(pct) ==
  [pool_storage |-> {[name |-> "p1", usedPct |-> pct, reservedGb |-> pct]}, default_accounts |-> 1, capacities |-> {50, 500}]
Databricks ==
  [workflows |-> 2, outdated_clusters |-> 1, interactive_clusters |-> 1,
   tasks |-> {[type |-> "spark_jar_task", support |-> "unsupported"], [type |-> "sql_task", support |-> "partial"],
              [type |-> "odd", support |-> "unknown"], [type |-> "pipeline_task", support |-> "partial"]},
   mappings |-> {[id |-> "w1", support |-> "supported"], [id |-> "w2", support |-> "unknown"], [id |-> "", support |-> "partial"]}]
BigQuery ==
  [datasets |-> 1, routines |-> 1, scheduled_queries |-> 1, slot_caveats |-> 1,
   tables |-> {[kind |-> "MODEL", support |-> "unsupported"], [kind |-> "VIEW", support |-> "partial"]},
   jobs |-> {[type |-> "QUERY", outcome |-> "succeeded"], [type |-> "LOAD", outcome |-> "failed"], [type |-> "QUERY", outcome |-> "pending"]}]
Snowflake ==
  [databases |-> 1, warehouses |-> 1, tasks |-> 1, streams |-> 0, pipes |-> 1, stages |-> 0, credit_caveats |-> 1,
   tables |-> {[kind |-> "DYNAMIC", support |-> "partial"]}, routines |-> {[name |-> "f", support |-> "unsupported"]},
   warehouse_stats |-> {[days |-> 7, cuHours |-> 900], [days |-> 28, cuHours |-> 9000]}]

Synapse(pool, serverless, spark, pipelines, monitor, pct) ==
  [dedicated_pools |-> [pools |-> {pool}], serverless_pools |-> serverless, spark_pools |-> spark,
   pipelines |-> pipelines, monitoring |-> monitor, storage |-> Storage(pct)]
MCWorkspaces ==
  {Synapse(BusyPool, Serverless(1, {110592000, 331776000}), Spark(1, Accounted), Pipelines(2, History), Monitor(90, 60, 2, 400, 80), 97),
   Synapse(QuietPool, Serverless(0, {}), Spark(0, Gaps), Pipelines(0, {}), Monitor(90, 20, 0, 100, 90), 85),
   Synapse(QuietPool, Serverless(0, {}), Spark(1, Unstated), Pipelines(0, {}), Monitor(NotGiven, NotGiven, 3, 0, 0), 10),
   Synapse(BusyPool, Serverless(1, {}), Spark(2, Legacy), Pipelines(1, History), Monitor(50, 40, 0, 100000, 100), 10),
   Synapse(BusyPool, Serverless(1, {}), Spark(2, Apart), Pipelines(1, {}), Monitor(10, 5, 0, 1000, 100), 10),
   [databricks_workflows |-> Databricks, bigquery_workloads |-> BigQuery, snowflake_workloads |-> Snowflake]}

\* Part of the default card, in hundredths of hours and tenths.
DefaultCard ==
  [team_velocity |-> 10, p50_to_p90_multiplier |-> 18, qualitative |-> [low |-> 200, medium |-> 800, high |-> 2400],
   phases |-> [foundation |-> 800, data_plane_prep |-> 1600, ingest_shortcuts |-> 400, compute_migration |-> 800,
               orchestration_migration |-> 800, verification |-> 1600],
   rules |-> ("dedicated_pools.tables" :> [hours_per_table |-> 25, cap_hours |-> 8000])
             @@ ("dedicated_pools.distribution_advisor" :> [hours_per_recommendation |-> 150, cap_hours |-> 6000])
             @@ ("dedicated_pools.tsql_surface" :> [hours_per_blocker |-> 200, hours_per_warning |-> 50, cap_hours |-> 12000])
             @@ ("spark_pools.notebooks" :> [hours_per_notebook |-> 150, cap_hours |-> 8000])
             @@ ("pipelines.activities" :> [hours_per_pipeline |-> 75, hours_per_blocker_activity |-> 100, cap_hours |-> 12000])
             @@ ("pipelines.linked_services" :> [hours_per_linked_service |-> 50, hours_per_inline_secret |-> 50, cap_hours |-> 4000])
             @@ ("monitoring.dwu" :> [hours_per_recommendation |-> 100])]
MCCards ==
  {DefaultCard,
   MergeWithDefault(DefaultCard, [team_velocity |-> 7, phases |-> [verification |-> 0, foundation |-> 0],
                                  rules |-> ("dedicated_pools.tsql_surface" :> [cap_hours |-> 300])
                                            @@ ("storage.accounts" :> [hours_per_account |-> 33])])}

\* Bills of a resource group that holds a workspace, another whose name begins
\* with it, and a factory; `/` is a piece of its own.
Bill(n, id, provider, child, month, cost) ==
  [n |-> n, id |-> id, provider |-> provider, child |-> child, month |-> month, cost |-> cost,
   name |-> IF id = <<>> THEN "" ELSE id[Len(id)]]
GroupBills ==
  {Bill(1, <<"ws">>, "synapse", "", 1, 100), Bill(2, <<"ws", "/", "sqlPools/p1">>, "synapse", "sqlPools", 1, 900),
   Bill(3, <<"ws", "/", "sqlPools/p1">>, "synapse", "sqlPools", 2, 2000), Bill(4, <<"ws", "/", "bigDataPools/s1">>, "synapse", "bigDataPools", 2, 50),
   Bill(5, <<"ws", "-dev">>, "synapse", "", 2, 700), Bill(6, <<"adf">>, "datafactory", "", 3, 40), Bill(7, <<>>, "other", "", 2, 5),
   Bill(8, <<"lake">>, "storage", "", 1, 30), Bill(9, <<"dbx">>, "databricks", "", 1, 30)}
GcpBills ==
  {Bill(1, <<"prj">>, "bigquery", "", 1, 900), Bill(2, <<"prj">>, "dataflow", "", 1, 10), Bill(3, <<"prj">>, "dataproc", "", 2, 10),
   Bill(4, <<"prj">>, "storage", "", 2, 10), Bill(5, <<"prj">>, "compute", "", 2, 10), Bill(6, <<"prj">>, "other", "", 2, 10)}
NoMeter == [credits |-> {}, storage |-> {}, ratedCost |-> 0, ratedCredits |-> 0]
Meter(cost, credits) ==
  [credits |-> {[n |-> 1, id |-> <<>>, month |-> 1, name |-> "wh", credits |-> 10], [n |-> 2, id |-> <<>>, month |-> 2, name |-> "CLOUD_SERVICES", credits |-> 3],
                [n |-> 3, id |-> <<>>, month |-> 2, name |-> "", credits |-> 0]},
   storage |-> {[n |-> 4, id |-> <<>>, month |-> 2, name |-> "", cost |-> 7]}, ratedCost |-> cost, ratedCredits |-> credits]
Scope(source, id, defects, offline, region, mapped, sku, bills, meter) ==
  [source |-> source, id |-> id, defects |-> defects, offline |-> offline, region |-> region, mapped |-> mapped, sku |-> sku,
   bills |-> bills, meter |-> meter]
MCScopes ==
  {Scope("azure", <<"ws">>, {}, FALSE, "we", TRUE, 8, GroupBills, NoMeter), Scope("azure", <<"adf">>, {}, FALSE, "eu", TRUE, 128, GroupBills, NoMeter),
   Scope("azure", <<"dbx">>, {"sdk_missing"}, TRUE, "we", TRUE, 64, GroupBills, NoMeter), Scope("azure", <<"lost">>, {}, FALSE, "we", FALSE, NoSku, GroupBills, NoMeter),
   Scope("bigquery", <<"prj">>, {}, TRUE, "we", TRUE, 4, GcpBills, NoMeter), Scope("bigquery", <<"prj">>, {"missing_config"}, FALSE, "we", TRUE, NoSku, GcpBills, NoMeter),
   Scope("snowflake", <<"acc">>, {}, FALSE, "we", TRUE, 2, {}, Meter(30, 10)), Scope("snowflake", <<"acc">>, {"live_disabled"}, FALSE, "eu", TRUE, 2, {}, Meter(0, 0)),
   Scope("databricks elsewhere", <<"ws">>, {}, FALSE, "we", TRUE, 8, {}, NoMeter)}
Price(unit, price) == [unit |-> unit, price |-> price]
MCPricePages ==
  [we |-> [consumption |-> <<<<Price("hour", 131), Price("day", 9)>>, <<Price("hour", 0)>>, <<Price("hour", 120)>>, <<Price("hour", 1)>>>>,
           reservation |-> <<<<Price("1 Year", 80), Price("3 Years", 70)>>>>],
   eu |-> [consumption |-> <<<<Price("hour", 140)>>>>, reservation |-> <<<<Price("1 Year", 90)>>>>]]
MCHints == {NoHint, 1, 300}

\* Runs of four workspaces: one scanned before and after the fields of run.json
\* and of the projection, one whose last scan failed, one outside Azure, one in
\* which nothing can be placed or read.
Step(area, title, severity, type) == [area |-> area, title |-> title, severity |-> severity, type |-> type]
NoMapping == [workspace |-> "", bucket |-> "", tsql |-> NotGiven, estimated |-> NotGiven, withPipelines |-> FALSE, sku |-> NoSku,
              recs |-> <<>>, effort |-> NotGiven]
NoCost == [workspace |-> "", subscription |-> "", monthly |-> <<>>, average |-> NotGiven,
           comparison |-> [payg |-> NoPrice, ri1 |-> NoPrice, ri3 |-> NoPrice, source |-> "", delta |-> {}]]
Source(type, platform, host) == [type |-> type, platform |-> platform, host |-> host]
RunMeta(workspace, subscription, started, finished, status, scope) ==
  [workspace |-> workspace, subscription |-> subscription, tenant |-> subscription, started |-> started, finished |-> finished,
   status |-> status, scope |-> scope]
NoDatabricks == [spark |-> <<>>, sql |-> <<>>]
ShelfRun(id, runMeta, fm, cost) ==
  [id |-> id, readable |-> TRUE, meta |-> runMeta, fm |-> fm, cost |-> cost, pipelines |-> <<>>, databricks |-> NoDatabricks,
   bigquery |-> <<>>, snowflake |-> <<>>]
PipelineHours == <<<<[days |-> 28, cu |-> 2800], [days |-> 7, cu |-> 700]>>, <<>>, <<[days |-> 14, cu |-> 700]>>>>
Mapped(estimated, withPipelines, sku, recs) ==
  [NoMapping EXCEPT !.workspace = "w", !.bucket = "blocked", !.tsql = 80, !.estimated = estimated, !.withPipelines = withPipelines,
                    !.sku = sku, !.recs = recs, !.effort = 40]
MCRunLibrary ==
  {[ShelfRun(1, RunMeta("", "", 1, NotGiven, "", Source("", "", "")),
             Mapped(20000, FALSE, 2, <<Step("a", "t", "blocker", "synapse"), Step("a", "t", "warning", "")>>),
             [NoCost EXCEPT !.workspace = "w", !.subscription = "s", !.monthly = (1 :> 900)]) EXCEPT !.pipelines = PipelineHours],
   [ShelfRun(2, RunMeta("w", "s", 2, 3, "ok", Source("synapse", "", "")),
             Mapped(30000, TRUE, 2, <<Step("a", "t", "blocker", ""), Step("a", "t", "blocker", ""), Step("b", "u", "info", "")>>),
             [NoCost EXCEPT !.monthly = (1 :> 900) @@ (2 :> 1100),
                            !.comparison = [payg |-> 262, ri1 |-> NoPrice, ri3 |-> NoPrice, source |-> "live", delta |-> {-838}]])
      EXCEPT !.pipelines = PipelineHours],
   ShelfRun(3, RunMeta("w", "s", 4, 4, "error", Source("synapse", "", "")), NoMapping, NoCost),
   [ShelfRun(4, RunMeta("d", "", 2, 3, "ok", Source("databricks", "", "gcp")), NoMapping, [NoCost EXCEPT !.average = 70])
      EXCEPT !.databricks = [spark |-> <<<<[days |-> 14, cu |-> 1400]>>>>,
                             sql |-> <<[avg |-> 2400, headroom |-> 0], [avg |-> NotGiven, headroom |-> 20]>>],
             !.fm.recs = <<Step("c", "v", "blocker", "databricks"), Step("b", "u", "blocker", "databricks"), Step("a", "t", "blocker", "")>>,
             !.fm.bucket = "blocked"],
   [ShelfRun(5, RunMeta("x", "", 3, 3, "ok", Source("snowflake", "azure", "")), [NoMapping EXCEPT !.bucket = "ready"], NoCost)
      EXCEPT !.snowflake = <<[days |-> 14, cu |-> 1400000], [days |-> 28, cu |-> 5600000], [days |-> 28, cu |-> 560000]>>],
   [ShelfRun(6, RunMeta("b", "t", 3, 5, "error", Source("bigquery", "", "")), NoMapping, NoCost)
      EXCEPT !.bigquery = <<[days |-> 14, cu |-> 1400], [days |-> 7, cu |-> 0]>>],
   ShelfRun(7, RunMeta("w", "s", NotGiven, NotGiven, "ok", Source("sap_bw", "", "")), NoMapping, NoCost)}
MCCatalogue == [payg |-> 120, ri1 |-> 80, ri3 |-> NoPrice]

\* Two pools with a table in common, names that are no identifiers, an empty
\* table; a warehouse that is loaded meanwhile.
Held(schema, name, rows) == [schema |-> schema, name |-> name, rows |-> rows]
PoolFile(tables, gaps) ==
  [tables |-> tables, tsql_surface_gaps |-> gaps,
   column_collations |-> {[schema |-> "dbo", table |-> "fact", column |-> "a", collation |-> "utf8"]}]
PoolFiles == <<PoolFile({Held("dbo", "fact", 60), Held("dbo", "dim", 2), Held("stg", "odd name", 7)}, {[id |-> 1, schema |-> "dbo", name |-> "p"]}),
               PoolFile({Held("dbo", "fact", 40), Held("dbo", "empty", 0), Held("dbo", "none", NoRows)}, {})>>
Loading(rows, objects) == [rows |-> rows, objects |-> objects, collations |-> (<<"dbo", "fact", "a">> :> "bin2")]
Loads == <<Loading(<<>>, {}), Loading((<<"dbo", "fact">> :> 20) @@ (<<"dbo", "empty">> :> 3), {<<"dbo", "VIEW", "v">>}),
           Loading((<<"dbo", "fact">> :> 41) @@ (<<"dbo", "empty">> :> 3) @@ (<<"dbo", "dim">> :> 2) @@ (<<"dbo", "none">> :> 2) @@ (<<"stg", "odd name">> :> 7),
                   {<<"dbo", "VIEW", "v">>, <<"stg", "VIEW", "w">>})>>
Validation(artefact, configured, validateRows, tolerance) ==
  [artefact |-> artefact, configured |-> configured, validateRows |-> validateRows, tolerance |-> tolerance, pools |-> PoolFiles, targets |-> Loads]
MCFvSites ==
  {Validation("whole", TRUE, TRUE, 0), Validation("whole", TRUE, TRUE, 60), Validation("whole", TRUE, TRUE, NoNumber),
   Validation("whole", FALSE, TRUE, 0), Validation("whole", TRUE, FALSE, 0), Validation("torn", TRUE, TRUE, 0), Validation("absent", TRUE, TRUE, 0)}
MCOddNames == {"odd name"}

EstateOff == shelf = {} /\ extracts = <<>> /\ estatePage = NoPage /\ renders = MaxRenders

MappingOff ==
  /\ artefacts = <<>> /\ torn = {} /\ card = <<>> /\ nextInput = 1 /\ inputs = <<>> /\ recommendations = {}
  /\ readiness = NoReport /\ runbook = {} /\ projection = NoReport /\ effortSummary = NoReport /\ fmStage = "off"
ValidationOff ==
  /\ fvSite = Validation("absent", FALSE, FALSE, 0) /\ loaded = 1 /\ wanted = NothingWanted /\ rowsFound = <<>> /\ checks = NoChecks
  /\ tally = <<>> /\ refusals = {} /\ fvErrors = {} /\ fvStage = "off"
CostOff == hour = MaxHours /\ priceCache = [at |-> 0, entries |-> <<>>] /\ analysis = NoAnalysis /\ reports = MaxReports

VARIABLE part   \* "reports": mapping, cost, estate and validation; "cache"; "command"

\* One of them: what they share are files.
AssessInit ==
  /\ CacheInit /\ CommandInit
  /\ \/ part = "reports" /\ MappingInit /\ CostOff /\ EstateOff /\ ValidationOff
     \/ part = "reports" /\ CostInit /\ MappingOff /\ EstateOff /\ ValidationOff
     \/ part = "reports" /\ EstateInit /\ MappingOff /\ CostOff /\ ValidationOff
     \/ part = "reports" /\ ValidationInit /\ MappingOff /\ CostOff /\ EstateOff
     \/ part \in {"cache", "command"} /\ MappingOff /\ CostOff /\ EstateOff /\ ValidationOff
AssessNext ==
  /\ UNCHANGED part
  /\ \/ MappingNext /\ UNCHANGED <<costVars, estateVars, cacheVars, commandVars, fvVars>>
     \/ CostNext /\ UNCHANGED <<fmVars, estateVars, cacheVars, commandVars, fvVars>>
     \/ EstateNext /\ UNCHANGED <<fmVars, costVars, cacheVars, commandVars, fvVars>>
     \/ fvStage # "off" /\ ValidationNext /\ UNCHANGED <<fmVars, costVars, estateVars, cacheVars, commandVars>>
     \/ part = "cache" /\ CacheNext /\ UNCHANGED <<fmVars, costVars, estateVars, commandVars, fvVars>>
     \/ part = "command" /\ CommandNext /\ UNCHANGED <<fmVars, costVars, estateVars, cacheVars, fvVars>>
AssessSpec == AssessInit /\ [][AssessNext]_<<part, fmVars, costVars, estateVars, cacheVars, commandVars, fvVars>>
===============================================================================
