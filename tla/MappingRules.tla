---------------------------- MODULE MappingRules ----------------------------
(***************************************************************************)
(* What each artefact recommends: modules/fabric_mapping/rules.py and      *)
(* tsql_surface.py.  An artefact is a record; a list of which only the     *)
(* length matters is a number.  Rows are counted in millions, table sizes  *)
(* in GB and pool shares in percent.  Recommendations are a set: `about`   *)
(* tells apart those the code gives one id.  Titles, details and actions   *)
(* are wording and left out.                                               *)
(***************************************************************************)
EXTENDS CapacityProjection, TLC

Rec(rule, target, area, severity, effort, impact) ==
  [id |-> <<rule>> \o target, area |-> area, severity |-> severity, effort |-> effort, impact |-> impact, about |-> <<>>]

When(condition, rec) == IF condition THEN {rec} ELSE {}

\* A recommendation there is one of as soon as a list has an entry.
Present(artefact, table) ==
  {Rec(r.rule, <<>>, r.area, r.severity, r.effort, "unknown") : r \in {r \in table : artefact[r.list] > 0}}

Simple(list, rule, area, severity, effort) ==
  [list |-> list, rule |-> rule, area |-> area, severity |-> severity, effort |-> effort]

-----------------------------------------------------------------------------
\* The workload of a pool: elapsed time by object, qualified or not.
HotObjectSharePct == 5
NoEntry == -1

TotalElapsed(pool) == SumOf([i \in DOMAIN pool.consumed |-> pool.consumed[i].elapsed])

Mentions(pool, schema, name) == {i \in DOMAIN pool.consumed : pool.consumed[i].schema = schema /\ pool.consumed[i].name = name}

\* The object itself; else a mention without a schema (the last); else the first
\* mention of any schema.
WorkloadOf(pool, schema, name) ==
  LET own == Mentions(pool, schema, name)
      bare == Mentions(pool, "", name)
      same == {i \in DOMAIN pool.consumed : pool.consumed[i].name = name}
  IN  CASE own # {} -> pool.consumed[Max(own)].elapsed
        [] own = {} /\ bare # {} -> pool.consumed[Max(bare)].elapsed
        [] own = {} /\ bare = {} /\ same # {} -> pool.consumed[Min(same)].elapsed
        [] OTHER -> NoEntry

Weight(pool, object) ==
  IF TotalElapsed(pool) <= 0 THEN 0 ELSE Max({0, WorkloadOf(pool, object.schema, object.name)})

AtLeast(pool, elapsed, pct) == elapsed > 0 /\ 100 * elapsed >= pct * TotalElapsed(pool)

Hot(pool, object) == AtLeast(pool, Weight(pool, object), HotObjectSharePct)

ElapsedIn(pool, objects) == SumOf([o \in objects |-> Weight(pool, o)])

ImpactFromShare(pool, elapsed, default) ==
  CASE AtLeast(pool, elapsed, 2 * HotObjectSharePct) -> "high"
    [] AtLeast(pool, elapsed, HotObjectSharePct) /\ ~AtLeast(pool, elapsed, 2 * HotObjectSharePct) -> "medium"
    [] elapsed > 0 /\ ~AtLeast(pool, elapsed, HotObjectSharePct) -> "low"
    [] OTHER -> default

-----------------------------------------------------------------------------
\* Dedicated SQL pools.
PoolRecs(pool) ==
  When(pool.paused, Rec("dp.paused", <<pool.name>>, "dedicated_pools.inventory", "warning", "low", "high"))
  \cup When(pool.collation = "other",
            Rec("dp.collation", <<pool.name>>, "dedicated_pools.inventory", "warning", "medium", "medium"))
  \cup When(pool.workload_groups > 0,
            Rec("dp.wlm", <<pool.name>>, "dedicated_pools.workload_management", "info", "medium", "unknown"))
  \cup When(pool.column_collations > 0,
            Rec("dp.col_collation", <<pool.name>>, "dedicated_pools.column_collations", "warning", "medium", "unknown"))
  \cup When(pool.materialized_views > 0,
            Rec("dp.mvs", <<pool.name>>, "dedicated_pools.materialized_views", "warning", "high", "unknown"))

TableRecs(pool, table) ==
  LET target == <<pool.name, table.schema, table.name>>
      share(default) == ImpactFromShare(pool, Weight(pool, table), default)
      untouched == pool.consumed # <<>> /\ WorkloadOf(pool, table.schema, table.name) = NoEntry
      area == "dedicated_pools.tables"
  IN  When(table.distribution = "REPLICATE" /\ (table.rows > 50 \/ table.gb > 2),
           Rec("dp.replicate_large", target, area, "warning", "medium", share("medium")))
      \cup When(table.distribution = "ROUND_ROBIN" /\ table.rows > 100,
                Rec("dp.rr_large", target, area, "info", "medium", share("low")))
      \cup When(table.index = "HEAP" /\ table.rows > 1,
                Rec("dp.heap_large", target, area, IF Hot(pool, table) THEN "warning" ELSE "info", "low",
                    IF Hot(pool, table) THEN "high" ELSE IF untouched THEN "low" ELSE "medium"))

StatisticsRecs(pool) ==
  LET churned == {s \in pool.statistics : s.rows > 0 /\ 10 * s.modified > s.rows}
      aged == {s \in pool.statistics : s.days > 14}
  IN  When(churned \cup aged # {},
           Rec("dp.stats_stale", <<pool.name>>, "dedicated_pools.statistics", "info", "low",
               IF churned = {} THEN "low" ELSE "medium"))

\* One hint for the pool, and one for each of the first five candidates that are hot.
DistributionRecs(pool) ==
  LET hot == {i \in DOMAIN pool.candidates : Hot(pool, pool.candidates[i])}
      first == {i \in hot : Cardinality({j \in hot : j < i}) < 5}
      area == "dedicated_pools.distribution_advisor"
  IN  When(pool.candidates # <<>>,
           Rec("dp.dist_advice", <<pool.name>>, area, "info", "medium", IF hot # {} THEN "medium" ELSE "low"))
      \cup {[Rec("dp.dist_advice_hot", <<pool.name, pool.candidates[i].schema, pool.candidates[i].name>>, area, "warning",
                 "medium", "high") EXCEPT !.about = <<pool.candidates[i].column>>] : i \in first}

\* The constructs the scan of a definition looks for.
RulesOfSeverity ==
  [blocker |-> {"clr_proc", "triggers"},
   warning |-> {"merge", "cursor", "global_temp", "xml_methods", "user_defined_type", "crossdb_3pn"},
   info |-> {"temp_table", "identity", "openrowset", "sequence", "rowversion", "date_funcs"}]

TsqlSeverity == [r \in UNION {RulesOfSeverity[s] : s \in DOMAIN RulesOfSeverity} |->
                   CHOOSE s \in DOMAIN RulesOfSeverity : r \in RulesOfSeverity[s]]

\* Mutant: only the rules that block anyway make a hot object a blocker.
HotSeverityOfRule(rule) == IF TsqlSeverity[rule] = "blocker" THEN "blocker" ELSE "warning"

HotSeverity(rule) == IF TsqlSeverity[rule] = "info" THEN "warning" ELSE "blocker"

\* One recommendation for a construct, and one for each hot object that uses it.
TsqlRecs(pool) ==
  LET hits(rule) == {o \in pool.code : rule \in o.findings}
      area == "dedicated_pools.tsql_surface"
      rules == UNION {o.findings : o \in pool.code}
  IN  {Rec("dp.tsql", <<r, pool.name>>, area, TsqlSeverity[r], "medium",
           ImpactFromShare(pool, ElapsedIn(pool, hits(r)), "unknown")) : r \in rules}
      \cup UNION {{Rec("dp.tsql", <<r, pool.name, "hot", o.id>>, area, HotSeverity(r), "medium", "high") :
                     o \in {o \in hits(r) : Hot(pool, o)}} : r \in rules}

RulesForDedicatedPools(artefact) ==
  UNION {PoolRecs(p) \cup (UNION {TableRecs(p, t) : t \in p.tables}) \cup TsqlRecs(p)
         \cup StatisticsRecs(p) \cup DistributionRecs(p) : p \in artefact.pools}

-----------------------------------------------------------------------------
RulesForServerless(artefact) ==
  Present(artefact,
    {Simple("external_tables", "sl.external_tables", "serverless_pools.external_tables", "info", "medium"),
     Simple("cost_estimate", "sl.cost_baseline", "serverless_pools.cost", "info", "low"),
     Simple("top_queries", "sl.top_query", "serverless_pools.queries", "info", "medium"),
     Simple("storage_account_usage", "sl.storage_attribution", "serverless_pools.storage_attribution", "info", "low"),
     Simple("external_table_columns", "sl.external_columns", "serverless_pools.external_table_columns", "info", "low")})

\* A lint rule has one severity; a pool's runtime needs an upgrade or does not.
RulesForSpark(artefact) ==
  Present(artefact,
    {Simple("pools", "sp.spark_inventory", "spark_pools", "info", "medium"),
     Simple("notebooks", "sp.notebooks", "spark_pools.notebooks", "info", "high"),
     Simple("spark_job_definitions", "sp.spark_job_defs", "spark_pools.spark_job_definitions", "warning", "medium"),
     Simple("upgrades", "sp.runtime_upgrade", "spark_pools.runtime_compat", "warning", "medium")})
  \cup {Rec("sp.lint", <<f.rule>>, "spark_pools.notebooks.lint", f.severity, "medium", "unknown") : f \in artefact.lint}

-----------------------------------------------------------------------------
\* Pipelines; activities and linked services that Fabric does not support, by type.
RulesForRunHistory(history) ==
  LET widest(p) == Max(DOMAIN p.windows)
      w28(p) == p.windows[IF 28 \in DOMAIN p.windows THEN 28 ELSE widest(p)]
      idle == {p \in history : p.windows # <<>> /\ p.windows[widest(p)].runs = 0}
      rated == {p \in history \ idle : p.windows # <<>> /\ w28(p).succeeded + w28(p).failed >= 5}
      below(p, pct) == 100 * w28(p).succeeded < pct * (w28(p).succeeded + w28(p).failed)
      area == "pipelines.runs"
  IN  When(\E p \in idle : widest(p) >= 28, Rec("pl.runs.idle", <<>>, area, "info", "low", "medium"))
      \cup When(\E p \in idle : widest(p) < 28, Rec("pl.runs.idle_7d", <<>>, area, "info", "low", "low"))
      \cup {Rec("pl.runs.chronic_failure", <<p.name>>, area, "blocker", "high", "high") : p \in {p \in rated : below(p, 50)}}
      \cup {Rec("pl.runs.low_success", <<p.name>>, area, "warning", "medium", "medium") :
              p \in {p \in rated : below(p, 95) /\ ~below(p, 50)}}
      \cup When(\E p \in history \ idle : p.windows # <<>> /\ w28(p).movedMb >= 1024,
                Rec("pl.runs.heavy_data_movement", <<>>, area, "info", "medium", "medium"))

RulesForPipelines(artefact) ==
  Present(artefact,
    {Simple("pipelines", "pl.pipelines_inventory", "pipelines", "info", "high"),
     Simple("self_hosted", "pl.self_hosted_ir", "pipelines.integration_runtimes", "warning", "medium"),
     Simple("schedule_mappings", "pl.schedule_mappings", "pipelines.triggers", "info", "low")})
  \cup {Rec("pl.unsupported", <<a.type>>, "pipelines.activities", "warning", "high", "unknown") :
          a \in {a \in artefact.activities : a.support = "unsupported"}}
  \cup When(\E a \in artefact.activities : a.support = "partial",
            Rec("pl.partial_activities", <<>>, "pipelines.activities", "info", "medium", "unknown"))
  \cup {Rec("pl.unsupported_ls", <<t>>, "pipelines.linked_services", "warning", "high", "unknown") : t \in artefact.unsupported_services}
  \cup RulesForRunHistory(artefact.run_history)
  \cup {Rec("pl.expr", <<f.rule>>, "pipelines.expressions", f.severity, "medium", "unknown") : f \in artefact.expressions}

-----------------------------------------------------------------------------
\* A pool without a measured DWU share is passed over, its connections too.
RulesForMonitoring(series) ==
  LET bursty(m) == m.p95 # NotGiven /\ m.avg # NotGiven /\ m.p95 > 85 /\ m.avg < 40
      heavy(m) == m.p95 > 85 /\ ~bursty(m)
      measured == {p \in DOMAIN series : series[p].p95 # NotGiven \/ series[p].avg # NotGiven}
  IN  {Rec("mon.dwu", <<p>>, "monitoring.dwu", IF heavy(series[p]) THEN "warning" ELSE "info", "low",
           IF bursty(series[p]) THEN "medium" ELSE IF heavy(series[p]) THEN "high" ELSE "low") : p \in measured}
      \cup {Rec("mon.failed_conn", <<p>>, "monitoring.connections", "warning", "low", "unknown") :
              p \in {p \in measured : series[p].blocked > 0}}

PoolStorageWarnPct == 80
PoolStorageBlockPct == 95

RulesForStorage(artefact) ==
  LET area == "storage.dedicated_pool"
      full(p) == p.usedPct >= PoolStorageBlockPct
  IN  {Rec("st.pool_full", <<p.name>>, area, "blocker", "medium", "high") : p \in {p \in artefact.pool_storage : full(p)}}
      \cup {Rec("st.pool_high", <<p.name>>, area, "warning", "low", "medium") :
              p \in {p \in artefact.pool_storage : p.usedPct >= PoolStorageWarnPct /\ ~full(p)}}
      \cup {Rec("st.pool_size_baseline", <<p.name>>, area, "info", "low", "low") :
              p \in {p \in artefact.pool_storage : p.reservedGb > 0}}
      \cup When(artefact.default_accounts > 0, Rec("st.workspace_default", <<>>, "storage.accounts", "info", "low", "medium"))
      \cup When(\E gb \in artefact.capacities : gb > 100, Rec("st.large_accounts", <<>>, "storage.accounts", "info", "low", "medium"))

-----------------------------------------------------------------------------
\* Databricks.
RulesForDatabricks(artefact) ==
  LET types(support) == {t.type : t \in {t \in artefact.tasks : t.support = support}}
      area == "databricks_workflows.tasks"
  IN  Present(artefact,
        {Simple("workflows", "db.workflows_inventory", "databricks_workflows", "info", "high"),
         Simple("outdated_clusters", "db.cluster_runtime", "databricks_workflows.clusters", "warning", "medium"),
         Simple("interactive_clusters", "db.interactive_clusters", "databricks_workflows.clusters", "info", "medium")})
      \cup {Rec("db.unsupported", <<t>>, area, "warning", "high", "unknown") : t \in types("unsupported")}
      \cup {Rec("db.partial", <<t>>, area, "info", "medium", "unknown") : t \in types("partial")}
      \cup When(types("unknown") # {}, Rec("db.unknown_tasks", <<>>, area, "warning", "medium", "unknown"))
      \cup When(\E t \in artefact.tasks : t.type = "pipeline_task", Rec("db.dlt_pipelines", <<>>, area, "warning", "high", "unknown"))

WarehouseRecs(mappings) ==
  {Rec("db.sql_warehouse", <<m.id>>, "databricks_workflows.sql_warehouses",
       CASE m.support = "supported" -> "info" [] m.support \in {"partial", "unknown"} -> "warning" [] OTHER -> "blocker",
       "medium", "unknown") : m \in {m \in mappings : m.id # ""}}

\* Table kinds that Fabric supports not at all, or in part.
TableKindRecs(prefix, area, tables) ==
  LET kinds(support) == {t.kind : t \in {t \in tables : t.support = support}}
  IN  {Rec(prefix[1], <<k>>, area, "warning", "high", "unknown") : k \in kinds("unsupported")}
      \cup {Rec(prefix[2], <<k>>, area, "info", "medium", "unknown") : k \in kinds("partial")}

BigQueryJobRecs(jobs) ==
  LET ended == {j \in jobs : j.outcome \in {"succeeded", "failed"}}
      failed == {j \in ended : j.outcome = "failed"}
  IN  {Rec("bq.jobs", <<t>>, "bigquery_workloads.jobs", "info", "low", "unknown") :
         t \in {j.type : j \in jobs} \cap {"QUERY", "LOAD", "EXTRACT", "COPY"}}
      \cup When(ended # {} /\ 10 * Cardinality(failed) >= Cardinality(ended),
                Rec("bq.failed_jobs", <<>>, "bigquery_workloads.jobs", "warning", "medium", "unknown"))

RulesForBigQuery(artefact) ==
  Present(artefact,
    {Simple("datasets", "bq.inventory", "bigquery_workloads", "info", "high"),
     Simple("routines", "bq.routines", "bigquery_workloads.routines", "info", "medium"),
     Simple("scheduled_queries", "bq.scheduled_queries", "bigquery_workloads.scheduled_queries", "info", "medium"),
     Simple("slot_caveats", "bq.slot_hour_caveat", "bigquery_workloads.jobs", "info", "low")})
  \cup TableKindRecs(<<"bq.unsupported_table", "bq.partial_table">>, "bigquery_workloads.tables", artefact.tables)
  \cup BigQueryJobRecs(artefact.jobs)

\* Snowflake; the capacity of the seven-day window, or else of one row of the widest.
WarehouseSku(stats) ==
  LET week == {w \in stats : w.days = 7}
      rows == IF week # {} THEN week ELSE {CHOOSE w \in stats : \A v \in stats : v.days <= w.days}
      days == Max({w.days : w \in rows})
      hours == SumOf([w \in rows |-> w.cuHours])
  IN  IF stats = {} \/ hours <= 0 THEN 0 ELSE SmallestSkuCovering((hours * PerCU * 10) \div (days * 24))

RoutineRecs(routines) ==
  LET lost == \E r \in routines : r.support = "unsupported"
  IN  When(routines # {}, Rec("sf.routines", <<>>, "snowflake_workloads.routines",
                              IF lost THEN "warning" ELSE "info", IF lost THEN "high" ELSE "medium", "unknown"))

RulesForSnowflake(artefact) ==
  When(artefact.databases > 0 \/ artefact.warehouses > 0, Rec("sf.inventory", <<>>, "snowflake_workloads", "info", "high", "unknown"))
  \cup TableKindRecs(<<"sf.unsupported_table", "sf.partial_table">>, "snowflake_workloads.tables", artefact.tables)
  \cup RoutineRecs(artefact.routines)
  \cup Present(artefact,
    {Simple("tasks", "sf.tasks", "snowflake_workloads.tasks", "info", "medium"),
     Simple("streams", "sf.streams", "snowflake_workloads.streams", "info", "medium"),
     Simple("pipes", "sf.pipes", "snowflake_workloads.pipes", "info", "medium"),
     Simple("stages", "sf.stages", "snowflake_workloads.stages", "info", "low"),
     Simple("credit_caveats", "sf.credit_caveat", "snowflake_workloads.jobs", "info", "low")})
  \cup When(WarehouseSku(artefact.warehouse_stats) > 0,
            [Rec("sf.warehouse_sku", <<>>, "snowflake_workloads.warehouses", "info", "low", "unknown")
             EXCEPT !.about = <<ToString(WarehouseSku(artefact.warehouse_stats))>>])
=============================================================================
