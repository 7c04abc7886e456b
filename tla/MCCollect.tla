------------------------------ MODULE MCCollect ------------------------------
EXTENDS SparkHistory, SnowflakeWorkloads, DatabricksWorkflows, BigQueryWorkloads, MCPipelines, MCDedicated, MCModuleProgress, MCMeasures
CONSTANTS p1, p2
MCPools == <<p1, p2>>
Raw(id, app, from, to, state, conf, vcores) ==
  [id |-> id, app |-> app, from |-> from, to |-> to, state |-> state,
   result |-> IF state = "dead" THEN "cancelled" ELSE "none",
   pipelineConf |-> conf, vcores |-> vcores]
\* runs: across the start of the window, across midnights, in progress, of unknown
\* shape, and one application both endpoints list
Old     == Raw(1, "none", -1, 1, "success", FALSE, 2)
Across  == Raw(2, "a", 1, 3, "dead", TRUE, 1)
Again   == Raw(3, "a", 1, 3, "dead", TRUE, 1)
Live    == Raw(4, "b", 3, NoTime, "running", FALSE, 1)
Shapeless == Raw(5, "none", 2, NoTime, "running", TRUE, 0)
Lost    == Raw(6, "none", 0, NoTime, "error", FALSE, 1)
Early   == Raw(7, "none", -3, -1, "stopped", FALSE, 1)
H(b, s) == [batch |-> b, session |-> s]
\* longer than the limit, and just as long
ManyRuns(n) == H(<<>>, [i \in 1..n |-> Raw(20 + i, "none", 0, 1, "success", FALSE, 1)])
MCHistories == {H(<<>>, <<>>), ManyRuns(5), ManyRuns(6), H(<<Again>>, <<Live, Across, Early>>), H(<<Lost>>, <<Shapeless, Across, Old>>)}

\* Snowflake accounts: one with every family, one whose objects are all young,
\* one with routines and no table.
O(db, schema, name, family, kind, flags) ==
  [db |-> db, schema |-> schema, name |-> name, family |-> family, kind |-> kind, flags |-> flags]
Database(n) == [name |-> n, origin |-> FALSE]
Job(id, age, st, wh, size, type, schema) ==
  [id |-> id, age |-> age, status |-> st, warehouse |-> wh, size |-> size, type |-> type,
   schema |-> schema, execution |-> IF id = 3 THEN NoTimestamp ELSE id, elapsed |-> 5]
MCJobs == {Job(1, 0, "SUCCESS", "w1", "XSMALL", "SELECT", <<"A", "s">>),
           Job(2, 10, "FAIL", "w1", "MEDIUM", "INSERT", <<"A", "s">>),
           Job(3, 20, "CANCELLED", "w2", "SMALL", "SELECT", <<"B", "s">>),
           Job(4, 40, "SUCCESS", "none", "none", "CALL", <<"none", "none">>),
           Job(5, NoTimestamp, "RUNNING", "w2", "SMALL", "SELECT", <<"B", "s">>)}
Full == [databases |-> {Database("A"), Database("B"), Database("SNOWFLAKE")},
         objects |-> {O("A", "s", "t1", "tables", "TABLE", {"iceberg"}), O("A", "s", "v1", "views", "", {"materialized"}),
                      O("A", "s", "f1", "functions", "JAVA", {}), O("A", "s", "g1", "stages", "", {}),
                      O("A", "s", "t3", "tables", "DYNAMIC TABLE", {}), O("A", "r", "st", "streams", "", {}),
                      O("A", "r", "ta", "tasks", "", {}), O("A", "r", "pi", "pipes", "", {}),
                      O("B", "s", "t2", "tables", "TABLE", {"transient", "recent"}),
                      O("B", "s", "p1", "procedures", "", {}),
                      O("SNOWFLAKE", "core", "t", "views", "", {})},
         warehouses |-> {[name |-> "w1", size |-> "XSMALL"], [name |-> "w2", size |-> "HUGE"]},
         jobs |-> MCJobs, enterprise |-> TRUE]
Young == [databases |-> {Database("B")},
          objects |-> {O("B", "s", "t2", "tables", "TABLE", {"recent"}), O("B", "s", "p2", "procedures", "PYTHON", {"recent"})},
          warehouses |-> {}, jobs |-> {}, enterprise |-> FALSE]
Code == [databases |-> {Database("A")},
         objects |-> {O("A", "s", "f1", "functions", "SQL", {"recent"}), O("A", "s", "f2", "functions", "BASH", {})},
         warehouses |-> {}, jobs |-> MCJobs, enterprise |-> FALSE]
MCAccounts == {Full, Young, Code}

\* Databricks workspaces: runs sized from each of the four places, a cluster that
\* was running before the window, one restarted inside it, warehouses that only
\* one source saw; and a workspace with warehouses alone.
Shape(node, driver, workers, min, max) == [node |-> node, driver |-> driver, workers |-> workers, min |-> min, max |-> max]
DbRun(job, id, cluster, spec, shape, age, life, result, duration) ==
  [job |-> job, id |-> id, cluster |-> cluster, spec |-> spec, key |-> "k", shape |-> shape,
   age |-> age, life |-> life, result |-> result, duration |-> duration]
Small == Shape("n4", "n8", 2, None, None)
Auto == Shape("n4", "none", None, 1, 3)
Odd == Shape("nx", "n4", 1, None, None)
DbTask(fields, key, existing, inline, environment) ==
  [fields |-> fields, key |-> key, existing |-> existing, inline |-> inline, environment |-> environment]
Event(at, type) == [at |-> at, type |-> type]
Query(wh, st, cpu, age) == [warehouse |-> wh, status |-> st, cpu |-> cpu, age |-> age]
Busy(postMortem) ==
  [postMortem |-> postMortem, access |-> TRUE,
   jobs |-> {[id |-> 1, tasks |-> {DbTask({"notebook_task"}, "k", "none", FALSE, "none")}, clusters |-> [k |-> Auto]],
             [id |-> 2, tasks |-> {DbTask({"spark_jar_task", "dbt_task"}, "none", "c1", FALSE, "none"),
                                   DbTask({}, "none", "none", TRUE, "none"), DbTask({"sql_task"}, "none", "none", FALSE, "e")},
              clusters |-> <<>>]},
   clusters |-> {[id |-> "c1", shape |-> Small, events |-> {Event(1, "RUNNING"), Event(3, "RESIZING"), Event(5, "EDITED"),
                                                            Event(6, "RUNNING"), Event(8, "TERMINATED")}],
                 [id |-> "c2", shape |-> Odd, events |-> {Event(4, "RUNNING"), Event(5, "RUNNING")}]},
   nodes |-> [n4 |-> 4, n8 |-> 8], dead |-> [d1 |-> Small],
   runs |-> <<DbRun(1, 11, "d1", "none", Small, 1, "TERMINATED", "SUCCESS", 3),
              DbRun(1, 12, "x", "key", Auto, 3, "TERMINATED", "FAILED", 2),
              DbRun(1, 13, "d1", "none", Small, 5, "TERMINATED", "none", 1),
              DbRun(2, 21, "c1", "existing", Small, 2, "RUNNING", "none", 1),
              DbRun(2, 22, "c2", "none", Odd, 2, "TERMINATED", "SUCCESS", 1),
              DbRun(2, 23, "x", "inline", Small, 6, "SKIPPED", "none", 0)>>,
   warehouses |-> {}, queries |-> <<>>, usage |-> {}]
Sql(access, jobs) ==
  [Busy(FALSE) EXCEPT !.jobs = jobs, !.clusters = {}, !.runs = <<>>, !.access = access,
   !.warehouses = {[id |-> "h1", type |-> "none", serverless |-> TRUE], [id |-> "h2", type |-> "CLASSIC", serverless |-> FALSE],
                   [id |-> "h3", type |-> "none", serverless |-> FALSE]},
   !.queries = <<Query("h1", "FINISHED", None, 1), Query("h2", "FINISHED", 4, 1), Query("gone", "FAILED", 2, 1),
                 Query("h2", "RUNNING", 0, 9), Query("h2", "CANCELED", 8, 2)>>,
   !.usage = {[warehouse |-> "h1", day |-> 1, task |-> 5, dbu |-> None], [warehouse |-> "h1", day |-> 2, task |-> 900, dbu |-> 1],
              [warehouse |-> "h2", day |-> 1, task |-> 3, dbu |-> 1]}]
MCWorkspaces == {Busy(TRUE), Busy(FALSE), Sql(TRUE, {}), Sql(FALSE, {})}

\* BigQuery projects: jobs in the schema and the log, an idle schema with a log
\* that holds both shapes, and a project of another region.
BJob(id, region, created, age, type, state, error, user, slot, tables) ==
  [id |-> id, region |-> region, created |-> created, age |-> age, type |-> type, state |-> state, error |-> error,
   user |-> user, slot |-> slot, bytes |-> slot, duration |-> 3, tables |-> tables]
BqJobsHeld == {BJob("j1", "us", 5, 5, "QUERY", "DONE", FALSE, "u1", 7, {<<"d1", "t1">>, <<"d1", "gone">>}),
               BJob("j2", "us", 9, 9, "LOAD", "DONE", TRUE, "none", Unset, {<<"d2", "v1">>}),
               BJob("j3", "us", 9, Unset, "SCRIPT", "DONE", TRUE, "u1", 1, {}),
               BJob("j4", "us", 40, 40, "QUERY", "DONE", FALSE, "u1", 1, {}),
               BJob("j5", "eu", 2, 2, "QUERY", "RUNNING", FALSE, "u2", 2, {})}
Entry(shape, j) == [shape |-> shape, job |-> j]
BqLog == {Entry("v2", BJob("j1", "us", 5, 5, "QUERY", "DONE", FALSE, "u1", 7, {<<"d1", "t1">>})),
          Entry("v1", BJob("j1", "us", 5, 5, "QUERY", "DONE", FALSE, "u1", 7, {<<"d1", "t1">>})),
          Entry("v2", BJob("j2", "us", 9, 9, "LOAD", "CANCELLED", FALSE, "none", 4, {<<"d2", "v1">>})),
          Entry("v1", BJob("none", "us", 9, 9, "COPY", "DONE", FALSE, "none", 4, {})),
          Entry("other", BJob("j9", "us", 9, 9, "COPY", "DONE", FALSE, "none", 4, {}))}
BqDatasets == {[id |-> "d1", tables |-> {[id |-> "t1", type |-> "TABLE"], [id |-> "c1", type |-> "CLONE"]},
                routines |-> {[id |-> "r1", type |-> "PROCEDURE"]}],
               [id |-> "d2", tables |-> {[id |-> "v1", type |-> "VIEW"], [id |-> "m1", type |-> "MODEL"]}, routines |-> {}]}
BqTransfers == {[location |-> "us", source |-> "scheduled_query"], [location |-> "eu", source |-> "amazon_s3"],
                [location |-> "asia", source |-> "scheduled_query"]}
BqHolding(source, location, dts, jobs) ==
  [datasets |-> BqDatasets, transfers |-> BqTransfers, hasDts |-> dts, source |-> source, location |-> location,
   jobs |-> jobs, entries |-> BqLog]
MCProjects == {BqHolding("information_schema", "none", TRUE, BqJobsHeld), BqHolding("both", "eu", FALSE, BqJobsHeld),
               BqHolding("audit_log", "us", TRUE, {}), BqHolding("both", "us", TRUE, {}), BqHolding("both", "none", TRUE, BqJobsHeld),
               BqHolding("other", "eu", TRUE, BqJobsHeld)}

\* One analyzer of the run at a time; the others have not begun.
SparkIdle == /\ server = [p \in PoolNames |-> H(<<>>, <<>>)] /\ fetch = [p \in PoolNames |-> Idle]
             /\ collected = [p \in PoolNames |-> <<>>]
             /\ endpointStatus = [p \in PoolNames |-> [e \in Endpoints |-> "none"]]
             /\ sparkErrors = {} /\ sparkStage = "off"
SnowflakeIdle == /\ account = Code /\ grants = <<>> /\ sfReport = <<>>
                 /\ sfJobs = {} /\ sfErrors = {} /\ caveats = {} /\ sfStage = "off"
DatabricksIdle == /\ workspace = Busy(TRUE) /\ nodeTypes = <<>> /\ jobClusters = <<>> /\ pending = <<>>
                  /\ memo = <<>> /\ runs = <<>> /\ usage = <<>> /\ queries = <<>> /\ daily = {}
                  /\ dbReport = [workflows |-> {}, clusters |-> {}, warehouses |-> {}]
                  /\ dbErrors = {} /\ dbCaveats = {} /\ dbStage = "off"
BigQueryIdle == /\ project = BqHolding("both", "eu", FALSE, {})
                /\ catalog = [datasets |-> {}, tables |-> {}, routines |-> {}, scheduled |-> {}, tableCount |-> <<>>]
                /\ bqJobs = {} /\ sourcesTried = {} /\ bqErrors = {} /\ bqCaveats = {} /\ bqStage = "off"
\* A module that is over.
ProgressIdle == /\ script = Pool /\ todo = [t \in Threads |-> <<>>] /\ stage = [t \in Threads |-> "idle"]
                /\ counter = Zero /\ persisted = Zero /\ snap = [t \in Threads |-> Zero]
                /\ handed = <<>> /\ shown = <<Finished>>
OthersIdle == PlIdle /\ PiIdle /\ DedicatedOff /\ CaptureOff /\ MeasuresOff
PlatformsIdle == SparkIdle /\ SnowflakeIdle /\ DatabricksIdle /\ BigQueryIdle
Init == \/ SparkInit /\ SnowflakeIdle /\ DatabricksIdle /\ BigQueryIdle /\ OthersIdle /\ ProgressIdle
        \/ SnowflakeInit /\ SparkIdle /\ DatabricksIdle /\ BigQueryIdle /\ OthersIdle /\ ProgressIdle
        \/ DatabricksInit /\ SparkIdle /\ SnowflakeIdle /\ BigQueryIdle /\ OthersIdle /\ ProgressIdle
        \/ BigQueryInit /\ SparkIdle /\ SnowflakeIdle /\ DatabricksIdle /\ OthersIdle /\ ProgressIdle
        \/ PipelinesAnalyzerInit /\ DedicatedOff /\ CaptureOff /\ MeasuresOff /\ PlatformsIdle /\ ProgressIdle
        \/ DedInit /\ PlIdle /\ PiIdle /\ MeasuresOff /\ PlatformsIdle /\ ProgressIdle
        \/ MeasuresInit /\ PlIdle /\ PiIdle /\ DedicatedOff /\ CaptureOff /\ PlatformsIdle /\ ProgressIdle
        \/ ProgressInit /\ PlatformsIdle /\ OthersIdle
platformVars == <<sparkVars, sfVars, dbVars, bqVars>>
Next == \/ sparkStage # "off" /\ SparkNext /\ UNCHANGED <<sfVars, dbVars, bqVars, plVars, piVars, dedVars, capVars, progressVars, measureVars>>
        \/ sfStage # "off" /\ SnowflakeNext /\ UNCHANGED <<sparkVars, dbVars, bqVars, plVars, piVars, dedVars, capVars, progressVars, measureVars>>
        \/ dbStage # "off" /\ DatabricksNext /\ UNCHANGED <<sparkVars, sfVars, bqVars, plVars, piVars, dedVars, capVars, progressVars, measureVars>>
        \/ bqStage # "off" /\ BigQueryNext /\ UNCHANGED <<sparkVars, sfVars, dbVars, plVars, piVars, dedVars, capVars, progressVars, measureVars>>
        \/ PipelinesAnalyzerNext /\ UNCHANGED <<platformVars, dedVars, capVars, progressVars, measureVars>>
        \/ DedNext /\ UNCHANGED <<platformVars, plVars, piVars, progressVars, measureVars>>
        \/ ProgressNext /\ UNCHANGED <<platformVars, plVars, piVars, dedVars, capVars, measureVars>>
        \/ MeasuresNext /\ UNCHANGED <<platformVars, plVars, piVars, dedVars, capVars, progressVars>>
Spec == Init /\ [][Next]_<<platformVars, plVars, piVars, dedVars, capVars, progressVars, measureVars>>
==============================================================================
