------------------------ MODULE DatabricksWorkflows ------------------------
(***************************************************************************)
(* The databricks_workflows analyzer: jobs, clusters, the runs of every    *)
(* job sized by a cluster found in one of four places, the running time of *)
(* the all-purpose clusters rebuilt from their events, and SQL warehouses  *)
(* mapped to a Fabric capacity from the queries and the system tables.     *)
(* Any call of the workspace may fail; most failures are only logged.      *)
(***************************************************************************)
EXTENDS Integers, Sequences, FiniteSets, FiniteSetsExt, SequencesExt, TLC

CONSTANTS DbWorkspaces,    \* workspaces, see MCCollect
          QueryMax,        \* SMA_DATABRICKS_SQL_MAX
          QueryPage,       \* queries of one page of query_history.list
          DbWindows,       \* DEFAULT_WINDOWS, in the time unit of the events
          Now,             \* time of the analysis
          QueryWindow,     \* time units of the look-back of the queries
          Headroom,        \* DEFAULT_PEAK_TO_AVG_HEADROOM
          FabricSkus       \* FABRIC_SKUS

ASSUME DatabricksAssumption ==
  /\ QueryMax \in Nat \ {0} /\ QueryPage \in Nat \ {0}
  /\ DbWindows \subseteq Nat /\ QueryWindow \in Nat \ {0} /\ FabricSkus \subseteq Nat

VARIABLES workspace,   \* what the workspace holds, and SMA_DATABRICKS_CLUSTER_POSTMORTEM
          nodeTypes,   \* _node_type_vcpus: read once, empty after a failure
          jobClusters, \* job_cluster_index
          pending,     \* what the listing in progress still has to give: runs, then queries
          memo,        \* _cluster_post_mortem
          runs,        \* DatabricksWorkflowsAnalysis.workflow_runs
          usage,       \* interactive_cluster_usage by cluster and window
          queries,     \* sql_warehouse_queries
          daily,       \* sql_warehouse_daily_usage
          dbReport,    \* [workflows, clusters, warehouses]: what was listed
          dbErrors, dbCaveats, dbStage

dbVars == <<workspace, nodeTypes, jobClusters, pending, memo, runs, usage, queries, daily,
            dbReport, dbErrors, dbCaveats, dbStage>>

None == -1
Beyond == -2
NoShape == [node |-> "none", driver |-> "none", workers |-> None, min |-> None, max |-> None]

-----------------------------------------------------------------------------
\* One record of each listing.

TaskFields == <<"notebook_task", "spark_python_task", "spark_jar_task", "sql_task", "pipeline_task", "dbt_task">>
TaskSupport == [t \in {"notebook_task", "spark_python_task", "sql_task", "run_job_task",
                       "condition_task", "for_each_task"} |-> "supported"]
  @@ [t \in {"spark_jar_task", "spark_submit_task", "pipeline_task", "dbt_task"} |-> "partial"]
ClassifyTask(type) == IF type \in DOMAIN TaskSupport THEN TaskSupport[type] ELSE "unknown"

\* Of the fields of a task the first that is there names its type.
DetectTaskType(t) ==
  LET found == SelectSeq(TaskFields, LAMBDA f : f \in t.fields)
  IN IF found = <<>> THEN "unknown" ELSE found[1]

ClassifyClusterRef(t) ==
  IF t.key # "none" THEN <<"job_cluster", t.key>>
  ELSE IF t.existing # "none" THEN <<"existing_cluster", t.existing>>
  ELSE IF t.inline THEN <<"job_cluster", "none">>
  ELSE IF t.environment # "none" THEN <<"serverless", t.environment>>
  ELSE <<"unknown", "none">>

ConvertTask(t) == [type |-> DetectTaskType(t), cluster |-> ClassifyClusterRef(t),
                   support |-> ClassifyTask(DetectTaskType(t))]

ConvertJob(j) ==
  LET tasks == {ConvertTask(t) : t \in j.tasks}
  IN [id |-> j.id, tasks |-> tasks, types |-> {t.type : t \in tasks},
      serverless |-> \E t \in tasks : t.cluster[1] = "serverless"]

OutcomeFromState(life, result) ==
  CASE result = "SUCCESS" -> "succeeded"
    [] result \in {"FAILED", "TIMEDOUT", "CANCELED"} -> "failed"
    [] result = "none" /\ life \in {"TERMINATED", "INTERNAL_ERROR"} -> "failed"
    [] result = "none" /\ life \in {"PENDING", "RUNNING", "QUEUED"} -> "in_progress"
    [] OTHER -> "unknown"

-----------------------------------------------------------------------------
\* The size of a run.

ResolveWorkerCount(s) == IF s.workers # None THEN s.workers
                         ELSE IF s.min # None THEN s.min ELSE s.max

Vcores(node) == IF node \in DOMAIN nodeTypes THEN nodeTypes[node] ELSE None
DriverVcores(s) == IF Vcores(s.driver) \in {None, 0} THEN Vcores(s.node) ELSE Vcores(s.driver)

\* Driver once and every worker; nothing as soon as one part is unknown.
TotalVcores(s) ==
  IF None \in {Vcores(s.node), DriverVcores(s), ResolveWorkerCount(s)} THEN None
  ELSE DriverVcores(s) + Vcores(s.node) * ResolveWorkerCount(s)

\* clusters.get for a cluster that is gone; what it said first is what it says.
Lookup(id, ok) ==
  IF id = "none" \/ ~workspace.postMortem THEN NoShape
  ELSE IF id \in DOMAIN memo THEN memo[id]
  ELSE IF ok /\ id \in DOMAIN workspace.dead THEN workspace.dead[id] ELSE NoShape

\* Mutant: only an answer is remembered, a failure is asked again.
RememberFound(id, shape) ==
  IF id = "none" \/ ~workspace.postMortem \/ id \in DOMAIN memo \/ shape.node = "none"
  THEN memo ELSE memo @@ (id :> shape)

Remember(id, shape) ==
  IF id = "none" \/ ~workspace.postMortem \/ id \in DOMAIN memo THEN memo ELSE memo @@ (id :> shape)

\* Where the cluster of a run is looked for, before the post-mortem.
IndexedShape(r) ==
  LET interactive(id) == IF \E c \in dbReport.clusters : c.id = id
                         THEN (CHOOSE c \in dbReport.clusters : c.id = id).shape ELSE NoShape
  IN CASE r.spec = "inline" -> r.shape
       [] r.spec = "key" -> IF <<r.job, r.key>> \in DOMAIN jobClusters
                            THEN jobClusters[<<r.job, r.key>>] ELSE NoShape
       [] r.spec = "existing" -> interactive(r.cluster)
       [] r.spec = "none" -> interactive(r.cluster)

ConvertRun(r, shape) ==
  [job |-> r.job, id |-> r.id, cluster |-> r.cluster, spec |-> r.spec, age |-> r.age,
   outcome |-> OutcomeFromState(r.life, r.result), duration |-> r.duration, shape |-> shape,
   vcores |-> IF r.duration > 0 THEN TotalVcores(shape) ELSE None]

\* _aggregate_window: only completed runs with a size add to the total.
RunWindow(job, w) ==
  LET inside == {i \in 1..Len(runs) : runs[i].job = job /\ runs[i].age <= w}
      completed == {i \in inside : runs[i].outcome \in {"succeeded", "failed"}}
  IN [runs |-> Cardinality(inside), completed |-> Cardinality(completed),
      usage |-> MapThenSumSet(LAMBDA i : IF runs[i].vcores = None THEN 0
                                         ELSE runs[i].vcores * runs[i].duration, completed)]

RunsByJob == [job \in {runs[i].job : i \in 1..Len(runs)} |-> [w \in DbWindows |-> RunWindow(job, w)]]

-----------------------------------------------------------------------------
\* The running time of a cluster in a window, from the events in the window.

Enders == {"TERMINATING", "TERMINATED", "RESTARTING", "INIT_SCRIPTS_FINISHED", "EDITED"}
Clipped(from, to, start, end) ==
  Max({0, Min({to, end}) - Max({from, start})})

\* Mutant: a second RUNNING opens the interval anew.
ReconstructRuntimeReopened(events, start, end) ==
  LET ordered == SetToSortSeq(events, LAMBDA a, b : a.at < b.at)
      walked == FoldLeft(
        LAMBDA acc, ev :
          IF ev.type = "RUNNING" THEN [acc EXCEPT !.open = ev.at]
          ELSE IF ev.type \in Enders /\ acc.open # None
               THEN [open |-> None, total |-> acc.total + Clipped(acc.open, ev.at, start, end)]
               ELSE acc,
        [open |-> None, total |-> 0], ordered)
  IN walked.total + (IF walked.open = None THEN 0 ELSE Clipped(walked.open, end, start, end))

\* The walk: [open, total] after every event; an interval still open ends with the window.
ReconstructRuntime(events, start, end) ==
  LET ordered == SetToSortSeq(events, LAMBDA a, b : a.at < b.at)
      walked == FoldLeft(
        LAMBDA acc, ev :
          IF ev.type = "RUNNING" /\ acc.open = None THEN [acc EXCEPT !.open = ev.at]
          ELSE IF ev.type \in Enders /\ acc.open # None
               THEN [open |-> None, total |-> acc.total + Clipped(acc.open, ev.at, start, end)]
               ELSE acc,
        [open |-> None, total |-> 0], ordered)
  IN walked.total + (IF walked.open = None THEN 0 ELSE Clipped(walked.open, end, start, end))

ClusterRuntime(c, w) ==
  ReconstructRuntime({ev \in c.events : ev.at >= Now - w /\ ev.at <= Now}, Now - w, Now)

-----------------------------------------------------------------------------
\* SQL warehouses.

ConvertWarehouse(wh) == [id |-> wh.id, type |-> IF wh.type = "none" /\ wh.serverless
                                                THEN "SERVERLESS" ELSE wh.type]
ClassifyWarehouse(type) == CASE type \in {"SERVERLESS", "PRO"} -> "supported"
                             [] type = "CLASSIC" -> "partial" [] OTHER -> "unknown"

\* _aggregate_warehouse_queries: the listed warehouses, and those only queries know.
WarehouseStats ==
  LET known == {wh.id : wh \in dbReport.warehouses}
      seen == {queries[i].warehouse : i \in 1..Len(queries)}
  IN [id \in known \cup seen |->
        LET mine == {i \in 1..Len(queries) : queries[i].warehouse = id}
            timed == {i \in mine : queries[i].cpu # None}
        IN [count |-> Cardinality(mine),
            finished |-> Cardinality({i \in mine : queries[i].status \in {"FINISHED", "FAILED", "CANCELED"}}),
            cpu |-> IF timed = {} THEN None ELSE MapThenSumSet(LAMBDA i : queries[i].cpu, timed)]]

\* Mutant: the average alone picks the capacity.
RecommendSkuAverage(cpu) ==
  LET fits == {s \in FabricSkus : s * QueryWindow >= cpu}
  IN CASE cpu \in {None, 0} -> None
       [] cpu > 0 /\ fits = {} -> Beyond
       [] cpu > 0 /\ fits # {} -> Min(fits)

RecommendSku(cpu) ==
  LET fits == {s \in FabricSkus : s * QueryWindow >= cpu * Headroom}
  IN CASE cpu \in {None, 0} -> None
       [] cpu > 0 /\ fits = {} -> Beyond
       [] cpu > 0 /\ fits # {} -> Min(fits)

\* Of the sum of one measure over the days of a warehouse nothing if no day has it.
SumOfDays(id, field(_)) ==
  LET days == {d \in daily : d.warehouse = id /\ field(d) # None}
  IN IF days = {} THEN None ELSE MapThenSumSet(LAMBDA d : field(d), days)

FabricMapping(wh) ==
  LET cpu == WarehouseStats[wh.id].cpu
      task == SumOfDays(wh.id, LAMBDA d : d.task)
      dbu == SumOfDays(wh.id, LAMBDA d : d.dbu)
      rest == cpu > 0
      system == task > 0 \/ dbu > 0
  IN [sku |-> RecommendSku(IF rest THEN cpu ELSE task),
      support |-> ClassifyWarehouse(wh.type),
      evidence |-> IF rest THEN IF system THEN "both" ELSE "rest_metrics"
                   ELSE IF system THEN "system_tables" ELSE "none",
      disputed |-> rest /\ task > 0 /\ (task > 2 * cpu \/ 2 * task < cpu)]

-----------------------------------------------------------------------------
DatabricksInit ==
  /\ workspace \in DbWorkspaces /\ nodeTypes = <<>> /\ jobClusters = <<>> /\ pending = <<>>
  /\ memo = <<>> /\ runs = <<>> /\ usage = <<>> /\ queries = <<>> /\ daily = {}
  /\ dbReport = [workflows |-> {}, clusters |-> {}, warehouses |-> {}]
  /\ dbErrors = {} /\ dbCaveats = {} /\ dbStage = "workflows"

\* A job the listing strips of its tasks is fetched alone; if that fails too its
\* clusters stay unknown. An exception keeps the jobs listed before it.
ListWorkflows(seen, shallow, raised) ==
  /\ dbStage = "workflows" /\ dbStage' = "clusters"
  /\ raised \/ seen = workspace.jobs
  /\ dbReport' = [dbReport EXCEPT !.workflows =
       {ConvertJob(IF j \in shallow THEN [j EXCEPT !.tasks = {}] ELSE j) : j \in seen}]
  /\ jobClusters' = [jk \in UNION {{j.id} \X DOMAIN j.clusters : j \in seen \ shallow} |->
                       (CHOOSE j \in seen : j.id = jk[1]).clusters[jk[2]]]
  /\ dbErrors' = dbErrors \cup (IF raised THEN {"workflows"} ELSE {})
  /\ UNCHANGED <<workspace, nodeTypes, pending, memo, runs, usage, queries, daily, dbCaveats>>

ListClusters(raised) ==
  /\ dbStage = "clusters" /\ dbStage' = "nodes"
  /\ dbReport' = [dbReport EXCEPT !.clusters = IF raised THEN {} ELSE workspace.clusters]
  /\ dbErrors' = dbErrors \cup (IF raised THEN {"interactive_clusters"} ELSE {})
  /\ UNCHANGED <<workspace, nodeTypes, jobClusters, pending, memo, runs, usage, queries, daily, dbCaveats>>

\* The node types are read once; the failure is remembered as "no node type".
NodeTypeVcpus(failed) ==
  /\ dbStage = "nodes" /\ dbStage' = "runs"
  /\ nodeTypes' = IF failed THEN <<>> ELSE workspace.nodes
  /\ pending' = SelectSeq(workspace.runs, LAMBDA r : \E j \in dbReport.workflows : j.id = r.job)
  /\ UNCHANGED <<workspace, jobClusters, memo, runs, usage, queries, daily, dbReport, dbErrors, dbCaveats>>

\* list_runs is refused for the job whose turn it is: the job is passed over.
SkipJob ==
  /\ dbStage = "runs" /\ pending # <<>>
  /\ \A i \in 1..Len(runs) : runs[i].job # pending[1].job
  /\ pending' = SelectSeq(pending, LAMBDA r : r.job # pending[1].job)
  /\ UNCHANGED <<workspace, nodeTypes, jobClusters, memo, runs, usage, queries, daily,
                 dbReport, dbErrors, dbCaveats, dbStage>>

\* The next run; its cluster may have to be asked for, and the answer may fail.
TakeRun(ok) ==
  LET r == pending[1]
      indexed == IndexedShape(r)
      asked == indexed.node = "none" /\ r.cluster # "none"
      found == IF asked THEN Lookup(r.cluster, ok) ELSE indexed
  IN /\ dbStage = "runs" /\ pending # <<>>
     /\ ok \/ (asked /\ workspace.postMortem /\ r.cluster \notin DOMAIN memo)
     /\ runs' = Append(runs, ConvertRun(r, found))
     /\ memo' = IF asked THEN Remember(r.cluster, found) ELSE memo
     /\ pending' = Tail(pending)
     /\ UNCHANGED <<workspace, nodeTypes, jobClusters, usage, queries, daily, dbReport,
                    dbErrors, dbCaveats, dbStage>>

\* The next page of the runs of a job raises: the runs of every job are dropped.
LoseRuns ==
  /\ dbStage = "runs" /\ pending # <<>>
  /\ runs' = <<>> /\ pending' = <<>>
  /\ dbErrors' = dbErrors \cup {"workflow_runs"}
  /\ UNCHANGED <<workspace, nodeTypes, jobClusters, memo, usage, queries, daily, dbReport,
                 dbCaveats, dbStage>>

Unsized(r) == r.vcores = None /\ r.duration > 0
SizingCaveats ==
  LET unsized == {i \in 1..Len(runs) : Unsized(runs[i])}
  IN {<<"unmapped", runs[i].shape.node>> : i \in {i \in unsized : /\ runs[i].shape.node # "none"
                                                                  /\ Vcores(runs[i].shape.node) = None}}
     \cup (IF ~workspace.postMortem /\ \E i \in unsized : runs[i].shape.node = "none"
           THEN {<<"unresolved">>} ELSE {})

SumRuns ==
  /\ dbStage = "runs" /\ pending = <<>> /\ dbStage' = "usage"
  /\ dbCaveats' = dbCaveats \cup SizingCaveats
  /\ UNCHANGED <<workspace, nodeTypes, jobClusters, pending, memo, runs, usage, queries, daily,
                 dbReport, dbErrors>>

\* Each window of each cluster asks for its events; a failure counts as no time.
ClusterUsage(lost) ==
  /\ dbStage = "usage" /\ dbStage' = "warehouses"
  /\ usage' = [cw \in dbReport.clusters \X DbWindows |->
                 LET time == IF <<cw[1].id, cw[2]>> \in lost THEN 0 ELSE ClusterRuntime(cw[1], cw[2])
                 IN [time |-> time, used |-> time * Max({0, TotalVcores(cw[1].shape)})]]
  /\ UNCHANGED <<workspace, nodeTypes, jobClusters, pending, memo, runs, queries, daily,
                 dbReport, dbErrors, dbCaveats>>

ListWarehouses(failed) ==
  /\ dbStage = "warehouses" /\ dbStage' = "queries"
  /\ dbReport' = [dbReport EXCEPT !.warehouses =
                    IF failed THEN {} ELSE {ConvertWarehouse(wh) : wh \in workspace.warehouses}]
  /\ pending' = workspace.queries
  /\ UNCHANGED <<workspace, nodeTypes, jobClusters, memo, runs, usage, queries, daily,
                 dbErrors, dbCaveats>>

\* One page of the query history.
QueryPageRead ==
  LET size == Min({QueryPage, Len(pending)})
      page == SubSeq(pending, 1, size)
      behind == SubSeq(pending, size + 1, Len(pending))
      recent == SelectSeq(page, LAMBDA q : q.age <= QueryWindow)
      kept == SubSeq(recent, 1, Min({Len(recent), QueryMax - Len(queries)}))
      more == Len(queries) + Len(kept) < QueryMax /\ behind # <<>>
  IN /\ dbStage = "queries"
     /\ queries' = queries \o kept
     /\ pending' = IF more THEN behind ELSE <<>>
     /\ dbStage' = IF more THEN "queries" ELSE "system"
     /\ UNCHANGED <<workspace, nodeTypes, jobClusters, memo, runs, usage, daily, dbReport,
                    dbErrors, dbCaveats>>

\* The call for a page raises: the queries before it are kept, and nothing is said.
QueryPageFails ==
  /\ dbStage = "queries" /\ dbStage' = "system" /\ pending' = <<>>
  /\ UNCHANGED <<workspace, nodeTypes, jobClusters, memo, runs, usage, queries, daily, dbReport,
                 dbErrors, dbCaveats>>

\* collect_system_table_usage: two statements, merged by warehouse and day; each
\* may fail alone. Without a warehouse nothing is asked.
SystemTables(history, billing) ==
  LET known == {wh.id : wh \in dbReport.warehouses}
      rows == {u \in workspace.usage : u.warehouse \in known}
  IN /\ dbStage = "system" /\ dbStage' = "mapped"
     /\ daily' = {[u EXCEPT !.task = IF history THEN @ ELSE None, !.dbu = IF billing THEN @ ELSE None] :
                  u \in {x \in rows : (history /\ x.task # None) \/ (billing /\ x.dbu # None)}}
     /\ dbCaveats' = dbCaveats \cup
          (IF known # {} /\ dbReport.workflows = {} /\ dbReport.clusters = {} /\ jobClusters = <<>>
           THEN {IF workspace.access THEN <<"empty">> ELSE <<"entitlements">>} ELSE {})
     /\ UNCHANGED <<workspace, nodeTypes, jobClusters, pending, memo, runs, usage, queries,
                    dbReport, dbErrors>>

DatabricksNext ==
  \/ \E seen \in SUBSET workspace.jobs, raised \in BOOLEAN :
       \E shallow \in SUBSET seen : ListWorkflows(seen, shallow, raised)
  \/ \E failed \in BOOLEAN : ListClusters(failed) \/ NodeTypeVcpus(failed) \/ ListWarehouses(failed)
  \/ SkipJob \/ LoseRuns \/ SumRuns
  \/ \E ok \in BOOLEAN : TakeRun(ok)
  \/ \E lost \in SUBSET {<<c.id, w>> : c \in dbReport.clusters, w \in DbWindows} :
       Cardinality(lost) <= 1 /\ ClusterUsage(lost)
  \/ QueryPageRead \/ QueryPageFails
  \/ \E history, billing \in BOOLEAN : SystemTables(history, billing)

-----------------------------------------------------------------------------
\* "a flapping ephemeral only costs one API call across all of its runs"
\* (_cluster_post_mortem_lookup): the runs that one answer sizes are all sized or
\* none is, whatever the service answered in between, so the average over the runs
\* of a cluster is not over an accident. A size is that of the cluster the run had,
\* where the driver's node type is known. Without the post-mortem every run left
\* out of the totals for want of a shape is told of.
RunSizingConsistent ==
  /\ \A i, j \in 1..Len(runs) :
       runs[i].spec = "none" /\ runs[j].spec = "none" /\ runs[i].cluster = runs[j].cluster
         => runs[i].shape = runs[j].shape
  /\ \A i \in 1..Len(runs) :
       LET raw == CHOOSE r \in ToSet(workspace.runs) : r.id = runs[i].id
       IN runs[i].vcores # None /\ raw.shape.driver \in DOMAIN nodeTypes
            => runs[i].vcores = nodeTypes[raw.shape.driver]
                                + nodeTypes[raw.shape.node] * ResolveWorkerCount(raw.shape)
  /\ \A w \in DbWindows :
       MapThenSumSet(LAMBDA job : RunsByJob[job][w].usage, DOMAIN RunsByJob)
         = FoldLeft(LAMBDA acc, r : acc + (IF /\ r.age <= w /\ r.vcores # None
                                              /\ r.outcome \in {"succeeded", "failed"}
                                           THEN r.vcores * r.duration ELSE 0), 0, runs)
  /\ dbStage \in {"usage", "mapped"} /\ ~workspace.postMortem =>
       \A i \in 1..Len(runs) :
         Unsized(runs[i]) => \/ <<"unmapped", runs[i].shape.node>> \in dbCaveats
                             \/ runs[i].shape.node = "none" /\ <<"unresolved">> \in dbCaveats

\* A cluster runs at t when the last event that says anything says so.
RunsAt(c, t) ==
  LET told == {ev \in c.events : ev.at <= t /\ ev.type \in Enders \cup {"RUNNING"}}
  IN \E ev \in told : ev.type = "RUNNING" /\ \A other \in told : other.at <= ev.at

\* "Return total RUNNING-time (seconds) for cluster_id in the window"
\* (iter_cluster_events_runtime): never more than the cluster ran, exactly that
\* where it was not running already when the window began, and a longer window
\* never has less unless its own call failed.
ClusterRuntimeMeasured ==
  \A cw \in DOMAIN usage :
    LET c == cw[1]
        ran == Cardinality({t \in (Now - cw[2])..(Now - 1) : RunsAt(c, t)})
    IN /\ usage[cw].time <= ran
       /\ usage[cw].time # 0 /\ ~RunsAt(c, Now - cw[2] - 1) => usage[cw].time = ran
       /\ \A w \in DbWindows :
            w > cw[2] /\ usage[<<c, w>>].time # 0 => usage[cw].time <= usage[<<c, w>>].time

\* A recommended capacity carries the CPU time the lookback saw with the headroom,
\* the next smaller one does not, and it is withheld exactly where nothing was
\* measured; confidence is high only where both sources saw the warehouse. Every
\* query is counted for one warehouse (_build_sql_warehouse_fabric_mappings).
SkuCoversDemand ==
  dbStage = "mapped" =>
    /\ MapThenSumSet(LAMBDA id : WarehouseStats[id].count, DOMAIN WarehouseStats) = Len(queries)
    /\ \A wh \in dbReport.warehouses :
         LET m == FabricMapping(wh)
             cpu == FoldLeft(LAMBDA acc, q : acc + (IF q.warehouse = wh.id /\ q.cpu # None THEN q.cpu ELSE 0),
                             0, queries)
             tasks == {d \in daily : d.warehouse = wh.id /\ d.task # None}
             demand == IF cpu > 0 THEN cpu ELSE MapThenSumSet(LAMBDA d : d.task, tasks)
         IN /\ (m.sku = None <=> demand = 0)
            /\ m.sku \notin {None, Beyond} =>
                 \A s \in FabricSkus : (s * QueryWindow >= demand * Headroom <=> s >= m.sku)
            /\ m.evidence = "both" => cpu > 0 /\ daily # {}
            /\ m.evidence = "none" => m.sku = None

\* What the workspace used is measured: its runs, its clusters, its warehouses
\* (databricks_workflows/analyzer.py, run).
DatabricksMeasured == RunSizingConsistent /\ ClusterRuntimeMeasured /\ SkuCoversDemand
=============================================================================
