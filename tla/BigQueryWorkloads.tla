------------------------- MODULE BigQueryWorkloads -------------------------
(***************************************************************************)
(* The bigquery_workloads analyzer: the catalogue of a project, its        *)
(* scheduled queries, and its jobs from INFORMATION_SCHEMA or, where that  *)
(* gave none, from the audit log, rolled up by window, day, dimension and  *)
(* table. Refused listings inside the collector are only logged; what      *)
(* escapes it is an error of the report.                                   *)
(***************************************************************************)
EXTENDS Integers, FiniteSets, FiniteSetsExt, Functions, TLC

CONSTANTS BqProjects,      \* projects, see MCCollect
          BqLookbackEnv,   \* SMA_BQ_JOB_LOOKBACK_DAYS
          BqWindows        \* DEFAULT_WINDOWS

\* A job as a project keeps it. A job is one row of its region, and the filter of
\* the audit log lets the jobs that are over through; ids are those of one dataset.
BqJobRows == [id : STRING, region : STRING, created : Int, age : Int, type : STRING, state : STRING, error : BOOLEAN,
              user : STRING, slot : Int, bytes : Int, duration : Int, tables : SUBSET (STRING \X STRING)]
BqProject(p) ==
  /\ IsFiniteSet(p.datasets) /\ IsFiniteSet(p.jobs) /\ IsFiniteSet(p.entries)
  /\ \A d, e \in p.datasets : d.id = e.id => d = e
  /\ \A d \in p.datasets : IsFiniteSet(d.tables) /\ \A t, u \in d.tables : t.id = u.id => t = u
  /\ p.jobs \subseteq BqJobRows
  /\ \A i, j \in p.jobs : i.region = j.region /\ i.id = j.id /\ i.id # "none" => i = j
  /\ \A e \in p.entries : e.job \in BqJobRows /\ e.job.state \notin {"RUNNING", "PENDING"}

ASSUME BigQueryAssumption == /\ BqLookbackEnv \in Int /\ BqWindows \subseteq Nat
                             /\ \A p \in BqProjects : BqProject(p)

VARIABLES project,      \* what the project holds, and SMA_GCP_JOBS_SOURCE
          catalog,      \* datasets, tables, routines and scheduled queries of the report
          bqJobs,       \* BigQueryWorkloadsAnalysis.jobs
          sourcesTried, bqErrors, bqCaveats, bqStage

bqVars == <<project, catalog, bqJobs, sourcesTried, bqErrors, bqCaveats, bqStage>>

Unset == -1
BqLocations == {"us", "eu"}

\* The window of the jobs, between one day and the retention of JOBS_BY_PROJECT.
BqLookback == Max({1, Min({BqLookbackEnv, 180})})
JobsSource == IF project.source \in {"information_schema", "audit_log", "both"}
              THEN project.source ELSE "information_schema"

-----------------------------------------------------------------------------
\* One record of each listing.

BqTableSupport == [t \in {"TABLE"} |-> "supported"]
  @@ [t \in {"VIEW", "MATERIALIZED_VIEW", "EXTERNAL"} |-> "partial"]
  @@ [t \in {"SNAPSHOT", "CLONE"} |-> "unsupported"]
BqRoutineSupport == [t \in {"SCALAR_FUNCTION", "PROCEDURE", "TABLE_VALUED_FUNCTION"} |-> "partial"]
  @@ [t \in {"AGGREGATE_FUNCTION"} |-> "unsupported"]
KnownType(support, type) == IF type \in DOMAIN support THEN type ELSE "UNKNOWN"
Label(support, type) == IF type \in DOMAIN support THEN support[type] ELSE "unknown"

BqTableRow(dataset, t) ==
  [dataset |-> dataset, id |-> t.id, type |-> KnownType(BqTableSupport, t.type),
   support |-> Label(BqTableSupport, KnownType(BqTableSupport, t.type))]
BqRoutineRow(dataset, t) ==
  [dataset |-> dataset, id |-> t.id, type |-> KnownType(BqRoutineSupport, t.type),
   support |-> Label(BqRoutineSupport, KnownType(BqRoutineSupport, t.type))]

JobOutcome(state, error) ==
  CASE error -> "failed"
    [] ~error /\ state = "DONE" -> "succeeded"
    [] ~error /\ state \in {"RUNNING", "PENDING"} -> "in_progress"
    [] ~error /\ state = "CANCELLED" -> "cancelled"
    [] OTHER -> "unknown"

NormaliseJobType(type) == IF type \in {"QUERY", "LOAD", "EXTRACT", "COPY"} THEN type ELSE "UNKNOWN"

\* A job as the report keeps it. An age of Unset is a job that never started.
BqJob(entry, j, type) ==
  [entry |-> entry, id |-> j.id, type |-> NormaliseJobType(type),
   outcome |-> JobOutcome(j.state, j.error), age |-> j.age, user |-> j.user,
   slot |-> j.slot, bytes |-> j.bytes, duration |-> IF j.age = Unset THEN Unset ELSE j.duration,
   tables |-> j.tables]

\* A row of JOBS_BY_PROJECT, and an entry of the audit log in either shape; an
\* entry of neither shape, or without the id of a job, is no job. Only the modern
\* shape knows a load's bytes, and only query statistics know slots there.
JobFromRow(j) == BqJob("row", j, j.type)
JobFromEntry(e) ==
  IF e.shape = "v2"
  THEN BqJob("v2", IF e.job.type = "QUERY" THEN e.job ELSE [e.job EXCEPT !.slot = Unset], e.job.type)
  ELSE BqJob("v1", IF e.job.type = "QUERY" THEN e.job ELSE [e.job EXCEPT !.bytes = Unset], e.job.type)
IsJobEntry(e) == e.shape \in {"v1", "v2"} /\ e.job.id # "none"

-----------------------------------------------------------------------------
\* Roll-ups of the jobs. Slot time counts in the unit of the report.

Measured(J, field(_)) == MapThenSumSet(LAMBDA j : Max({0, field(j)}), J)
SlotTime(J) == Measured(J, LAMBDA j : j.slot)
Billed(J) == Measured(J, LAMBDA j : j.bytes)

\* Mutant: a failed job is not a completed one.
BqCompletedGood(J) == {j \in J : j.outcome = "succeeded"}

BqCompleted(J) == {j \in J : j.outcome \in {"succeeded", "failed"}}

BqByWindow ==
  [w \in BqWindows |->
     LET inside == {j \in bqJobs : j.age # Unset /\ j.age <= w}
     IN [jobs |-> Cardinality(inside), completed |-> Cardinality(BqCompleted(inside)),
         slots |-> SlotTime(BqCompleted(inside)), bytes |-> Billed(BqCompleted(inside))]]

\* Every job that began, whatever became of it.
BqByDay ==
  [day \in {j.age : j \in bqJobs} \ {Unset} |->
     LET mine == {j \in bqJobs : j.age = day}
         ended(outcome) == Cardinality({j \in mine : j.outcome = outcome})
     IN [jobs |-> Cardinality(mine), succeeded |-> ended("succeeded"), failed |-> ended("failed"),
         cancelled |-> ended("cancelled"),
         other |-> Cardinality({j \in mine : j.outcome \notin {"succeeded", "failed", "cancelled"}}),
         slots |-> SlotTime(mine), bytes |-> Billed(mine)]]

\* A job without a key is kept under a key of its own.
BqByDimension(key(_)) ==
  LET label(j) == IF key(j) = "none" THEN "<unknown>" ELSE key(j)
  IN [k \in {label(j) : j \in bqJobs} |->
        LET mine == {j \in bqJobs : label(j) = k}
        IN [jobs |-> Cardinality(mine), slots |-> SlotTime(mine), bytes |-> Billed(mine)]]

\* One row for every table a job referenced, the whole job for each of its tables.
BqTableUsage ==
  [t \in UNION {j.tables : j \in bqJobs} |->
     LET users == {j \in bqJobs : t \in j.tables}
         listed == {c \in catalog.tables : <<c.dataset, c.id>> = t}
     IN [count |-> Cardinality(users), slots |-> SlotTime(users),
         inCatalog |-> listed # {},
         support |-> IF listed = {} THEN "unknown" ELSE (CHOOSE c \in listed : TRUE).support]]

-----------------------------------------------------------------------------
BigQueryInit ==
  /\ project \in BqProjects
  /\ catalog = [datasets |-> {}, tables |-> {}, routines |-> {}, scheduled |-> {}, tableCount |-> <<>>]
  /\ bqJobs = {} /\ sourcesTried = {} /\ bqErrors = {} /\ bqCaveats = {} /\ bqStage = "datasets"

\* A dataset that cannot be read is passed over; a listing that breaks loses all.
ListDatasets(unread, broken) ==
  /\ bqStage = "datasets" /\ bqStage' = "tables"
  /\ catalog' = [catalog EXCEPT !.datasets = IF broken THEN {} ELSE {d.id : d \in project.datasets \ unread}]
  /\ bqErrors' = bqErrors \cup (IF broken THEN {"datasets"} ELSE {})
  /\ UNCHANGED <<project, bqJobs, sourcesTried, bqCaveats>>

Enumerated == {d \in project.datasets : d.id \in catalog.datasets}

\* A dataset whose tables cannot be listed counts none, and nothing is said.
TablesSeen(d, unlisted, unread) == {t \in d.tables : d \notin unlisted /\ <<d.id, t.id>> # unread}
ListTables(unlisted, unread) ==
  /\ bqStage = "tables" /\ bqStage' = "routines"
  /\ catalog' = [catalog EXCEPT
       !.tables = UNION {{BqTableRow(d.id, t) : t \in TablesSeen(d, unlisted, unread)} : d \in Enumerated},
       !.tableCount = [id \in catalog.datasets |->
                         Cardinality(TablesSeen(CHOOSE d \in Enumerated : d.id = id, unlisted, unread))]]
  /\ UNCHANGED <<project, bqJobs, sourcesTried, bqErrors, bqCaveats>>

ListRoutines(unlisted) ==
  /\ bqStage = "routines" /\ bqStage' = "scheduled"
  /\ catalog' = [catalog EXCEPT !.routines =
       UNION {{BqRoutineRow(d.id, r) : r \in d.routines} : d \in Enumerated \ unlisted}]
  /\ UNCHANGED <<project, bqJobs, sourcesTried, bqErrors, bqCaveats>>

\* Two locations are asked, wherever the project is; other transfers are no query.
ScheduledQueries(refused) ==
  /\ bqStage = "scheduled"
  /\ bqStage' = IF JobsSource = "audit_log" THEN "audit" ELSE "schema"
  /\ catalog' = [catalog EXCEPT !.scheduled =
       {q \in project.transfers : /\ project.hasDts /\ q.source = "scheduled_query"
                                  /\ q.location \in BqLocations \ refused}]
  /\ bqCaveats' = bqCaveats \cup (IF project.hasDts THEN {} ELSE {"no_transfer_client"})
  /\ UNCHANGED <<project, bqJobs, sourcesTried, bqErrors>>

Region == IF project.location = "none" THEN "us" ELSE project.location
SchemaRows == {j \in project.jobs : /\ j.region = Region /\ j.created <= BqLookback
                                    /\ j.state = "DONE" /\ j.id # "none"}

\* Mutant: the audit log is asked only after an error.
NeedsAuditLogOnError(jobs) == jobs = {} /\ JobsSource = "both" /\ bqErrors # {}

\* Nothing found in the schema: the audit log is asked only where it was chosen.
NeedsAuditLog(jobs) == jobs = {} /\ JobsSource = "both"

\* "ok": also where only the retry without the edition column succeeds; "refused":
\* logged and no rows; "broken": the rows end in an exception, and all are lost.
JobsFromSchema(how) ==
  /\ bqStage = "schema"
  /\ bqJobs' = IF how = "ok" THEN {JobFromRow(j) : j \in SchemaRows} ELSE {}
  /\ sourcesTried' = sourcesTried \cup {"information_schema"}
  /\ bqErrors' = bqErrors \cup (IF how = "broken" THEN {"jobs.information_schema"} ELSE {})
  /\ bqStage' = IF NeedsAuditLog(bqJobs') THEN "audit" ELSE "rollup"
  /\ UNCHANGED <<project, catalog, bqCaveats>>

JobsFromAuditLog(how, unparsed) ==
  /\ bqStage = "audit" /\ bqStage' = "rollup"
  /\ bqJobs' = IF how = "ok" THEN {JobFromEntry(e) : e \in {x \in project.entries \ unparsed :
                                     IsJobEntry(x) /\ x.job.created <= BqLookback}} ELSE {}
  /\ sourcesTried' = sourcesTried \cup {"audit_log"}
  /\ bqErrors' = bqErrors \cup (IF how = "broken" THEN {"jobs.audit_log"} ELSE {})
  /\ UNCHANGED <<project, catalog, bqCaveats>>

RollUp ==
  /\ bqStage = "rollup" /\ bqStage' = "done"
  /\ bqCaveats' = bqCaveats \cup
       (IF bqJobs = {} THEN {IF sourcesTried = {"information_schema"} THEN "likely_idle" ELSE "enable_audit_logs"}
        ELSE IF \E j \in bqJobs : j.slot # Unset THEN {"slot_to_cu"} ELSE {})
  /\ UNCHANGED <<project, catalog, bqJobs, sourcesTried, bqErrors>>

BigQueryNext ==
  \/ \E unread \in SUBSET project.datasets, broken \in BOOLEAN : ListDatasets(unread, broken)
  \/ \E unlisted \in SUBSET project.datasets :
       \/ ListRoutines(unlisted)
       \/ \E unread \in {<<d.id, t.id>> : d \in project.datasets, t \in UNION {x.tables : x \in project.datasets}} :
            ListTables(unlisted, unread)
       \/ ListTables(unlisted, <<>>)
  \/ \E refused \in SUBSET BqLocations : ScheduledQueries(refused)
  \/ \E how \in {"ok", "refused", "broken"} :
       JobsFromSchema(how) \/ \E unparsed \in SUBSET project.entries : JobsFromAuditLog(how, unparsed)
  \/ RollUp

BigQuerySpec == BigQueryInit /\ [][BigQueryNext]_bqVars

-----------------------------------------------------------------------------
\* The rows of a breakdown over the keys K add up to the jobs J.
RowsCover(rows, K, J) ==
  /\ MapThenSumSet(LAMBDA k : rows[k].jobs, K) = Cardinality(J)
  /\ MapThenSumSet(LAMBDA k : rows[k].slots, K) = SlotTime(J)
  /\ MapThenSumSet(LAMBDA k : rows[k].bytes, K) = Billed(J)
DimensionsCover ==
  LET users == BqByDimension(LAMBDA j : j.user)
      types == BqByDimension(LAMBDA j : j.type)
  IN RowsCover(users, DOMAIN users, bqJobs) /\ RowsCover(types, DOMAIN types, bqJobs)
DaysCover ==
  /\ RowsCover(BqByDay, DOMAIN BqByDay, {j \in bqJobs : j.age # Unset})
  /\ \A d \in DOMAIN BqByDay :
       LET row == BqByDay[d] IN row.succeeded + row.failed + row.cancelled + row.other = row.jobs
WindowsCover ==
  \A w \in BqWindows :
    LET days == {d \in DOMAIN BqByDay : d <= w}
    IN /\ BqByWindow[w].jobs = MapThenSumSet(LAMBDA k : BqByDay[k].jobs, days)
       /\ BqByWindow[w].completed =
            MapThenSumSet(LAMBDA k : BqByDay[k].succeeded + BqByDay[k].failed, days)
       /\ BqByWindow[w].slots <= MapThenSumSet(LAMBDA k : BqByDay[k].slots, days)
TablesAreUsed ==
  \A j \in bqJobs : \A t \in j.tables :
    /\ t \in DOMAIN BqTableUsage
    /\ BqTableUsage[t].slots >= j.slot
    /\ BqTableUsage[t].inCatalog <=> \E c \in catalog.tables : t = <<c.dataset, c.id>>
DatasetsAddUp ==
  bqStage \notin {"datasets", "tables"} =>
    MapThenSumSet(LAMBDA id : catalog.tableCount[id], DOMAIN catalog.tableCount) = Cardinality(catalog.tables)

\* Every view of the jobs is a view of the same jobs: each breakdown adds up to all
\* of them ("missing data is still visible in the report rather than silently
\* dropped"), the days to those that began, a day to its outcomes, a window to the
\* completed jobs of its days; a table is used by the jobs that name it, whether
\* or not the catalogue knows it, and the datasets add up to the tables.
ViewsAgree == DimensionsCover /\ DaysCover /\ WindowsCover /\ TablesAreUsed /\ DatasetsAddUp

\* An empty list of jobs is told of, and never when a source that was to be asked
\* had jobs to give: "INFORMATION_SCHEMA preferred, audit-log fallback". The rows of
\* JOBS_BY_PROJECT hold a job once. The advice fits the source that was asked.
EmptyJobsMeanNoSourceHadThem ==
  bqStage = "done" =>
    /\ bqJobs = {} <=> bqCaveats \cap {"likely_idle", "enable_audit_logs"} # {}
    /\ bqJobs = {} /\ JobsSource = "both" => "audit_log" \in sourcesTried
    /\ "audit_log" \in sourcesTried => JobsSource # "information_schema"
    /\ \A i, j \in bqJobs : i.id = j.id /\ i.entry = "row" /\ j.entry = "row" => i = j
    /\ \A j \in bqJobs : j.outcome # "in_progress"

\* The jobs of the report are one set of jobs, from a source that had them
\* (bigquery_workloads/analyzer.py, run).
BigQueryJobsAgree == ViewsAgree /\ EmptyJobsMeanNoSourceHadThem
=============================================================================
