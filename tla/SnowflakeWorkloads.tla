------------------------- MODULE SnowflakeWorkloads -------------------------
(***************************************************************************)
(* The snowflake_workloads analyzer: SHOW statements that return an empty  *)
(* set where a grant is missing, the ACCOUNT_USAGE inventory it falls back *)
(* to, the query history and its roll-ups, and the caveats that tell the   *)
(* reader what the report could not see. Any statement may also fail.      *)
(***************************************************************************)
EXTENDS Integers, Sequences, FiniteSets, FiniteSetsExt, TLC

CONSTANTS SfAccounts,      \* accounts: [databases, objects, warehouses, jobs, enterprise]
          SfLookbackEnv,   \* SMA_SNOWFLAKE_JOB_LOOKBACK_DAYS, or NotANumber
          SfJobLimit,      \* SMA_SNOWFLAKE_JOB_LIMIT, at least 1
          SfMaxFailures    \* bound: statements that fail though they are allowed

NotANumber == -1
NoTimestamp == -1
SystemDatabases == {"SNOWFLAKE", "SNOWFLAKE_SAMPLE_DATA"}
SfFamilies == {"tables", "views", "functions", "procedures", "stages", "streams", "tasks", "pipes"}

\* Names are those of one kind of object in one schema, the overloads of a routine
\* being names of their own, and a query has an id.
SfAccount(a) ==
  /\ IsFiniteSet(a.databases) /\ IsFiniteSet(a.objects) /\ IsFiniteSet(a.jobs)
  /\ \A d, e \in a.databases : d.name = e.name => d = e
  /\ \A o \in a.objects : o.family \in SfFamilies
  /\ \A o, p \in a.objects : o.db = p.db /\ o.schema = p.schema /\ o.name = p.name /\ o.family = p.family => o = p
  /\ \A q \in a.jobs : q.id \in Int /\ q.age \in Int /\ {q.execution, q.elapsed} \subseteq Nat \cup {NoTimestamp}
  /\ \A q, r \in a.jobs : q.id = r.id => q = r

ASSUME SnowflakeAssumption == /\ SfMaxFailures \in Nat /\ SfJobLimit \in Nat \ {0} /\ SfLookbackEnv \in Int
                              /\ \A a \in SfAccounts : SfAccount(a)

VARIABLES account,   \* what the account holds
          grants,    \* [shown, used: databases; imported, forced, system: BOOLEAN]
          sfReport,    \* SnowflakeWorkloadsAnalysis: the inventory
          sfJobs,   \* SnowflakeWorkloadsAnalysis.jobs
          sfErrors,  \* SnowflakeWorkloadsAnalysis.errors, by what failed
          caveats,   \* SnowflakeWorkloadsAnalysis.caveats
          sfStage    \* where run() is

sfVars == <<account, grants, sfReport, sfJobs, sfErrors, caveats, sfStage>>

-----------------------------------------------------------------------------
\* One row of each statement.

DatabaseRow(d) == [name |-> d.name, share |-> d.origin, schemas |-> 0]

SpelledKinds == [k \in {"EXTERNAL TABLE", "DYNAMIC TABLE", "ICEBERG TABLE"} |->
                   CASE k = "EXTERNAL TABLE" -> "EXTERNAL_TABLE" [] k = "DYNAMIC TABLE" -> "DYNAMIC_TABLE"
                     [] k = "ICEBERG TABLE" -> "ICEBERG_TABLE"]

ShowTableKind(o) ==
  IF o.kind \in DOMAIN SpelledKinds THEN SpelledKinds[o.kind]
  ELSE IF "iceberg" \in o.flags THEN "ICEBERG_TABLE"
  ELSE IF o.kind = "TEMPORARY" THEN "TEMPORARY"
  ELSE IF o.kind = "TRANSIENT" \/ "transient" \in o.flags THEN "TRANSIENT"
  ELSE IF o.kind \in {"TABLE", ""} THEN "TABLE" ELSE "UNKNOWN"

\* ACCOUNT_USAGE.TABLES says BASE TABLE, and its query asks for no iceberg flag.
AccountUsageTableKind(o) ==
  IF o.kind \in DOMAIN SpelledKinds THEN SpelledKinds[o.kind]
  ELSE IF o.kind = "TEMPORARY" THEN "TEMPORARY"
  ELSE IF "transient" \in o.flags \/ o.kind = "TRANSIENT" THEN "TRANSIENT"
  ELSE IF o.kind \in {"TABLE", ""} THEN "TABLE" ELSE "UNKNOWN"

TableSupport == [k \in {"TABLE", "VIEW", "MATERIALIZED_VIEW", "EXTERNAL_TABLE", "DYNAMIC_TABLE",
                        "ICEBERG_TABLE", "TEMPORARY", "TRANSIENT"} |->
                   IF k = "TABLE" THEN "supported" ELSE "partial"]
ClassifyTable(kind) == IF kind \in DOMAIN TableSupport THEN TableSupport[kind] ELSE "unknown"

SfLanguages == {"SQL", "JAVASCRIPT", "PYTHON", "JAVA", "SCALA"}
RoutineSupport == [kl \in {"FUNCTION", "PROCEDURE"} \X SfLanguages |->
                     IF kl[2] \in {"JAVASCRIPT", "JAVA"} THEN "unsupported" ELSE "partial"]
ClassifyRoutine(kind, language) ==
  IF <<kind, language>> \in DOMAIN RoutineSupport THEN RoutineSupport[<<kind, language>>]
  ELSE "partial"
ObjectKindSupport == [k \in {"STAGE", "STREAM", "TASK", "PIPE"} |-> "partial"]

Row(o, kind, language, support) ==
  [db |-> o.db, schema |-> o.schema, name |-> o.name, kind |-> kind,
   language |-> language, support |-> support]

TableRow(o) == Row(o, ShowTableKind(o), "none", ClassifyTable(ShowTableKind(o)))
ViewRow(o) == LET kind == IF "materialized" \in o.flags THEN "MATERIALIZED_VIEW" ELSE "VIEW"
              IN Row(o, kind, "none", ClassifyTable(kind))
\* The language of a routine without one is SQL to SHOW, and UNKNOWN to ACCOUNT_USAGE.
RoutineRow(o, kind) ==
  LET language == IF o.kind = "" THEN "SQL" ELSE o.kind
  IN Row(o, kind, IF language \in SfLanguages THEN language ELSE "UNKNOWN",
         ClassifyRoutine(kind, language))
ObjectRow(o, kind) == Row(o, kind, "none", ObjectKindSupport[kind])

AuTableRow(o) == Row(o, AccountUsageTableKind(o), "none", ClassifyTable(AccountUsageTableKind(o)))
AuViewRow(o) == Row(o, "VIEW", "none", ClassifyTable("VIEW"))
AuRoutineRow(o, kind) ==
  LET language == IF o.kind \in SfLanguages THEN o.kind ELSE "UNKNOWN"
  IN Row(o, kind, language, ClassifyRoutine(kind, language))

ShowRow(o) ==
  CASE o.family = "tables"     -> TableRow(o)
    [] o.family = "views"      -> ViewRow(o)
    [] o.family = "functions"  -> RoutineRow(o, "FUNCTION")
    [] o.family = "procedures" -> RoutineRow(o, "PROCEDURE")
    [] o.family = "stages"     -> ObjectRow(o, "STAGE")
    [] o.family = "streams"    -> ObjectRow(o, "STREAM")
    [] o.family = "tasks"      -> ObjectRow(o, "TASK")
    [] o.family = "pipes"      -> ObjectRow(o, "PIPE")

-----------------------------------------------------------------------------
\* What a statement returns: SHOW leaves out what the role may not use, and
\* ACCOUNT_USAGE what is younger than its latency.

ObjectsOf(family) == {o \in account.objects : o.family = family}
Aged(objects) == {o \in objects : "recent" \notin o.flags}
SchemasShown(db) == {<<o.db, o.schema>> : o \in {x \in account.objects : x.db = db /\ db \in grants.used}}
AuDatabases == {DatabaseRow(d) : d \in account.databases}
AuSchemas == {<<o.db, o.schema>> : o \in Aged(account.objects)}

-----------------------------------------------------------------------------
\* The query history.

SfSizes == {"X-SMALL", "SMALL", "MEDIUM", "LARGE", "X-LARGE", "2X-LARGE", "3X-LARGE", "4X-LARGE", "5X-LARGE", "6X-LARGE"}
\* VCORES_BY_SIZE
Halves == [s \in SfSizes |-> CASE s = "X-SMALL" -> 1 [] s = "SMALL" -> 2 [] s = "MEDIUM" -> 4 [] s = "LARGE" -> 8
                               [] s = "X-LARGE" -> 16 [] s = "2X-LARGE" -> 32 [] s = "3X-LARGE" -> 64
                               [] s = "4X-LARGE" -> 128 [] s = "5X-LARGE" -> 256 [] s = "6X-LARGE" -> 512]
SizeAlias == [s \in {"XSMALL", "XLARGE", "XXLARGE", "XXXLARGE"} |->
                CASE s = "XSMALL" -> "X-SMALL" [] s = "XLARGE" -> "X-LARGE"
                  [] s = "XXLARGE" -> "2X-LARGE" [] s = "XXXLARGE" -> "3X-LARGE"]
NormaliseSize(s) == IF s \in DOMAIN Halves THEN s
                    ELSE IF s \in DOMAIN SizeAlias THEN SizeAlias[s] ELSE "UNKNOWN"

\* Mutant: of the failures only those with an error code are known.
SfOutcomeNoFail(st) ==
  CASE st = "SUCCESS" -> "succeeded" [] st = "FAILED_WITH_ERROR" -> "failed" [] OTHER -> "unknown"

SfOutcome(status) ==
  CASE status = "SUCCESS" -> "succeeded"
    [] status \in {"FAIL", "FAILED_WITH_ERROR", "FAILED_WITH_INCIDENT", "INCIDENT"} -> "failed"
    [] status \in {"CANCELLED", "CANCELED"} -> "cancelled"
    [] status \in {"RUNNING", "QUEUED", "RESUMING_WAREHOUSE", "BLOCKED"} -> "in_progress"
    [] OTHER -> "unknown"

SfLookback == IF SfLookbackEnv = NotANumber THEN 28
              ELSE CHOOSE n \in 1..365 : \/ n = SfLookbackEnv
                                         \/ SfLookbackEnv < 1 /\ n = 1
                                         \/ SfLookbackEnv > 365 /\ n = 365

\* vCore time of a job, which is also its credits; nothing without size and time
JobCredits(q) ==
  LET ms == IF q.execution # NoTimestamp THEN q.execution ELSE q.elapsed
      size == NormaliseSize(q.size)
  IN IF size \in DOMAIN Halves /\ ms # NoTimestamp THEN Halves[size] * ms ELSE 0

\* The newest SfJobLimit queries of the look-back window.
SfJob(q) == [id |-> q.id, age |-> q.age, outcome |-> SfOutcome(q.status), warehouse |-> q.warehouse,
             schema |-> q.schema, type |-> q.type, credits |-> JobCredits(q)]
InLookback == {q \in account.jobs : q.age # NoTimestamp /\ q.age <= SfLookback}
NewerThan(x) == {y \in InLookback : y.age < x.age \/ (y.age = x.age /\ y.id < x.id)}
QueryHistory == {SfJob(q) : q \in {x \in InLookback : Cardinality(NewerThan(x)) < SfJobLimit}}

SfWindows == {7, 14, 28, 90}
InSfWindow(w) == {j \in sfJobs : j.age <= w}
CompletedJobs(jobs) == {j \in jobs : j.outcome \in {"succeeded", "failed"}}
CreditsOf(jobs) == MapThenSumSet(LAMBDA j : j.credits, jobs)

\* aggregate_jobs_by_window: of a job that was cancelled or runs only the count.
JobsByWindow(w) ==
  [jobs |-> Cardinality(InSfWindow(w)),
   succeeded |-> Cardinality({j \in InSfWindow(w) : j.outcome = "succeeded"}),
   failed |-> Cardinality(CompletedJobs(InSfWindow(w)))
                - Cardinality({j \in InSfWindow(w) : j.outcome = "succeeded"}),
   credits |-> CreditsOf(CompletedJobs(InSfWindow(w)))]

WarehousesByWindow(w) ==
  [wh \in {j.warehouse : j \in InSfWindow(w)} \ {"none"} |->
     CreditsOf({j \in InSfWindow(w) : j.warehouse = wh})]

JobsByDay ==
  [d \in {j.age : j \in sfJobs} |->
     LET jobs == {j \in sfJobs : j.age = d}
     IN [jobs |-> Cardinality(jobs), completed |-> Cardinality(CompletedJobs(jobs)),
         credits |-> CreditsOf(jobs)]]

JobKey(j, dimension) == IF dimension = "warehouse" THEN j.warehouse
                        ELSE IF dimension = "query_type" THEN j.type ELSE j.outcome
JobsByDimension(dimension) ==
  [k \in {JobKey(j, dimension) : j \in sfJobs} |->
     LET jobs == {j \in sfJobs : JobKey(j, dimension) = k}
     IN [jobs |-> Cardinality(jobs), credits |-> CreditsOf(jobs)]]

\* ACCESS_HISTORY, or where it fails or is empty the schemas of the queries.
AccessHistory == IF account.enterprise
                 THEN [t \in {j.schema : j \in sfJobs} \ {<<"none", "none">>} |->
                         Cardinality({j \in sfJobs : j.schema = t})]
                 ELSE <<>>
TableUsage(access) ==
  IF access # <<>> THEN access
  ELSE [s \in {j.schema : j \in sfJobs} \ {<<"none", "none">>} |->
          Cardinality({j \in sfJobs : j.schema = s})]

CodeObjectSummary ==
  LET objects == sfReport.tables \cup sfReport.routines
  IN [total |-> Cardinality(objects),
      support |-> [s \in {"supported", "partial", "unsupported", "unknown"} |->
                     Cardinality({o \in objects : o.support = s})]]

-----------------------------------------------------------------------------
SnowflakeInit ==
  /\ account \in SfAccounts
  /\ grants \in [shown : SUBSET {d.name : d \in account.databases},
                 used : SUBSET {d.name : d \in account.databases},
                 imported : BOOLEAN, forced : BOOLEAN, system : BOOLEAN]
  /\ grants.used \subseteq grants.shown
  /\ sfReport = [warehouses |-> {}, databases |-> {}, schemas |-> {}, tables |-> {},
               routines |-> {}, others |-> {}, usage |-> <<>>]
  /\ sfJobs = {} /\ sfErrors = {} /\ caveats = {} /\ sfStage = "warehouses"

Spared(failures) == Cardinality(sfErrors \cup failures) <= SfMaxFailures \/ failures = {}
\* bound: one step loses at most one statement
FailureSets(statements) == {{}} \cup {{s} : s \in statements}

ShowWarehouses(failed) ==
  /\ sfStage = "warehouses" /\ sfStage' = "databases"
  /\ sfReport' = [sfReport EXCEPT !.warehouses =
       IF failed THEN {} ELSE {[name |-> w.name, vcores |-> IF NormaliseSize(w.size) \in DOMAIN Halves
                                                            THEN Halves[NormaliseSize(w.size)] ELSE 0] :
                               w \in account.warehouses}]
  /\ sfErrors' = sfErrors \cup (IF failed THEN {<<"warehouses">>} ELSE {})
  /\ Spared(sfErrors' \ sfErrors)
  /\ UNCHANGED <<account, grants, sfJobs, caveats>>

ShowDatabases(failed) ==
  /\ sfStage = "databases" /\ sfStage' = "schemas"
  /\ sfReport' = [sfReport EXCEPT !.databases =
       IF failed THEN {} ELSE {DatabaseRow(d) : d \in {x \in account.databases : x.name \in grants.shown}}]
  /\ sfErrors' = sfErrors \cup (IF failed THEN {<<"databases">>} ELSE {})
  /\ Spared(sfErrors' \ sfErrors)
  /\ UNCHANGED <<account, grants, sfJobs, caveats>>

\* SHOW SCHEMAS in every database but the system's; one that fails is passed over.
ShowSchemas(bad) ==
  LET asked == {d \in sfReport.databases : grants.system \/ d.name \notin SystemDatabases}
      read == {d \in asked : d.name \notin bad}
  IN /\ sfStage = "schemas" /\ bad \subseteq {d.name : d \in asked}
     /\ sfStage' = "objects"
     /\ sfReport' = [sfReport EXCEPT
          !.schemas = UNION {SchemasShown(d.name) : d \in read},
          !.databases = {IF d \in read THEN [d EXCEPT !.schemas = Cardinality(SchemasShown(d.name))]
                         ELSE d : d \in @}]
     /\ sfErrors' = sfErrors \cup {<<"schemas", d>> : d \in bad}
     /\ Spared(sfErrors' \ sfErrors)
     /\ UNCHANGED <<account, grants, sfJobs, caveats>>

\* Eight SHOW statements in every schema; one that fails is passed over.
CollectSchemaObjects(bad) ==
  LET listed(families) == {ShowRow(o) : o \in {x \in account.objects :
        /\ x.family \in families /\ <<x.db, x.schema>> \in sfReport.schemas
        /\ <<x.db, x.schema, x.family>> \notin bad}}
  IN /\ sfStage = "objects" /\ sfStage' = "fallback"
     /\ sfReport' = [sfReport EXCEPT !.tables = listed({"tables", "views"}),
                                 !.routines = listed({"functions", "procedures"}),
                                 !.others = listed({"stages", "streams", "tasks", "pipes"})]
     /\ sfErrors' = sfErrors \cup bad
     /\ Spared(bad)
     /\ UNCHANGED <<account, grants, sfJobs, caveats>>

\* Mutant: databases without a table are taken for an account without tables.
NeedsFallbackWithoutDatabases == grants.forced \/ sfReport.databases = {}

NeedsFallback == grants.forced \/ sfReport.databases = {} \/ sfReport.tables = {}

SkipFallback ==
  /\ sfStage = "fallback" /\ ~NeedsFallback /\ sfStage' = "jobs"
  /\ UNCHANGED <<account, grants, sfReport, sfJobs, sfErrors, caveats>>

AuQueries == {"schemas", "tables", "views", "functions", "procedures"}

\* _maybe_use_account_usage_fallback: without the grant every query is refused.
UseFallback(lost) ==
  LET asked == AuQueries \cup (IF sfReport.databases = {} \/ grants.forced THEN {"databases"} ELSE {})
      failed == IF grants.imported THEN lost ELSE asked
      ok(q) == q \in asked \ failed
      databases == IF ok("databases") THEN AuDatabases ELSE sfReport.databases
      schemas == IF ok("schemas") THEN AuSchemas ELSE {}
      tables == (IF ok("tables") THEN {AuTableRow(o) : o \in Aged(ObjectsOf("tables"))} ELSE {})
                \cup (IF ok("views") THEN {AuViewRow(o) : o \in Aged(ObjectsOf("views"))} ELSE {})
      routines ==
        (IF ok("functions") THEN {AuRoutineRow(o, "FUNCTION") : o \in Aged(ObjectsOf("functions"))} ELSE {})
        \cup (IF ok("procedures")
              THEN {AuRoutineRow(o, "PROCEDURE") : o \in Aged(ObjectsOf("procedures"))} ELSE {})
  IN /\ sfStage = "fallback" /\ NeedsFallback /\ lost \subseteq asked
     /\ grants.imported => Spared({<<"lost", q>> : q \in lost})
     /\ ~grants.imported => lost = {}
     /\ sfStage' = "jobs"
     /\ sfReport' = [sfReport EXCEPT
          !.databases = IF schemas = {} THEN databases
                        ELSE {[d EXCEPT !.schemas = Cardinality({s \in schemas : s[1] = d.name})] :
                              d \in databases},
          !.schemas = IF schemas = {} THEN @ ELSE schemas,
          !.tables = IF tables = {} THEN @ ELSE tables,
          !.routines = IF routines = {} THEN @ ELSE routines]
     /\ sfErrors' = sfErrors \cup {<<IF grants.imported THEN "lost" ELSE "refused", q>> : q \in failed}
     /\ caveats' = caveats \cup {"latency"}
     /\ UNCHANGED <<account, grants, sfJobs>>

\* The query history lives in ACCOUNT_USAGE too.
CollectJobs(failed) ==
  /\ sfStage = "jobs"
  /\ grants.imported \/ ~failed
  /\ LET refused == failed \/ ~grants.imported IN
     /\ sfJobs' = IF refused THEN {} ELSE QueryHistory
     /\ sfErrors' = sfErrors \cup
          (IF refused THEN {<<IF grants.imported THEN "lost" ELSE "refused", "jobs">>} ELSE {})
     /\ grants.imported => Spared(sfErrors' \ sfErrors)
     /\ sfStage' = IF sfJobs' = {} THEN "finalise" ELSE "usage"
  /\ caveats' = caveats \cup (IF \E j \in sfJobs' : j.credits # 0 THEN {"credits"} ELSE {})
  /\ UNCHANGED <<account, grants, sfReport>>

\* _collect_table_usage: the failure of ACCESS_HISTORY is no error.
CollectTableUsage(failed) ==
  LET access == IF failed THEN <<>> ELSE AccessHistory IN
  /\ sfStage = "usage" /\ sfStage' = "finalise"
  /\ sfReport' = [sfReport EXCEPT !.usage = TableUsage(access)]
  /\ caveats' = caveats \cup (IF access = <<>> /\ TableUsage(access) # <<>>
                              THEN {"access_history"} ELSE {})
  /\ UNCHANGED <<account, grants, sfJobs, sfErrors>>

Counted(kind) == Cardinality({t \in sfReport.tables : t.kind = kind})

\* A refused query says "not authorized"; the count of tables is of plain ones.
Finalise ==
  LET bare == /\ sfReport.databases # {} /\ sfReport.routines = {}
              /\ Counted("TABLE") = 0 /\ Counted("VIEW") = 0
  IN /\ sfStage = "finalise" /\ sfStage' = "reported"
     /\ caveats' = caveats \cup
          (IF bare \/ \E e \in sfErrors : e[1] = "refused" THEN {"privilege"} ELSE {})
     /\ UNCHANGED <<account, grants, sfReport, sfJobs, sfErrors>>

SchemaStatements == {<<s[1], s[2], f>> : s \in sfReport.schemas, f \in SfFamilies}
SnowflakeNext ==
  \/ \E failed \in BOOLEAN : ShowWarehouses(failed) \/ ShowDatabases(failed)
                             \/ CollectJobs(failed) \/ CollectTableUsage(failed)
  \/ \E bad \in FailureSets({d.name : d \in sfReport.databases}) : ShowSchemas(bad)
  \/ \E bad \in FailureSets(SchemaStatements) : CollectSchemaObjects(bad)
  \/ SkipFallback
  \/ \E lost \in FailureSets(AuQueries \cup {"databases"}) : UseFallback(lost)
  \/ Finalise

SnowflakeSpec == SnowflakeInit /\ [][SnowflakeNext]_sfVars

-----------------------------------------------------------------------------
UserObjects == {o \in account.objects : grants.system \/ o.db \notin SystemDatabases}

\* "a caveat the user can act on instead of a silent empty report"
\* (_emit_privilege_caveat): a report with neither a caveat nor an error holds
\* every object of the databases the role may use, each with the kind and the
\* support SHOW gives it, and it is not empty. A report that lacks something an
\* earlier SHOW listed says so.
CleanReportIsExact ==
  sfStage = "reported" /\ sfErrors = {} /\ caveats \cap {"latency", "privilege"} = {} =>
    /\ sfReport.tables # {}
    /\ sfReport.tables \cup sfReport.routines \cup sfReport.others
         = {ShowRow(o) : o \in {x \in UserObjects : x.db \in grants.used}}
    /\ {d.name : d \in sfReport.databases} = grants.shown
    /\ MapThenSumSet(LAMBDA d : d.schemas, sfReport.databases) = Cardinality(sfReport.schemas)
    /\ CodeObjectSummary.total
         = Cardinality({o \in UserObjects : o.db \in grants.used
                          /\ o.family \in {"tables", "views", "functions", "procedures"}})
    /\ MapThenSumSet(LAMBDA k : CodeObjectSummary.support[k], DOMAIN CodeObjectSummary.support)
         = CodeObjectSummary.total

\* "Rolling stats over a single time window" (SnowflakeJobWindowStats), where the
\* look-back and the limit reach that far: every completed query of the account
\* in the window is counted with its credits, and days, dimensions and warehouses
\* each split the same total.
EndedIn(w) == {q \in account.jobs : /\ q.age # NoTimestamp /\ q.age <= w
                                    /\ q.status \in {"SUCCESS", "FAIL", "FAILED_WITH_ERROR", "FAILED_WITH_INCIDENT", "INCIDENT"}}
CreditsOfRows(rows) == MapThenSumSet(LAMBDA k : rows[k].credits, DOMAIN rows)
WindowWithinReachIsWhole ==
  sfStage = "reported" /\ grants.imported /\ <<"lost", "jobs">> \notin sfErrors =>
    /\ Cardinality(sfJobs) < SfJobLimit =>
         \A w \in {v \in SfWindows : v <= SfLookback} :
           /\ JobsByWindow(w).succeeded + JobsByWindow(w).failed = Cardinality(EndedIn(w))
           /\ JobsByWindow(w).credits = MapThenSumSet(JobCredits, EndedIn(w))
           /\ MapThenSumSet(LAMBDA wh : WarehousesByWindow(w)[wh], DOMAIN WarehousesByWindow(w))
                <= CreditsOf(InSfWindow(w))
    /\ \A dimension \in {"warehouse", "query_type", "status"} :
         CreditsOfRows(JobsByDimension(dimension)) = CreditsOfRows(JobsByDay)

\* A report without caveats is exact, in its inventory and in its job history
\* (snowflake_workloads/analyzer.py, run).
SnowflakeReportHonest == CleanReportIsExact /\ WindowWithinReachIsWhole
=============================================================================
