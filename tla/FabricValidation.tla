-------------------------- MODULE FabricValidation --------------------------
(***************************************************************************)
(* The fabric_validation analyzer: what dedicated_pools.json lists is       *)
(* compared with a Fabric warehouse, query by query, while the warehouse    *)
(* may still be loaded. A query the warehouse refuses gives no rows and no  *)
(* error.                                                                   *)
(***************************************************************************)
EXTENDS Integers, Sequences, FiniteSets, FiniteSetsExt, SequencesExt, Functions

CONSTANTS FvSites,        \* an artefact, the settings and the warehouse, see MCAssess
          OddNames,       \* names that are no plain identifiers
          FvMaxFailures   \* bound: queries the warehouse refuses

NoRows == -1     \* None
NoNumber == -1   \* a tolerance that is no number; a negative one allows what 0 does

\* A pool of the artefact (models.py: it has column_collations and no views; names
\* are unique), and a warehouse at a moment.
FvPool(p) ==
  /\ {"tables", "tsql_surface_gaps"} \subseteq DOMAIN p /\ DOMAIN p \cap {"views", "column_collation"} = {}
  /\ IsFiniteSet(p.tables) /\ IsFiniteSet(p.tsql_surface_gaps)
  /\ \A t \in p.tables : t.schema # "" /\ t.name # "" /\ t.rows \in Nat \cup {NoRows}
  /\ \A t, u \in p.tables : t.schema = u.schema /\ t.name = u.name => t = u
FvWarehouse(t) ==
  /\ IsFiniteSet(DOMAIN t.rows) /\ IsFiniteSet(t.objects) /\ \A k \in DOMAIN t.rows : t.rows[k] \in Nat
ASSUME ValidationAssumption ==
  /\ FvMaxFailures \in Nat
  /\ \A s \in FvSites :
       /\ DOMAIN s.pools = 1..Len(s.pools) /\ Len(s.pools) \in Nat /\ \A i \in DOMAIN s.pools : FvPool(s.pools[i])
       /\ Len(s.targets) \in Nat \ {0} /\ \A i \in 1..Len(s.targets) : FvWarehouse(s.targets[i])
       /\ s.validateRows \in BOOLEAN /\ s.tolerance \in Nat \cup {NoNumber}

VARIABLES fvSite,     \* the artefact and the settings
          loaded,     \* how far the warehouse is loaded: an index of fvSite.targets
          wanted,     \* the expected state
          rowsFound,  \* (schema, table) |-> rows counted so far, or NoRows
          checks,     \* part |-> the checks of the report
          tally,      \* status |-> how many checks have it
          refusals,   \* the queries refused: only the log has them
          fvErrors, fvStage

fvVars == <<fvSite, loaded, wanted, rowsFound, checks, tally, refusals, fvErrors, fvStage>>

CheckParts == {"object_counts", "row_counts", "collation", "tsql_surface"}
NoChecks == [p \in CheckParts |-> {}]

-----------------------------------------------------------------------------
\* _load_expected. A pool's part is found by its key; the loader looks for
\* "views" and "column_collation", and an artefact has "column_collations".

PartOf(pool, key) == IF key \in DOMAIN pool THEN pool[key] ELSE {}
NamedTables(pool) == {t \in PartOf(pool, "tables") : t.schema # "" /\ t.name # ""}
ObjectsOf(pool) ==
  {<<t.schema, "USER_TABLE", t.name>> : t \in NamedTables(pool)} \cup
  {<<v.schema, "VIEW", v.name>> : v \in {w \in PartOf(pool, "views") : w.schema # ""}}
KindsOf(objects) == {<<o[1], o[2]>> : o \in objects}
ObjectCount(objects, kind) == Cardinality({o \in objects : <<o[1], o[2]>> = kind})

\* Mutant: the count of a pool replaces that of the pool before it.
LastPoolCounts(pools) ==
  [kind \in UNION {KindsOf(ObjectsOf(p)) : p \in Range(pools)} |->
     ObjectCount(ObjectsOf(pools[Max({i \in DOMAIN pools : kind \in KindsOf(ObjectsOf(pools[i]))})]), kind)]
\* The objects of all pools add up ...
ExpectedCounts(pools) ==
  [kind \in UNION {KindsOf(ObjectsOf(p)) : p \in Range(pools)} |->
     MapThenSumSet(LAMBDA i : ObjectCount(ObjectsOf(pools[i]), kind), DOMAIN pools)]
\* ... but of tables, or columns, of one name those of the last pool stand.
LastByKey(perPool, Value(_)) ==
  [k \in UNION {DOMAIN perPool[i] : i \in DOMAIN perPool} |->
     Value(perPool[Max({i \in DOMAIN perPool : k \in DOMAIN perPool[i]})][k])]
RowsByTable(pool) ==
  LET counted == {t \in NamedTables(pool) : t.rows # NoRows}
  IN [k \in {<<t.schema, t.name>> : t \in counted} |-> CHOOSE t \in counted : <<t.schema, t.name>> = k]
ExpectedRows(pools) == LastByKey([i \in DOMAIN pools |-> RowsByTable(pools[i])], LAMBDA t : t.rows)
ByColumn(columns) ==
  LET known == {c \in columns : c.collation # ""}
  IN [k \in {<<c.schema, c.table, c.column>> : c \in known} |->
        CHOOSE c \in known : <<c.schema, c.table, c.column>> = k]
ExpectedCollations(pools) ==
  LastByKey([i \in DOMAIN pools |-> ByColumn(PartOf(pools[i], "column_collation"))], LAMBDA c : c.collation)
Findings(pools) == UNION {PartOf(p, "tsql_surface_gaps") : p \in Range(pools)}
Expected(pools) ==
  [counts |-> ExpectedCounts(pools), rows |-> ExpectedRows(pools), collations |-> ExpectedCollations(pools), findings |-> Findings(pools)]

-----------------------------------------------------------------------------
\* diff.py

At(counts, key) == IF key \in DOMAIN counts THEN counts[key] ELSE 0
CountStatus(want, have) == IF have = want THEN "match" ELSE IF have < want THEN "missing" ELSE "extra"
DiffObjectCounts(want, have) ==
  {[key |-> k, expected |-> At(want, k), actual |-> At(have, k), status |-> CountStatus(At(want, k), At(have, k))] :
     k \in DOMAIN want \cup DOMAIN have}

\* Mutant: a table that could not be counted has no rows.
UnreadIsEmpty(want, have, tolerance) ==
  IF want = 0 \/ (IF have = NoRows THEN 0 ELSE have) - want \in -1..1 THEN "match" ELSE "mismatch"
\* A table expected to be empty matches whatever it holds; the tolerance, in
\* hundredths, is at least one row.
RowStatus(want, have, tolerance) ==
  LET drift == Max({1, (want * tolerance) \div 100})
  IN IF have = NoRows THEN "missing" ELSE IF want = 0 \/ have - want \in -drift..drift THEN "match" ELSE "mismatch"
DiffRowCounts(want, have, tolerance) ==
  {[key |-> k, expected |-> want[k], actual |-> have[k], status |-> RowStatus(want[k], have[k], tolerance)] : k \in DOMAIN want}

CollationStatus(want, have, column) ==
  IF column \notin DOMAIN have THEN "missing" ELSE IF have[column] = want[column] THEN "match" ELSE "mismatch"
DiffCollation(want, have) == {[key |-> k, status |-> CollationStatus(want, have, k)] : k \in DOMAIN want}

\* Nobody fetches the names of the objects of the warehouse, so that all
\* findings are resolved.
ObjectsPresent == {}
SurfaceResolutions(found) ==
  {[key |-> f, status |-> IF <<f.schema, f.name>> \in ObjectsPresent THEN "still_present" ELSE "resolved"] : f \in found}

AllChecks == UNION {{<<part, c>> : c \in checks[part]} : part \in CheckParts}
Summarize(all) ==
  [s \in {c[2].status : c \in all} |-> Cardinality({c \in all : c[2].status = s})]

-----------------------------------------------------------------------------
\* A warehouse holds tables and their rows, other objects, and collations.

Target == fvSite.targets[loaded]
TargetObjects(t) == {<<k[1], "USER_TABLE", k[2]>> : k \in DOMAIN t.rows} \cup t.objects
TargetCounts(t) == [kind \in KindsOf(TargetObjects(t)) |-> ObjectCount(TargetObjects(t), kind)]

\* A query of an endpoint that is configured; no rows in all other cases.
Query(name, rows, nothing, answer) ==
  \/ fvSite.configured /\ answer = rows /\ UNCHANGED refusals
  \/ ~fvSite.configured /\ answer = nothing /\ UNCHANGED refusals
  \/ /\ fvSite.configured /\ Cardinality(refusals) < FvMaxFailures
     /\ answer = nothing /\ refusals' = refusals \cup {name}
ChecksMade(part, found, next) ==
  /\ checks' = [checks EXCEPT ![part] = found] /\ fvStage' = next
  /\ UNCHANGED <<fvSite, loaded, wanted, tally>>

LoadExpected ==
  /\ fvStage = "load"
  /\ IF fvSite.artefact = "whole"
     THEN fvErrors' = {} /\ wanted' = Expected(fvSite.pools) /\ fvStage' = "object_counts"
     ELSE fvErrors' = {"expected_state"} /\ wanted' = wanted /\ fvStage' = "done"
  /\ UNCHANGED <<fvSite, loaded, rowsFound, checks, tally, refusals>>

CompareObjects ==
  /\ fvStage = "object_counts"
  /\ \E answer \in {TargetCounts(Target), <<>>} :
       /\ Query(<<"object_counts">>, TargetCounts(Target), <<>>, answer)
       /\ ChecksMade("object_counts", DiffObjectCounts(wanted.counts, answer), "row_counts")
  /\ UNCHANGED <<rowsFound, fvErrors>>

\* The rows of a table, one query each; a table that is not there fails the
\* query, a name that is no plain identifier is not asked for.
CountRows(table) ==
  /\ fvStage = "row_counts" /\ fvSite.validateRows /\ table \in DOMAIN wanted.rows \ DOMAIN rowsFound
  /\ \E answer \in {At(Target.rows, table), NoRows} :
       /\ IF table[2] \in OddNames \/ table \notin DOMAIN Target.rows
          THEN answer = NoRows /\ UNCHANGED refusals
          ELSE Query(table, Target.rows[table], NoRows, answer)
       /\ rowsFound' = [k \in DOMAIN rowsFound \cup {table} |-> IF k = table THEN answer ELSE rowsFound[k]]
  /\ UNCHANGED <<fvSite, loaded, wanted, checks, tally, fvErrors, fvStage>>
\* The tolerance is read when all are counted.
CompareRows ==
  /\ fvStage = "row_counts" /\ (fvSite.validateRows => DOMAIN rowsFound = DOMAIN wanted.rows)
  /\ IF fvSite.validateRows /\ fvSite.tolerance # NoNumber
     THEN ChecksMade("row_counts", DiffRowCounts(wanted.rows, rowsFound, fvSite.tolerance), "collation")
     ELSE ChecksMade("row_counts", {}, "collation")
  /\ fvErrors' = fvErrors \cup IF fvSite.validateRows /\ fvSite.tolerance = NoNumber THEN {"row_counts"} ELSE {}
  /\ UNCHANGED <<rowsFound, refusals>>
CompareCollations ==
  /\ fvStage = "collation"
  /\ \E answer \in {Target.collations, <<>>} :
       /\ Query(<<"collation">>, Target.collations, <<>>, answer)
       /\ ChecksMade("collation", DiffCollation(wanted.collations, answer), "tsql_surface")
  /\ UNCHANGED <<rowsFound, fvErrors>>
CompareSurface ==
  /\ fvStage = "tsql_surface"
  /\ ChecksMade("tsql_surface", SurfaceResolutions(wanted.findings), "summary")
  /\ UNCHANGED <<rowsFound, refusals, fvErrors>>
SummarizeChecks ==
  /\ fvStage = "summary" /\ tally' = Summarize(AllChecks) /\ fvStage' = "done"
  /\ UNCHANGED <<fvSite, loaded, wanted, rowsFound, checks, refusals, fvErrors>>

\* The migration goes on.
TargetLoads ==
  /\ fvStage \notin {"off", "done"} /\ loaded < Len(fvSite.targets) /\ loaded' = loaded + 1
  /\ UNCHANGED <<fvSite, wanted, rowsFound, checks, tally, refusals, fvErrors, fvStage>>

NothingWanted == [counts |-> <<>>, rows |-> <<>>, collations |-> <<>>, findings |-> {}]
ValidationInit ==
  /\ fvSite \in FvSites /\ loaded = 1 /\ wanted = NothingWanted /\ rowsFound = <<>> /\ checks = NoChecks /\ tally = <<>>
  /\ refusals = {} /\ fvErrors = {} /\ fvStage = "load"
ValidationNext ==
  \/ LoadExpected \/ CompareObjects \/ CompareRows \/ CompareCollations \/ CompareSurface \/ SummarizeChecks \/ TargetLoads
  \/ \E table \in DOMAIN wanted.rows : CountRows(table)
ValidationSpec == ValidationInit /\ [][ValidationNext]_fvVars

-----------------------------------------------------------------------------
Seen == {fvSite.targets[i] : i \in 1..loaded}   \* what the warehouse held meanwhile
QueryAnswered(query) == fvSite.configured /\ query \notin refusals

\* A match of counts is a match with the warehouse at a moment of the
\* validation, of the tables of every pool; what was not answered, and what the
\* loader expects of it, is missing and never a match.
CountsSound ==
  \A c \in checks.object_counts :
    /\ c.expected = IF c.key[2] # "USER_TABLE" THEN 0
                    ELSE MapThenSumSet(LAMBDA i : Cardinality({t \in fvSite.pools[i].tables : t.schema = c.key[1]}), DOMAIN fvSite.pools)
    /\ c.status = "match" => \E t \in Seen : At(TargetCounts(t), c.key) = c.expected
    /\ ~QueryAnswered(<<"object_counts">>) => c.status = "missing"
    /\ QueryAnswered(<<"object_counts">>) => \E t \in Seen : c.actual = At(TargetCounts(t), c.key)

\* A match of rows is, up to one row or the tolerance, a match with the table at
\* a moment of the validation, unless the table was empty in the pool; a table
\* that could not be counted is no match.
RowsSound ==
  \A c \in checks.row_counts :
    LET held == {At(t.rows, c.key) : t \in {s \in Seen : c.key \in DOMAIN s.rows}}
        drift == Max({1, (c.expected * fvSite.tolerance) \div 100})
    IN /\ c.status = "match" => /\ QueryAnswered(c.key) /\ c.key[2] \notin OddNames
                                /\ \E rows \in held : c.expected = 0 \/ rows \in (c.expected - drift)..(c.expected + drift)
       /\ c.status = "mismatch" => \E rows \in held : rows # c.expected
       /\ c.status = "missing" => ~QueryAnswered(c.key) \/ c.key[2] \in OddNames \/ \E t \in Seen : c.key \notin DOMAIN t.rows

\* What the report says of the warehouse, once it is made: no check that
\* matches is of something nobody read, no table is left out, and the summary
\* counts each check once.
ValidationTrue ==
  (fvStage = "done" /\ fvSite.artefact = "whole") =>
    /\ CountsSound /\ RowsSound
    /\ (fvSite.validateRows /\ "row_counts" \notin fvErrors) =>
         {c.key : c \in checks.row_counts} = {<<t.schema, t.name>> : t \in {u \in UNION {p.tables : p \in Range(fvSite.pools)} : u.rows # NoRows}}
    /\ MapThenSumSet(LAMBDA s : tally[s], DOMAIN tally) = Cardinality(AllChecks)
=============================================================================
