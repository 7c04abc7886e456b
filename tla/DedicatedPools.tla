--------------------------- MODULE DedicatedPools ---------------------------
(***************************************************************************)
(* The dedicated_pools analyzer: the SQL pools of a workspace are taken by  *)
(* a few workers, each signing in once, running the twelve collectors and   *)
(* the workload capture over that one session, and computing from what was  *)
(* collected the distribution-key advice and the verdicts on code objects.  *)
(***************************************************************************)
EXTENDS Integers, Sequences, FiniteSets, FiniteSetsExt, SequencesExt

CONSTANTS PoolCount,        \* pools the workspace lists
          PoolWorkers,      \* SMA_DEDICATED_POOL_CONCURRENCY
          Databases,        \* what a pool may hold, see MCDedicated
          MaxFailedParts    \* bound: parts of one pool that fail

\* Names are unique in a database, and what is counted is a number (models.py).
ASSUME DedicatedAssumption ==
  /\ PoolCount \in Nat /\ PoolWorkers \in Int /\ MaxFailedParts \in Nat
  /\ \A d \in Databases :
       /\ \A t, u \in d.tables : t.name = u.name => t = u
       /\ \A t \in d.tables : t.distribution \in {"HASH", "ROUND_ROBIN", "REPLICATE", "none"} /\ t.rows \in Nat
       /\ IsFiniteSet(d.objects) /\ \A o, q \in d.objects : o.name = q.name => o = q
       /\ \A o \in d.objects : \A f \in o.findings : f.severity \in {"info", "warning", "blocker"}

VARIABLES poolWork,    \* pool |-> its PoolAnalysis and how far its worker is
          poolSteps,   \* steps the progress of the module counts
          dedicatedStage

dedVars == <<poolWork, poolSteps, dedicatedStage>>

DedPools == 1..PoolCount
WorkerCount == Max({1, PoolWorkers})
Collectors ==
  <<"schemas", "tables", "indexes", "usage", "security", "workload_groups", "code_objects",
    "column_collations", "materialized_views", "statistics", "column_stats", "top_queries">>
Parts == Collectors \o <<"top_consumed_objects", "distribution_advisor", "tsql_surface_gap">>
StepsPerPool == Len(Parts)

NothingCollected ==
  [database |-> "none", phase |-> "queued", part |-> 0, collected |-> {}, errors |-> <<>>,
   advice |-> {}, gaps |-> {}, verdicts |-> {}]

-----------------------------------------------------------------------------
\* query_pattern_extractor: how often a column stands in a predicate. A bare
\* column counts for the table when the object names only one.

TableOf(object, predicate) ==
  IF predicate.qualifier \in DOMAIN object.aliases THEN {object.aliases[predicate.qualifier]}
  ELSE LET tables == {object.aliases[a] : a \in DOMAIN object.aliases}
       IN IF Cardinality(tables) = 1 THEN tables ELSE {}
FilterUsage(objects, table, column) ==
  MapThenSumSet(
    LAMBDA o : Cardinality({i \in DOMAIN o.predicates :
                              o.predicates[i].column = column /\ table \in TableOf(o, o.predicates[i])}),
    objects)

\* distribution_advisor: the weights of one row of column statistics, in points.
Percent(part, whole) == (100 * part) \div whole
Selectivity(row) ==
  IF row.rows = 0 \/ row.distinct = 0 THEN 0
  ELSE CASE 100 * row.distinct >= 95 * row.rows -> 50
         [] 100 * row.distinct \in (50 * row.rows)..(95 * row.rows - 1) -> 30
         [] 100 * row.distinct \in (10 * row.rows)..(50 * row.rows - 1) -> 10
         [] OTHER -> 0
FilterBoost(hits) == CASE hits >= 10 -> 15 [] hits \in 3..9 -> 8 [] hits \in 1..2 -> 3 [] OTHER -> 0
If(condition, points) == IF condition THEN points ELSE 0
ScoreOne(row, first, unique, hits) ==
  Selectivity(row) + If(row.column \in first, 20) + If(row.column \in unique, 15)
    + If(~row.nullable, 5) + If(row.plain, 5)
    + If(row.rows > 0 /\ row.frequent > 0 /\ 100 * row.frequent < 5 * row.rows, 10)
    + FilterBoost(hits)
    - If(row.distinct \in 1..59, 40) - If(2 * row.nulls > row.rows /\ row.rows > 0, 30)
    - If(row.wide, 10)

\* Tables whose key is not looked for: already hashed, or small.
Skipped(table) ==
  \/ table.distribution = "HASH"
  \/ table.distribution = "REPLICATE" /\ table.rows < 50000000
  \/ table.distribution = "ROUND_ROBIN" /\ table.rows < 1000000

TopN == 3
FirstKeys(indexes, table) == {x.first : x \in {y \in indexes : y.table = table /\ y.first # "none"}}
UniqueKeys(indexes, table) == FirstKeys({x \in indexes : x.unique}, table)

\* The candidates of one table: rows of statistics with a positive score, and
\* where there is none the leading columns of its indexes.
Candidates(table, indexes, columns, objects) ==
  LET scored == {[table |-> table, column |-> r.column, row |-> r.row, basis |-> "stats",
                  score |-> ScoreOne(r, FirstKeys(indexes, table), UniqueKeys(indexes, table),
                                     FilterUsage(objects, table, r.column))] :
                   r \in {c \in columns : c.table = table}}
      positive == {c \in scored : c.score > 0}
      leading == {[table |-> table, column |-> c, row |-> 0, basis |-> "index",
                   score |-> 20 + If(FilterUsage(objects, table, c) >= 3, 10)] :
                    c \in FirstKeys(indexes, table)}
  IN IF positive = {} THEN leading ELSE positive

\* A stable sort by score, cut at top_n. Rows of statistics of one score keep
\* their order; leading columns come out of a set, in any.
Outranks(a, b) == a.score > b.score \/ (a.score = b.score /\ a.row < b.row)
Highest(candidates) ==
  IF Cardinality(candidates) <= TopN THEN {candidates}
  ELSE {top \in SUBSET candidates : /\ Cardinality(top) = TopN
                                    /\ \A c \in top, d \in candidates \ top : ~Outranks(d, c)}

\* What may be advised on tables that are worth a key: one cut for each.
AdviceOn(worth, indexes, columns, objects) ==
  LET cuts == [t \in worth |-> Highest(Candidates(t.name, indexes, columns, objects))]
  IN {UNION {cut[t] : t \in worth} : cut \in {f \in [worth -> UNION {cuts[t] : t \in worth}] : \A t \in worth : f[t] \in cuts[t]}}

\* Mutant: tables on a HASH key are advised as well.
AdviseHashed(tables, indexes, columns, objects) ==
  AdviceOn({s \in tables : s.distribution = "HASH" \/ ~Skipped(s)}, indexes, columns, objects)

ScoreColumns(tables, indexes, columns, objects) ==
  AdviceOn({s \in tables : ~Skipped(s)}, indexes, columns, objects)

-----------------------------------------------------------------------------
\* tsql_surface_gap: gaps by object, stamped on the objects and rolled up. The
\* scan sees the first characters of a definition alone; two objects may share
\* an id, which drops the characters a file name would not have.

Scanned(object) == {f \in object.findings : ~f.late}
BuildGaps(objects) ==
  UNION {{[id |-> o.id, object |-> o.name, rule |-> f.rule, severity |-> f.severity] : f \in Scanned(o)} : o \in objects}

\* Mutant: the first severity found decides.
ClassifyAnyWarning(severities) ==
  IF "warning" \in severities THEN "needs_review"
  ELSE IF "blocker" \in severities THEN "incompatible" ELSE "compatible"

ClassifyCompatibility(severities) ==
  CASE "blocker" \in severities -> "incompatible"
    [] "warning" \in severities /\ "blocker" \notin severities -> "needs_review"
    [] OTHER -> "compatible"

StampCompatibility(objects, gaps) ==
  {[name |-> o.name, id |-> o.id, gaps |-> Cardinality({g \in gaps : g.id = o.id}),
    verdict |-> ClassifyCompatibility({g.severity : g \in {h \in gaps : h.id = o.id}})] : o \in objects}
SummarizeCodeObjects(verdicts) ==
  [compatible |-> Cardinality({v \in verdicts : v.verdict = "compatible"}),
   incompatible |-> {v.id : v \in {w \in verdicts : w.verdict = "incompatible"}},
   needs_review |-> {v.id : v \in {w \in verdicts : w.verdict = "needs_review"}}]

-----------------------------------------------------------------------------
PoolsAtWork == {p \in DedPools : poolWork[p].phase \notin {"queued", "done"}}
CountSteps(p, n) == poolSteps' = poolSteps + n
Work(p, changed) == poolWork' = [poolWork EXCEPT ![p] = changed]

\* Mutant: a pool left out counts no step.
LeaveOutSilent(p, why) ==
  /\ Work(p, [poolWork[p] EXCEPT !.phase = "done", !.errors = Append(@, why)])
  /\ poolSteps' = poolSteps /\ UNCHANGED dedicatedStage

\* A pool left alone: one error says why, and its steps are counted at once.
LeaveOut(p, why) ==
  /\ Work(p, [poolWork[p] EXCEPT !.phase = "done", !.errors = Append(@, why)])
  /\ CountSteps(p, StepsPerPool)
  /\ UNCHANGED dedicatedStage

\* Workers take the pools in the order of the list.
TakePool(p) ==
  /\ dedicatedStage = "run" /\ poolWork[p].phase = "queued"
  /\ Cardinality(PoolsAtWork) < WorkerCount
  /\ \A q \in 1..(p - 1) : poolWork[q].phase # "queued"
  /\ \E d \in Databases : Work(p, [poolWork[p] EXCEPT !.phase = "listed", !.database = d])
  /\ UNCHANGED <<poolSteps, dedicatedStage>>

\* A pool whose status is known and is not Online is not signed in to.
NotOnline(p) == /\ poolWork[p].phase = "listed" /\ poolWork[p].database.status = "paused"
                /\ LeaveOut(p, "status")

\* What the gateway answers to the token: it opens the session, or refuses with a
\* state and a text. A second method may cure a token it does not recognise, not a
\* principal that is no user of the database, nor an error about something else.
Refusals == [state : {"28000", "08001", "other"}, text : {"no user", "bad attribute", "principal", "timeout"}]
TokenRejected(refusal) == refusal.state # "other" /\ refusal.text \in {"no user", "bad attribute"}
PrincipalUnmapped(refusal) == refusal.state = "28000" /\ refusal.text = "principal"

OpenTo(p, phase) == /\ Work(p, [poolWork[p] EXCEPT !.phase = phase])
                    /\ UNCHANGED <<poolSteps, dedicatedStage>>
Reachable(p) == poolWork[p].phase = "listed" /\ poolWork[p].database.status # "paused"
SignIn(p) == Reachable(p) /\ OpenTo(p, "collecting")
SignInRefused(p) ==
  /\ Reachable(p)
  /\ \E refusal \in Refusals :
       IF PrincipalUnmapped(refusal) THEN LeaveOut(p, "unmapped principal")
       ELSE IF TokenRejected(refusal) THEN OpenTo(p, "retrying") ELSE LeaveOut(p, "unreachable")

\* Then the service principal's secret, when the gateway rejected the token.
SignInDirect(p) == poolWork[p].phase = "retrying" /\ OpenTo(p, "collecting")
SignInDirectRefused(p) == poolWork[p].phase = "retrying" /\ LeaveOut(p, "all methods refused")

\* Part n of the pool: what it gives is kept or its failure noted, its step counts.
PartsFailed(p) == {i \in DOMAIN Parts : Parts[i] \in ToSet(poolWork[p].errors)}
RunPart(p, kept(_)) ==
  LET n == poolWork[p].part + 1
      after == [poolWork[p] EXCEPT !.part = n, !.phase = IF n = Len(Parts) THEN "done" ELSE @]
  IN /\ CountSteps(p, 1)
     /\ \/ Work(p, kept(after))
        \/ /\ Cardinality(PartsFailed(p)) < MaxFailedParts
           /\ Work(p, [after EXCEPT !.errors = Append(@, Parts[n])])
     /\ UNCHANGED dedicatedStage

\* The collectors of the loop, then the capture of the workload (WorkloadCapture).
Collect(p) ==
  /\ poolWork[p].phase = "collecting" /\ poolWork[p].part + 1 \in 1..13
  /\ RunPart(p, LAMBDA w : [w EXCEPT !.collected = @ \cup {Parts[w.part]}])

\* What a collector left in the analysis: its rows, or none when it failed.
RowsOf(p, part, rows) == IF part \in poolWork[p].collected THEN rows ELSE {}

\* The session is closed; the advisor works on what was collected.
Advise(p) ==
  /\ poolWork[p].phase = "collecting" /\ poolWork[p].part + 1 = 14
  /\ LET held == poolWork[p].database
     IN \E advice \in ScoreColumns(RowsOf(p, "tables", held.tables), RowsOf(p, "indexes", held.indexes),
                                   RowsOf(p, "column_stats", held.columns), RowsOf(p, "code_objects", held.objects)) :
          RunPart(p, LAMBDA w :
            [w EXCEPT !.collected = @ \cup {"distribution_advisor"}, !.advice = advice])

\* Gaps, stamps and summary of the code objects that were collected.
RollUpCode(p) ==
  /\ poolWork[p].phase = "collecting" /\ poolWork[p].part + 1 = 15
  /\ LET objects == RowsOf(p, "code_objects", poolWork[p].database.objects)
     IN RunPart(p, LAMBDA w :
          [w EXCEPT !.collected = @ \cup {"tsql_surface_gap"}, !.gaps = BuildGaps(objects),
                    !.verdicts = StampCompatibility(objects, BuildGaps(objects))])

EndDedicated ==
  /\ dedicatedStage = "run" /\ \A p \in DedPools : poolWork[p].phase = "done"
  /\ dedicatedStage' = "done" /\ UNCHANGED <<poolWork, poolSteps>>

DedicatedInit == /\ poolWork = [p \in DedPools |-> NothingCollected]
                 /\ poolSteps = 0 /\ dedicatedStage = "run"
DedicatedNext ==
  \/ EndDedicated
  \/ \E p \in DedPools : \/ TakePool(p) \/ NotOnline(p) \/ SignIn(p) \/ SignInRefused(p)
                         \/ SignInDirect(p) \/ SignInDirectRefused(p)
                         \/ Collect(p) \/ Advise(p) \/ RollUpCode(p)
DedicatedSpec == DedicatedInit /\ [][DedicatedNext]_dedVars
-----------------------------------------------------------------------------
LeftOut(p) == poolWork[p].phase = "done" /\ poolWork[p].part = 0

(* Whatever fails, in whatever order the workers come to it, the report        *)
(* accounts for every part of every pool: a pool left out gives one reason and *)
(* nothing else, in any other each part that ran is there or its error is, and *)
(* never both. The progress bar agrees: it counts fifteen for a pool left out  *)
(* and the parts that ran for one under way, so it ends exactly full.          *)
EveryPartAnswered ==
  /\ poolSteps = MapThenSumSet(LAMBDA p : IF LeftOut(p) THEN StepsPerPool ELSE poolWork[p].part, DedPools)
  /\ dedicatedStage = "done" => poolSteps = 15 * PoolCount
  /\ \A p \in DedPools :
       LET w == poolWork[p]
           ran == {Parts[i] : i \in 1..w.part}
       IN IF LeftOut(p) THEN Len(w.errors) = 1 /\ w.collected = {} /\ w.advice = {} /\ w.verdicts = {}
          ELSE /\ w.collected \cap ToSet(w.errors) = {} /\ w.collected \cup ToSet(w.errors) = ran
               /\ Cardinality(ToSet(w.errors)) = Len(w.errors)

NoKey(t) == t.distribution = "HASH" \/ (t.rows < 1000000 /\ t.distribution # "none")
Advised(w, name) == {c \in w.advice : c.table = name}
AdviceFits(p) ==
  LET w == poolWork[p]
  IN /\ "tables" \in w.collected
     /\ \A c \in w.advice : c.score > 0 /\ (c.basis = "stats" => "column_stats" \in w.collected)
     /\ \A t \in w.database.tables :
          /\ NoKey(t) => Advised(w, t.name) = {}
          /\ Cardinality(Advised(w, t.name)) <= 3
          /\ \A c \in Advised(w, t.name) : c.basis = "stats" => \A r \in w.database.columns :
               r.table = t.name /\ r.row \notin {d.row : d \in Advised(w, t.name)} =>
                 c.score >= ScoreOne(r, FirstKeys(RowsOf(p, "indexes", w.database.indexes), t.name),
                                     UniqueKeys(RowsOf(p, "indexes", w.database.indexes), t.name),
                                     FilterUsage(RowsOf(p, "code_objects", w.database.objects), t.name, r.column))

(* The advice on distribution keys stays within what was collected: only tables *)
(* worth a hash key, at most three candidates of each, none of a lower score    *)
(* than one left out; and without column statistics no score claims them.       *)
AdviceSound == \A p \in DedPools : poolWork[p].advice # {} => AdviceFits(p)

(* The compatibility of a code object is never better than the worst construct *)
(* the scan saw in it, even where two objects share an id, and the summary      *)
(* counts each object once.                                                     *)
VerdictsSound ==
  \A p \in DedPools : "tsql_surface_gap" \in poolWork[p].collected =>
    LET objects == RowsOf(p, "code_objects", poolWork[p].database.objects)
        verdicts == poolWork[p].verdicts
        summary == SummarizeCodeObjects(verdicts)
    IN /\ Cardinality(verdicts) = Cardinality(objects)
       /\ summary.compatible <= Cardinality({o \in objects : \A f \in Scanned(o) : f.severity = "info"})
       /\ \A o \in objects : \A f \in Scanned(o) :
            /\ f.severity = "blocker" => o.id \in summary.incompatible
            /\ f.severity = "warning" => o.id \in summary.incompatible \cup summary.needs_review

\* What the report recommends and warns of rests on what was collected
\* (distribution_advisor.py, tsql_surface_gap.py).
AdviceAndVerdictsSound == AdviceSound /\ VerdictsSound
=============================================================================
