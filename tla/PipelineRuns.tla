---------------------------- MODULE PipelineRuns ----------------------------
(***************************************************************************)
(* Run history of the pipelines analyzer, for a Synapse workspace or a     *)
(* data factory: the runs of the window day by day or in one call, the     *)
(* backfill of pipelines the limit starved, activity runs of a sample,     *)
(* and the roll-ups by window, by day and by hour.                         *)
(***************************************************************************)
EXTENDS Integers, Sequences, FiniteSets, FiniteSetsExt, SequencesExt, Functions

CONSTANTS Factories,       \* factories with their settings, see MCCollect
          PlNow, PlDay, PlHour, \* the moment of the run, and how long a day and an hour are
          PlWindows,       \* RUN_STATS_WINDOWS_DAYS
          HardRunLimit,    \* _HARD_RUN_LIMIT
          BatchSize,       \* pipelines asked for in one call of the backfill
          PlMaxFailures    \* bound: calls that fail

ASSUME PipelineRunsAssumption ==
  /\ {PlNow, PlDay, PlHour, HardRunLimit, BatchSize} \subseteq Nat \ {0}
  /\ PlWindows \subseteq Nat /\ PlWindows # {} /\ PlMaxFailures \in Nat

VARIABLES factory,       \* what the service holds, and the settings
          fetched,       \* runs, in the order they were read
          nextDay,       \* the next day or chunk of pipelines to ask for
          plTruncated,   \* history.truncated
          activityRuns,  \* activity_runs_by_run_id
          awaited,       \* runs whose activity runs are being fetched
          dailyStatus,   \* history.daily_status
          plErrors, plStage

plVars == <<factory, fetched, nextDay, plTruncated, activityRuns, awaited, dailyStatus, plErrors, plStage>>

Unreported == -1
DayOf(t) == t \div PlDay
PlEnd == PlNow
PlStart == PlNow - factory.days * PlDay
FetchDays == DayOf(PlStart)..DayOf(PlEnd)
CanFail == Cardinality(plErrors) < PlMaxFailures

\* run_end, else run_start.
Moment(r) == IF r.end # Unreported THEN r.end ELSE r.start
RunOutcome(r) == IF r.status \in {"succeeded", "failed"} THEN r.status ELSE "other"
Ids(read) == {read[i].id : i \in DOMAIN read}

\* One query: the runs last updated in a span, newest start first, at most cap.
RunQuery(from, to, cap, names) ==
  LET found == {r \in factory.runs : /\ from <= r.updated /\ r.updated < to
                                     /\ names # {} => r.pipeline \in names}
      ordered == SetToSortSeq(found, LAMBDA a, b : a.start > b.start)
  IN SubSeq(ordered, 1, Min({cap, HardRunLimit, Len(ordered)}))

PipelinesInit ==
  /\ factory \in Factories
  /\ fetched = <<>> /\ nextDay = DayOf(PlNow - factory.days * PlDay)
  /\ plTruncated = FALSE /\ activityRuns = <<>> /\ awaited = {} /\ dailyStatus = <<>>
  /\ plErrors = {} /\ plStage = IF factory.daily THEN "days" ELSE "all"

\* The service: a run in progress ends while its history is read.
RunEnds(r) ==
  /\ plStage \notin {"off", "done"} /\ r.status = "in_progress"
  /\ factory' = [factory EXCEPT !.runs = (@ \ {r}) \cup
                   {[r EXCEPT !.status = "succeeded", !.end = PlNow, !.updated = PlNow]}]
  /\ UNCHANGED <<fetched, nextDay, plTruncated, activityRuns, awaited, dailyStatus, plErrors, plStage>>

\* A day that breaks off keeps the runs read so far.
FetchDay(whole, read) ==
  LET page == RunQuery(Max({nextDay * PlDay, PlStart}), Min({(nextDay + 1) * PlDay, PlEnd}),
                    factory.limit - Len(fetched), {})
      kept == IF whole THEN page ELSE SubSeq(page, 1, Min({read, Len(page)}))
  IN /\ plStage = "days" /\ nextDay \in FetchDays /\ nextDay' = nextDay + 1
     /\ \/ /\ Len(fetched) >= factory.limit /\ whole
           /\ plTruncated' = TRUE /\ UNCHANGED <<fetched, plErrors>>
        \/ /\ Len(fetched) < factory.limit /\ (whole \/ CanFail)
           /\ fetched' = fetched \o kept
           /\ plTruncated' = (plTruncated \/ Len(fetched') >= factory.limit)
           /\ plErrors' = plErrors \cup (IF whole THEN {} ELSE {<<"runs_daily", nextDay>>})
     /\ UNCHANGED <<factory, activityRuns, awaited, dailyStatus, plStage>>

DaysFetched ==
  /\ plStage = "days" /\ nextDay \notin FetchDays
  /\ plStage' = "backfill" /\ nextDay' = 0
  /\ UNCHANGED <<factory, fetched, plTruncated, activityRuns, awaited, dailyStatus, plErrors>>

\* One call for the whole window; where it breaks, there is no run history at all.
FetchAll(whole) ==
  /\ plStage = "all" /\ (whole \/ CanFail)
  /\ fetched' = IF whole THEN RunQuery(PlStart, PlEnd, factory.limit, {}) ELSE <<>>
  /\ plTruncated' = (Len(fetched') >= factory.limit)
  /\ plErrors' = plErrors \cup (IF whole THEN {} ELSE {<<"run_history", 0>>})
  /\ plStage' = (IF whole THEN "backfill" ELSE "done") /\ nextDay' = 0
  /\ UNCHANGED <<factory, activityRuns, awaited, dailyStatus>>

\* Mutant: every pipeline is asked for again.
MissingAll(read) == factory.pipelines

\* Listed pipelines without a run, in the order they were listed.
Missing(read) == SelectSeq(factory.pipelines, LAMBDA p : ~\E i \in DOMAIN read : read[i].pipeline = p)

\* The chunks are cut before the first of them is asked for: awaited holds the
\* pipelines still to ask for.
StartBackfill ==
  /\ plStage = "backfill" /\ nextDay = 0
  /\ awaited' = (IF plTruncated THEN Range(Missing(fetched)) ELSE {}) /\ nextDay' = 1
  /\ UNCHANGED <<factory, fetched, plTruncated, activityRuns, dailyStatus, plErrors, plStage>>

\* The cap of a chunk is shared by its pipelines.
BackfillChunk(whole, read) ==
  LET waiting == SelectSeq(factory.pipelines, LAMBDA p : p \in awaited)
      chunk == Range(SubSeq(waiting, 1, Min({BatchSize, Len(waiting)})))
      page == RunQuery(PlStart, PlEnd, factory.perPipeline * Cardinality(chunk), chunk)
  IN /\ plStage = "backfill" /\ nextDay > 0 /\ awaited # {} /\ (whole \/ CanFail)
     /\ fetched' = fetched \o (IF whole THEN page ELSE SubSeq(page, 1, Min({read, Len(page)})))
     /\ awaited' = awaited \ chunk
     /\ plErrors' = plErrors \cup (IF whole THEN {} ELSE {<<"runs_backfill", nextDay>>})
     /\ nextDay' = nextDay + 1
     /\ UNCHANGED <<factory, plTruncated, activityRuns, dailyStatus, plStage>>

\* The newest terminal runs of each pipeline, as many as the sample allows; of two
\* at one moment, the one read first.
SampledRuns ==
  LET terminal == {i \in DOMAIN fetched : fetched[i].status \in {"succeeded", "failed"}}
      ahead(i) == {j \in terminal : /\ fetched[j].pipeline = fetched[i].pipeline
                                    /\ \/ Moment(fetched[j]) > Moment(fetched[i])
                                       \/ Moment(fetched[j]) = Moment(fetched[i]) /\ j < i}
  IN {fetched[i] : i \in {x \in terminal : factory.sample = 0 \/ Cardinality(ahead(x)) < factory.sample}}

SelectRuns ==
  /\ plStage = "backfill" /\ nextDay > 0 /\ awaited = {}
  /\ awaited' = (IF factory.activityRuns THEN {r.id : r \in SampledRuns} ELSE {})
  /\ plStage' = "activities"
  /\ UNCHANGED <<factory, fetched, nextDay, plTruncated, activityRuns, dailyStatus, plErrors>>

ArCount == MapThenSumSet(LAMBDA id : Len(activityRuns[id]), DOMAIN activityRuns)
FetchedRun(id) == CHOOSE r \in Range(fetched) : r.id = id

\* The calls complete in any order. A run of no activity run, and every run after
\* the limit, counts as not sampled.
ActivityRunsOf(id, ok) ==
  LET all == FetchedRun(id).acts
      ars == SubSeq(all, 1, Min({factory.limit, HardRunLimit, Len(all)}))
      full == ArCount >= factory.limit
  IN /\ plStage = "activities" /\ id \in awaited /\ (ok \/ CanFail)
     /\ awaited' = awaited \ {id}
     /\ plErrors' = plErrors \cup (IF ok THEN {} ELSE {<<"activity_runs", id>>})
     /\ plTruncated' = (plTruncated \/ (ok /\ ars # <<>> /\ full))
     /\ activityRuns' = IF ok /\ ars # <<>> /\ ~full
                        THEN [x \in DOMAIN activityRuns \cup {id} |-> IF x = id THEN ars ELSE activityRuns[x]]
                        ELSE activityRuns
     /\ UNCHANGED <<factory, fetched, nextDay, dailyStatus, plStage>>

-----------------------------------------------------------------------------
\* What one activity run moved and consumed. Compute is counted in ten-thousandths
\* of a capacity-unit hour: 1.5 for a DIU hour, 0.5 for a vCore hour, 0.0056 for a run.
DiuRate == 15000
VcoreRate == 5000
OrchestrationRate == 56
DefaultDataflowCores == 8
DataMovementTypes == {"Copy", "ExecuteDataFlow", "Lookup"}

Reported(out, key) == key \in DOMAIN out /\ out[key] >= 0

DataBytes(ar) ==
  CASE ar.type = "Copy" -> IF Reported(ar.out, "dataWritten") THEN ar.out["dataWritten"]
                           ELSE IF Reported(ar.out, "dataRead") THEN ar.out["dataRead"] ELSE Unreported
    [] ar.type = "ExecuteDataFlow" ->
         IF ar.sinks # <<>> THEN FoldSeq(+, 0, ar.sinks)
         ELSE IF Reported(ar.out, "bytesProcessed") THEN ar.out["bytesProcessed"] ELSE Unreported
    [] ar.type = "Lookup" -> IF Reported(ar.out, "dataRead") THEN ar.out["dataRead"] ELSE Unreported
    [] OTHER -> Unreported

\* The sum of the billed durations in DIU hours.
DiuHours(ar) ==
  LET billed == SelectSeq(ar.billed, LAMBDA e : e.unit = "diuhours" /\ e.duration >= 0)
  IN IF billed = <<>> THEN Unreported ELSE FoldSeq(LAMBDA e, sum : e.duration + sum, 0, billed)

\* Cores of the cluster for as long as it ran, else for as long as the activity did.
VcoreHours(ar, cores) ==
  LET hours == IF Reported(ar.out, "executionDuration") /\ ar.out["executionDuration"] > 0
               THEN ar.out["executionDuration"] ELSE ar.duration
  IN IF ar.type = "ExecuteDataFlow" /\ hours > 0 THEN cores * hours ELSE Unreported

MovesData(p) == \E a \in factory.activities : a.pipeline = p /\ a.type \in DataMovementTypes
NonCopyCount(p) == Cardinality({a \in factory.activities : a.pipeline = p /\ a.type # "Copy"})
DataflowCores(p, name) ==
  LET declared == {a.cores : a \in {x \in factory.activities : /\ x.pipeline = p /\ x.name = name
                                                               /\ x.type = "ExecuteDataFlow" /\ x.cores > 0}}
  IN IF declared = {} THEN DefaultDataflowCores ELSE CHOOSE c \in declared : TRUE

Sampled(r) == r.id \in DOMAIN activityRuns

\* What a sampled run used by one measure, Unreported where no activity run says.
UsedByRun(r, measure(_)) ==
  LET known == IF Sampled(r) /\ MovesData(r.pipeline)
               THEN SelectSeq(activityRuns[r.id], LAMBDA ar : measure(ar) # Unreported) ELSE <<>>
  IN IF known = <<>> THEN Unreported ELSE FoldSeq(LAMBDA ar, sum : measure(ar) + sum, 0, known)

RunBytes(r) == UsedByRun(r, DataBytes)
RunDiu(r) == UsedByRun(r, DiuHours)
RunVcores(r) == UsedByRun(r, LAMBDA ar : VcoreHours(ar, DataflowCores(r.pipeline, ar.name)))
NonCopyRuns(r) == Len(SelectSeq(activityRuns[r.id], LAMBDA ar : ar.type # "Copy"))

SumUsed(R, used(_)) == MapThenSumSet(LAMBDA r : Max({0, used(r)}), R)

\* Mutant: a run that was not sampled weighs nothing in its day.
RunCUSampledOnly(r) ==
  DiuRate * Max({0, RunDiu(r)}) + VcoreRate * Max({0, RunVcores(r)})
    + OrchestrationRate * (IF Sampled(r) THEN NonCopyRuns(r) ELSE 0)

\* What one run adds to its day.
RunCU(r) ==
  DiuRate * Max({0, RunDiu(r)}) + VcoreRate * Max({0, RunVcores(r)})
    + OrchestrationRate * (IF Sampled(r) THEN NonCopyRuns(r) ELSE NonCopyCount(r.pipeline))

\* Nearest rank.
Percentile95(values) ==
  LET sorted == SetToSortSeq(values, LAMBDA a, b : a[1] < b[1])
  IN IF values = {} THEN Unreported ELSE sorted[Max({1, (95 * Len(sorted) + 99) \div 100})][1]

\* The newest run of a pipeline, whatever became of it.
LastRun(p) ==
  LET R == {r \in Range(fetched) : r.pipeline = p}
  IN IF R = {} THEN Unreported ELSE Max({Moment(r) : r \in R})

\* The row of a pipeline for one window; a measure nobody reported is Unreported,
\* unless there was no run at all.
WindowRow(p, w) ==
  LET R == {r \in Range(fetched) : r.pipeline = p /\ Moment(r) >= PlNow - w * PlDay}
      ended(outcome) == Cardinality({r \in R : RunOutcome(r) = outcome})
      known(used(_)) == {r \in R : used(r) # Unreported}
      total(used(_)) == IF known(used) # {} THEN SumUsed(R, used)
                        ELSE IF R = {} /\ MovesData(p) THEN 0 ELSE Unreported
      days == {DayOf(Moment(r)) : r \in {x \in R : RunCU(x) > 0}}
      cuOf(d) == MapThenSumSet(RunCU, {r \in R : DayOf(Moment(r)) = d})
  IN [runs |-> Cardinality(R), succeeded |-> ended("succeeded"), failed |-> ended("failed"),
      other |-> ended("other"), bytes |-> total(RunBytes), diu |-> total(RunDiu), vcores |-> total(RunVcores),
      p95 |-> Percentile95({<<r.duration, r.id>> : r \in {x \in R : x.duration # Unreported}}),
      orchestration |-> MapThenSumSet(NonCopyRuns, {r \in R : Sampled(r)})
                          + NonCopyCount(p) * Cardinality({r \in R : ~Sampled(r)}),
      peakDay |-> IF days # {} THEN Max({cuOf(d) : d \in days}) ELSE IF R = {} THEN 0 ELSE Unreported]

-----------------------------------------------------------------------------
\* Outcomes by day.

CountDays(read) ==
  [d \in {DayOf(Moment(read[i])) : i \in DOMAIN read} |->
     [outcome \in {"succeeded", "failed", "other"} |->
        Cardinality({i \in DOMAIN read : DayOf(Moment(read[i])) = d /\ RunOutcome(read[i]) = outcome})]]

Statuses == {"succeeded", "failed", "cancelled"}
NoRuns == [outcome \in {"succeeded", "failed", "other"} |-> 0]

\* Mutant: days the runs in memory already count are asked for too.
MissingDaysAll(counts) == FetchDays

MissingDays(counts) == {d \in FetchDays : d \notin DOMAIN counts \/ counts[d] = NoRuns}

\* Unlike the fetch, the first day is asked for as a whole.
ServerCount(d, status) ==
  Cardinality({r \in factory.runs : /\ d * PlDay <= r.updated /\ r.updated < Min({(d + 1) * PlDay, PlEnd})
                                    /\ r.status = status})

\* Only after a truncated fetch; a count that fails is only logged.
CountByDay(unanswered) ==
  LET memory == CountDays(fetched)
      asked == IF plTruncated /\ factory.dailyBackfill THEN MissingDays(memory) ELSE {}
      answer(d, outcome) ==
        MapThenSumSet(LAMBDA s : IF <<d, s>> \in unanswered THEN 0 ELSE ServerCount(d, s),
                      IF outcome = "other" THEN {"cancelled"} ELSE {outcome})
      before(d) == IF d \in DOMAIN memory THEN memory[d] ELSE NoRuns
  IN /\ plStage = "activities" /\ awaited = {} /\ plStage' = "done"
     /\ unanswered \subseteq asked \X Statuses
     /\ dailyStatus' = [d \in DOMAIN memory \cup asked |->
          IF d \in asked THEN [outcome \in DOMAIN NoRuns |-> before(d)[outcome] + answer(d, outcome)]
          ELSE memory[d]]
     /\ UNCHANGED <<factory, fetched, nextDay, plTruncated, activityRuns, awaited, plErrors>>

\* The last 24 hours, hour by hour, from the top of the first hour.
TopOfHour(t) == (t \div PlHour) * PlHour
LastHour == TopOfHour(PlNow)
HourlyStatus ==
  [h \in {LastHour - k * PlHour : k \in 0..(PlDay \div PlHour - 1)} |->
     [outcome \in DOMAIN NoRuns |->
        Cardinality({i \in DOMAIN fetched : /\ TopOfHour(Moment(fetched[i])) = h
                                            /\ RunOutcome(fetched[i]) = outcome})]]

PipelinesNext ==
  \/ \E r \in factory.runs : RunEnds(r)
  \/ DaysFetched \/ StartBackfill \/ SelectRuns
  \/ FetchDay(TRUE, 0) \/ BackfillChunk(TRUE, 0) \/ FetchAll(TRUE) \/ FetchAll(FALSE)
  \/ \E read \in 0..1 : FetchDay(FALSE, read) \/ BackfillChunk(FALSE, read)
  \/ \E id \in Ids(fetched), ok \in BOOLEAN : ActivityRunsOf(id, ok)
  \/ \E d \in FetchDays, s \in Statuses : CountByDay({}) \/ CountByDay({<<d, s>>})

-----------------------------------------------------------------------------
\* No run is read twice, also where the backfill asks again. A history that is not
\* truncated and broke nowhere holds every run of its window ("so the aggregator
\* sees a complete picture for every window, every pipeline, and every status"),
\* except those that ended meanwhile; as long as no call reaches the hard limit,
\* which truncates without saying so.
RunsReadOnceAndAll ==
  /\ Cardinality(Ids(fetched)) = Len(fetched)
  /\ \A r \in Range(fetched) : PlStart <= r.updated /\ r.updated < PlEnd
  /\ /\ plStage \in {"activities", "done"} /\ ~plTruncated /\ factory.limit <= HardRunLimit
     /\ plErrors \subseteq {<<"activity_runs", id>> : id \in Ids(fetched)}
     => \A r \in factory.runs : PlStart <= r.updated /\ r.updated < PlEnd => r.id \in Ids(fetched)

\* The rows of a pipeline agree with each other: outcomes add up, a wider window
\* holds what a narrower one does, the busiest day weighs no more than the window
\* and no less than its average day ("so the SKU sizer can cover the busiest day
\* instead of the window average"), and at most one run in twenty is longer than the
\* 95th percentile.
WindowRowsAgree ==
  plStage = "done" =>
    \A p \in Range(factory.pipelines), w \in PlWindows :
      LET row == WindowRow(p, w)
          cu == DiuRate * Max({0, row.diu}) + VcoreRate * Max({0, row.vcores})
                  + OrchestrationRate * row.orchestration
          longer == {r \in Range(fetched) : /\ r.pipeline = p /\ Moment(r) >= PlNow - w * PlDay
                                            /\ r.duration > row.p95}
      IN /\ row.runs = row.succeeded + row.failed + row.other
         /\ row.peakDay <= cu /\ cu <= (w + 1) * Max({0, row.peakDay})
         /\ row.runs = 0 => row.peakDay = 0 /\ row.bytes \in {0, Unreported} /\ cu = 0
         /\ row.runs > 0 => LastRun(p) >= PlNow - w * PlDay
         /\ 20 * Cardinality(longer) <= row.runs
         /\ \A v \in PlWindows : v <= w =>
              LET inner == WindowRow(p, v)
              IN /\ inner.runs <= row.runs /\ inner.orchestration <= row.orchestration
                 /\ inner.peakDay <= Max({0, row.peakDay}) /\ inner.bytes <= Max({0, row.bytes})
                 /\ (LastRun(p) >= PlNow - v * PlDay <=> inner.runs > 0)

\* Every version of a run that was or is to be seen.
Versions == factory.runs \cup Range(fetched)

\* A day counts no run twice, whether its runs are in memory or are counted by the
\* service: "We only touch days not already populated by the in-memory rollup so a
\* freshly-cached day is never overwritten". The first day of the window is the
\* exception: the service counts it as a whole. The hours hold no more than the days.
DailyCountsNoRunTwice ==
  plStage = "done" =>
    /\ \A d \in DOMAIN dailyStatus \ {DayOf(PlStart)} : \A outcome \in DOMAIN NoRuns :
         dailyStatus[d][outcome] <=
           Cardinality({r.id : r \in {x \in Versions : DayOf(Moment(x)) = d /\ RunOutcome(x) = outcome}})
    /\ \A outcome \in DOMAIN NoRuns :
         MapThenSumSet(LAMBDA h : HourlyStatus[h][outcome], DOMAIN HourlyStatus)
           <= MapThenSumSet(LAMBDA d : dailyStatus[d][outcome], DOMAIN dailyStatus)

\* The runs of the window are read, aggregated and charted as they were
\* (PipelinesAnalyzer._collect_run_history).
PipelineHistoryExact == RunsReadOnceAndAll /\ WindowRowsAgree /\ DailyCountsNoRunTwice
=============================================================================
