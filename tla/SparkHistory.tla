---------------------------- MODULE SparkHistory ----------------------------
(***************************************************************************)
(* The spark_pools analyzer: the Livy history of every pool is paged by    *)
(* offset on a thread pool while runs keep arriving at its front, observed *)
(* runs are deduplicated, and usage is summed by window and by day. Time   *)
(* is counted in parts of a day; the observation window is [0, midnight    *)
(* of the day of collection).                                              *)
(***************************************************************************)
EXTENDS Integers, Sequences, FiniteSets, FiniteSetsExt

CONSTANTS Pools,         \* Spark pools of the workspace, in the order they are submitted
          Histories,     \* histories a pool may start with
          PageSize,      \* SMA_SPARK_RUN_PAGE_SIZE
          Limit,         \* SMA_SPARK_RUN_LIMIT
          Concurrency,   \* SMA_SPARK_RUN_CONCURRENCY
          ReportsTotal,  \* whether the server says how many runs it has
          DayLength,     \* parts of a day
          Days,          \* SMA_SPARK_RUN_DAYS
          Windows,       \* DEFAULT_WINDOWS no longer than Days
          MaxArrivals,   \* bound: runs that arrive while the history is paged
          MaxChanges     \* bound: runs that end meanwhile

VARIABLES server,     \* per pool and endpoint, the runs the server lists, newest first
          fetch,      \* per pool, where its thread is
          collected,  \* per pool, the records its thread has kept, in order
          endpointStatus,     \* SparkHistoryClient._collection_status
          sparkErrors,     \* SparkAnalysis.errors: what failed
          sparkStage  \* "assets", "history" or "done"

sparkVars == <<server, fetch, collected, endpointStatus, sparkErrors, sparkStage>>

Endpoints == {"batch", "session"}
Kinds == {"scheduled", "interactive"}
NoTime == -1000
Unknown == -1   \* the server reports no total
Unseen == -2    \* no page has been read yet
PoolNames == {Pools[i] : i \in 1..Len(Pools)}

\* Midnight of the day of collection, and the time of collection itself.
CollectionEnd == Days * DayLength + 1

\* Mutant: the window ends when the collection does, in the middle of a day.
ObservationEndNow == CollectionEnd

ObservationEnd == (CollectionEnd \div DayLength) * DayLength
ObservationStart == ObservationEnd - Days * DayLength
DayStart(d) == d * DayLength

-----------------------------------------------------------------------------
\* From the server's record to the record the analyzer keeps.

ClassifyTrigger(raw, endpoint) ==
  IF endpoint = "batch" \/ raw.pipelineConf THEN "scheduled" ELSE "interactive"

Cleanup == {"dead", "killed", "shutting_down", "stopped"}
ClassifyState(state, result) ==
  IF result = "succeeded" \/ state = "success" THEN "succeeded"
  ELSE IF result = "failed" \/ state = "error" \/ (result = "cancelled" /\ state \notin Cleanup)
       THEN "failed"
       ELSE IF state \in Cleanup THEN "succeeded" ELSE "in_progress"

Normalize(raw, pool, endpoint) ==
  [pool |-> pool, kind |-> ClassifyTrigger(raw, endpoint), endpoint |-> endpoint,
   id |-> raw.id, app |-> raw.app, from |-> raw.from, to |-> raw.to,
   outcome |-> ClassifyState(raw.state, raw.result), vcores |-> raw.vcores]

\* A record is worth keeping unless it is known to have ended before the window.
OverlapsWindow(r) == r.from # NoTime /\ (r.to = NoTime \/ r.to > ObservationStart)

\* What the server says of a run; its numbers are unique within an endpoint, and
\* what both endpoints say of one application agrees.
RawRun == [id : Nat \ {0}, app : STRING, from : Int, to : Int, state : STRING, result : STRING,
           pipelineConf : BOOLEAN, vcores : Nat]
HistoryOf(h) ==
  /\ h \in [Endpoints -> Seq(RawRun)]
  /\ \A e \in Endpoints : \A i, j \in 1..Len(h[e]) : h[e][i].id = h[e][j].id => i = j
  /\ \A e, f \in Endpoints : \A i \in 1..Len(h[e]), j \in 1..Len(h[f]) :
       h[e][i].app # "none" /\ h[e][i].app = h[f][j].app =>
         /\ ClassifyTrigger(h[e][i], e) = ClassifyTrigger(h[f][j], f)
         /\ h[e][i].from = h[f][j].from /\ h[e][i].to = h[f][j].to
         /\ h[e][i].vcores = h[f][j].vcores

ASSUME SparkAssumption ==
  /\ PageSize \in Nat \ {0} /\ Limit \in Nat \ {0} /\ Concurrency \in Nat \ {0}
  /\ DayLength \in Nat \ {0} /\ Days \in Nat \ {0} /\ Windows \subseteq 1..Days
  /\ MaxArrivals \in Nat /\ MaxChanges \in Nat /\ Len(Pools) \in Nat
  /\ \A h \in Histories : HistoryOf(h)

-----------------------------------------------------------------------------
\* Accounting over the records.

SparkSum(f) == MapThenSumSet(LAMBDA x : f[x], DOMAIN f)

HasUsage(r) == r.vcores # 0
IntervalEnd(r, end) ==
  IF r.to # NoTime THEN r.to ELSE IF r.outcome = "in_progress" THEN end ELSE NoTime
Overlaps(r, start, end) ==
  r.from < end /\ (IntervalEnd(r, end) = NoTime \/ IntervalEnd(r, end) > start)

Identity(r) == IF r.app # "none" THEN <<"application", r.pool, r.app>>
               ELSE <<"livy", r.pool, r.endpoint, r.id, r.from, r.kind>>
\* (_has_usage, vcore_hours known, ended), compared in this order
RecordQuality(r) == (IF HasUsage(r) THEN 4 ELSE 0)
                    + (IF HasUsage(r) /\ r.to # NoTime /\ r.to > r.from THEN 2 ELSE 0)
                    + (IF r.to # NoTime THEN 1 ELSE 0)

\* Of the observations of one run the first of the best quality stays.
DeduplicateRuns(s) ==
  {s[i] : i \in {i \in 1..Len(s) : \A j \in 1..Len(s) :
      Identity(s[j]) = Identity(s[i])
        => \/ RecordQuality(s[j]) < RecordQuality(s[i])
           \/ RecordQuality(s[j]) = RecordQuality(s[i]) /\ j >= i}}

Lower(a, b) == IF a < b THEN a ELSE b
Upper(a, b) == IF a > b THEN a ELSE b

\* vCore time of a run with a known shape and interval inside [start, end)
IntervalUsage(r, start, end) ==
  LET from == Upper(start, r.from)
      to == Lower(end, IntervalEnd(r, end))
  IN IF to <= from THEN 0 ELSE r.vcores * (to - from)

DaysIntersecting(start, end) ==
  IF end <= start THEN {} ELSE (start \div DayLength)..((end - 1) \div DayLength)

Known(r, end) == IntervalEnd(r, end) # NoTime /\ HasUsage(r)

\* One window of one pool and kind: whole days that the run touches inside it.
WindowUsage(r, w) ==
  LET cutoff == ObservationEnd - w * DayLength
      touched == DaysIntersecting(Upper(cutoff, r.from), Lower(ObservationEnd, IntervalEnd(r, ObservationEnd)))
  IN SparkSum([d \in touched |-> IntervalUsage(r, DayStart(d), DayStart(d + 1))])

RunsOf(pool, kind) == {r \in DeduplicateRuns(collected[pool]) : r.kind = kind}
AggregateRuns(pool, kind, w) ==
  LET inWindow == {r \in RunsOf(pool, kind) :
                     Overlaps(r, ObservationEnd - w * DayLength, ObservationEnd)}
      known == {r \in inWindow : Known(r, ObservationEnd)}
  IN [runs |-> Cardinality(inWindow), unknown |-> Cardinality(inWindow \ known),
      usage |-> SparkSum([r \in known |-> WindowUsage(r, w)])]

AllRecords == UNION {DeduplicateRuns(collected[p]) : p \in PoolNames}

\* Days a run touches; one that ended at an unknown time may touch all that follow.
TouchedDays(r) ==
  DaysIntersecting(Upper(ObservationStart, r.from),
                   IF IntervalEnd(r, ObservationEnd) = NoTime THEN ObservationEnd
                   ELSE Lower(ObservationEnd, IntervalEnd(r, ObservationEnd)))

\* Mutant: only a run of unknown shape spoils its days.
UnknownDaysOfShape(inside) ==
  UNION {TouchedDays(r) : r \in {x \in inside : ~HasUsage(x) /\ IntervalEnd(x, ObservationEnd) # NoTime}}

UnknownDays(inside) ==
  UNION {TouchedDays(r) : r \in {x \in inside : ~Known(x, ObservationEnd)}}

\* aggregate_daily_usage: a day some run of unknown usage touches is left out.
DailyUsage ==
  LET inside == {r \in AllRecords : Overlaps(r, ObservationStart, ObservationEnd)}
  IN [d \in DaysIntersecting(ObservationStart, ObservationEnd) \ UnknownDays(inside) |->
        SparkSum([r \in {x \in inside : Known(x, ObservationEnd) /\ d \in TouchedDays(x)} |->
                    IntervalUsage(r, DayStart(d), DayStart(d + 1))])]

CollectionComplete ==
  /\ \A p \in PoolNames, e \in Endpoints : endpointStatus[p][e] = "complete"
  /\ sparkErrors \cap (PoolNames \X Endpoints) = {}

\* A window claims a daily average, and from it a steady state, only for a
\* complete collection with no run of unknown usage.
ClaimsAverage(pool, kind, w) ==
  CollectionComplete /\ AggregateRuns(pool, kind, w).unknown = 0

-----------------------------------------------------------------------------
Idle == [endpoint |-> "none", offset |-> 0, scanned |-> 0, total |-> Unseen]

SparkInit ==
  /\ server \in [PoolNames -> Histories] /\ fetch = [p \in PoolNames |-> Idle]
  /\ collected = [p \in PoolNames |-> <<>>]
  /\ endpointStatus = [p \in PoolNames |-> [e \in Endpoints |-> "none"]]
  /\ sparkErrors = {} /\ sparkStage = "assets"

\* Pools, notebooks, job definitions, runtimes, lint and libraries: each that
\* fails is noted but the libraries; without a pool there is no history to page.
ListAssets(listed, bad) ==
  /\ sparkStage = "assets"
  /\ sparkErrors' = {<<"assets", a>> : a \in bad \ {"libraries"}}
  /\ sparkStage' = IF "list_pools" \in bad \/ ~listed THEN "done" ELSE "history"
  /\ UNCHANGED <<server, fetch, collected, endpointStatus>>

Assets == {"list_pools", "notebooks", "libraries"}

\* The executor starts a pool's thread in the order of submission.
StartPool(i) ==
  LET p == Pools[i] IN
  /\ sparkStage = "history" /\ fetch[p] = Idle
  /\ \A j \in 1..(i - 1) : fetch[Pools[j]] # Idle
  /\ Cardinality({q \in PoolNames : fetch[q].endpoint \in Endpoints}) < Concurrency
  /\ fetch' = [fetch EXCEPT ![p].endpoint = "batch"]
  /\ UNCHANGED <<server, collected, endpointStatus, sparkErrors, sparkStage>>

\* The thread's next endpoint, or its end.
Onward(p) == fetch' = [fetch EXCEPT ![p] =
                         [Idle EXCEPT !.endpoint = IF fetch[p].endpoint = "batch"
                                                   THEN "session" ELSE "over"]]

\* Mutant: a short page is taken for the last one.
ReachedAnyway(total, scanned) == TRUE

Reached(total, scanned) == total = Unknown \/ scanned >= total

InTurn(positions) ==
  CHOOSE q \in [1..Cardinality(positions) -> positions] : \A i, j \in DOMAIN q : i < j => q[i] < q[j]

\* One round of the paging loop, with the record of every run of the page.
FetchPage(p) ==
  LET e == fetch[p].endpoint
      list == server[p][e]
      page == SubSeq(list, fetch[p].offset + 1, Lower(fetch[p].offset + PageSize, Len(list)))
      taken == SubSeq(page, 1, Lower(Len(page), Limit - fetch[p].scanned))
      total == IF fetch[p].total # Unseen THEN fetch[p].total
               ELSE IF ReportsTotal THEN Len(list) ELSE Unknown
      scanned == fetch[p].scanned + Len(taken)
      turns == InTurn({i \in 1..Len(taken) : OverlapsWindow(Normalize(taken[i], p, e))})
      kept == [i \in DOMAIN turns |-> Normalize(taken[turns[i]], p, e)]
      Stop(complete) ==
        /\ endpointStatus' = [endpointStatus EXCEPT ![p][e] = IF complete THEN "complete" ELSE "partial"]
        /\ Onward(p)
  IN /\ e \in Endpoints
     /\ collected' = [collected EXCEPT ![p] = @ \o kept]
     /\ \/ page = <<>> /\ Stop(Reached(total, scanned))
        \/ page # <<>> /\ scanned >= Limit /\ Stop(total # Unknown /\ Reached(total, scanned))
        \/ page # <<>> /\ scanned < Limit /\ Len(page) < PageSize /\ Stop(Reached(total, scanned))
        \/ /\ page # <<>> /\ scanned < Limit /\ Len(page) = PageSize
           /\ fetch' = [fetch EXCEPT ![p] = [fetch[p] EXCEPT !.offset = @ + Len(page),
                                                             !.scanned = scanned, !.total = total]]
           /\ UNCHANGED endpointStatus
     /\ UNCHANGED <<server, sparkErrors, sparkStage>>

\* The call for a page raises: what the generator has given so far is kept.
FetchFails(p) ==
  LET e == fetch[p].endpoint IN
  /\ e \in Endpoints
  /\ endpointStatus' = [endpointStatus EXCEPT ![p][e] = "partial"]
  /\ sparkErrors' = sparkErrors \cup {<<p, e>>}
  /\ Onward(p)
  /\ UNCHANGED <<server, collected, sparkStage>>

\* Every thread is over: deduplicate, aggregate, warn.
Aggregate ==
  /\ sparkStage = "history" /\ \A p \in PoolNames : fetch[p].endpoint = "over"
  /\ sparkStage' = "done"
  /\ UNCHANGED <<server, fetch, collected, endpointStatus, sparkErrors>>

-----------------------------------------------------------------------------
\* The workspace goes on: a run is submitted, a run in progress ends.

Arrivals == Cardinality({x \in PoolNames \X Endpoints \X (1..MaxArrivals) :
              \E k \in 1..Len(server[x[1]][x[2]]) : server[x[1]][x[2]][k].id = -x[3]})
Arrive(p, e) ==
  /\ sparkStage = "history" /\ fetch[p].endpoint = e /\ fetch[p].scanned > 0
  /\ Arrivals < MaxArrivals
  /\ server' = [server EXCEPT ![p][e] =
       <<[id |-> -(Arrivals + 1), app |-> "none", from |-> CollectionEnd, to |-> NoTime,
          state |-> "running", result |-> "none", pipelineConf |-> FALSE, vcores |-> 0]>> \o @]
  /\ UNCHANGED <<fetch, collected, endpointStatus, sparkErrors, sparkStage>>

\* Once a run ends its shape is known, if it was not before.
Ended(r) == [r EXCEPT !.to = CollectionEnd, !.state = "dead", !.result = "succeeded",
                      !.vcores = IF @ = 0 THEN 1 ELSE @]
EndRun(p, e, i) ==
  /\ sparkStage = "history" /\ fetch[p].endpoint = e /\ i \in 1..Len(server[p][e])
  /\ server[p][e][i].to = NoTime /\ server[p][e][i].state = "running" /\ server[p][e][i].id > 0
  /\ MaxChanges > 0
  /\ server' = [server EXCEPT ![p][e][i] = Ended(@)]
  /\ UNCHANGED <<fetch, collected, endpointStatus, sparkErrors, sparkStage>>

SparkNext ==
  \/ \E listed \in BOOLEAN, bad \in SUBSET Assets : ListAssets(listed, bad)
  \/ \E i \in 1..Len(Pools) : StartPool(i)
  \/ \E p \in PoolNames : FetchPage(p) \/ FetchFails(p)
  \/ Aggregate
  \/ \E p \in PoolNames, e \in Endpoints :
       Arrive(p, e) \/ \E i \in 1..Len(server[p][e]) : EndRun(p, e, i)

SparkSpec == SparkInit /\ [][SparkNext]_sparkVars

-----------------------------------------------------------------------------
\* Truth, from the server: every run that was there, once.
RunsListed(p, e) == [i \in 1..Len(server[p][e]) |-> Normalize(server[p][e][i], p, e)]
Truth(p) == DeduplicateRuns(RunsListed(p, "batch") \o RunsListed(p, "session"))
Running(r, t) == r.from # NoTime /\ r.from <= t /\ (r.to = NoTime \/ t < r.to)
SpentIn(rs, from, to) ==
  SparkSum([r \in rs |-> r.vcores * Cardinality({t \in from..(to - 1) : Running(r, t)})])

\* A history that fitted the limit grew beyond it: paging ends at the limit, with
\* as many runs as the first page announced, the last of them unseen.
Outgrew(p, e) ==
  Limit < Len(server[p][e]) /\ Cardinality({k \in 1..Len(server[p][e]) : server[p][e][k].id > 0}) <= Limit
Fitting(p) == \A e \in Endpoints : ~Outgrew(p, e)

\* A daily average stands for every run of the window: its total is the vCore
\* time the pool's runs spent inside the window, no run missing, none twice,
\* nothing from outside, and none of unknown usage among them, unless the limit
\* was outgrown (spark_run_stats.aggregate_runs, SparkHistoryClient.collection_status).
ClaimsAreMeasured ==
  sparkStage = "done" =>
    \A p \in PoolNames, kind \in Kinds, w \in Windows :
      ClaimsAverage(p, kind, w) /\ Fitting(p) =>
        AggregateRuns(p, kind, w).usage
          = SpentIn({r \in Truth(p) : r.kind = kind}, ObservationEnd - w * DayLength, ObservationEnd)

\* Every day published by a complete collection is exact, and the days add up
\* to the longest window where that window is known (aggregate_daily_usage).
DailyUsageMeasured ==
  sparkStage = "done" /\ CollectionComplete /\ (\A p \in PoolNames : Fitting(p)) =>
    \A d \in DOMAIN DailyUsage :
      DailyUsage[d] = SpentIn(UNION {Truth(p) : p \in PoolNames}, DayStart(d), DayStart(d + 1))

\* "Whether paging reached the end of the endpoint's available history"
\* (SparkHistoryClient.collection_status): every run of it was looked at, as long
\* as the limit was not outgrown.
CompleteReachedEnd ==
  \A p \in PoolNames, e \in Endpoints :
    endpointStatus[p][e] = "complete" /\ ~Outgrew(p, e) =>
      \A i \in 1..Len(server[p][e]) :
        LET r == Normalize(server[p][e][i], p, e)
        IN r.id > 0 /\ OverlapsWindow(r)
             => \E j \in 1..Len(collected[p]) : Identity(collected[p][j]) = Identity(r)

\* What the report says of Spark is what the pools ran (SparkHistoryClient,
\* spark_run_stats.py): averages, days, and whether paging reached the end.
SparkReportMeasured == ClaimsAreMeasured /\ DailyUsageMeasured /\ CompleteReachedEnd
=============================================================================
