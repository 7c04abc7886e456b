----------------------------- MODULE Monitoring -----------------------------
(***************************************************************************)
(* The monitoring analyzer: the metrics of each dedicated SQL pool, asked   *)
(* of Azure Monitor by a few workers, a metric the provider does not know   *)
(* being left out and the rest asked again; then the hours and DWU each     *)
(* pool was active on each day, which size the capacity.                    *)
(***************************************************************************)
EXTENDS Integers, Sequences, FiniteSets, FiniteSetsExt, Functions

CONSTANTS MonScopes,       \* what may be monitored, see MCMeasures
          MonWorkers,      \* SMA_MONITORING_POOL_CONCURRENCY
          MonMaxFailures,  \* bound: requests that fail for another reason
          MonDay           \* minutes of a day

NoValue == -1       \* a point without a value; metrics are not negative
Threshold == 5      \* percent; a pool above it is active

\* No two pools of a workspace, or databases of a server, have one name; Azure
\* Monitor measures them in points that follow each other.
PoolsKnown(pools) ==
  /\ pools \in Seq(Range(pools)) /\ \A i, j \in DOMAIN pools : pools[i].name = pools[j].name => i = j
  /\ \A pool \in Range(pools) : \A m \in DOMAIN pool.points :
       /\ pool.points[m] \in Seq(Range(pool.points[m]))
       /\ \A p \in Range(pool.points[m]) : p.at \in Nat /\ p.value \in Nat \cup {NoValue}
ASSUME MonitoringAssumption ==
  /\ MonWorkers \in Int /\ MonMaxFailures \in Nat /\ MonDay \in Nat \ {0}
  /\ \A s \in MonScopes : s.standalone \in BOOLEAN /\ PoolsKnown(s.pools)

VARIABLES monScope,    \* the workspace or server, as the service holds it
          poolList,    \* the pools found, in order
          asking,      \* pool index |-> where its worker is, what it asks for and what came back
          series,      \* the series of the report
          dwuDays,     \* the days derived from them
          monErrors, monStage, monFailures

monVars == <<monScope, poolList, asking, series, dwuDays, monErrors, monStage, monFailures>>

-----------------------------------------------------------------------------
\* The two catalogues. A server's pools have names of their own, rewritten to
\* those of a workspace where there is one.

WorkspaceMetrics ==
  {"DWULimit", "DWUUsed", "DWUUsedPercent", "ActiveQueries", "QueuedQueries", "Connections",
   "ConnectionsBlockedByFirewall", "MemoryUsedPercent", "CPUPercent"}
WorkspaceName ==
  [dwu_limit |-> "DWULimit", dwu_used |-> "DWUUsed", dwu_consumption_percent |-> "DWUUsedPercent",
   active_queries |-> "ActiveQueries", queued_queries |-> "QueuedQueries", connection_successful |-> "Connections",
   blocked_by_firewall |-> "ConnectionsBlockedByFirewall", memory_usage_percent |-> "MemoryUsedPercent",
   cpu_percent |-> "CPUPercent"]
StandaloneMetrics == DOMAIN WorkspaceName \cup {"connection_failed"}
MetricsOf(scope) == IF scope.standalone THEN StandaloneMetrics ELSE WorkspaceMetrics

\* Mutant: the names of a server are passed through.
PassName(scope, metric) == metric
DisplayName(scope, metric) ==
  IF scope.standalone /\ metric \in DOMAIN WorkspaceName THEN WorkspaceName[metric] ELSE metric

\* A server also holds databases that are no warehouses; one may be asked for.
Answering(scope, pool) == pool.warehouse /\ pool.hasId /\ scope.only \in {"", pool.name}
StandalonePools(scope) ==
  LET listed == {i \in DOMAIN scope.pools : Answering(scope, scope.pools[i])}
      turns == CHOOSE q \in [1..Cardinality(listed) -> listed] : \A i, j \in DOMAIN q : i < j => q[i] < q[j]
  IN [k \in DOMAIN turns |-> scope.pools[turns[k]]]
ListedPools(scope) == IF scope.standalone THEN StandalonePools(scope) ELSE scope.pools

-----------------------------------------------------------------------------
\* build_series: the least, greatest and average value and the 95th percentile,
\* interpolated between two values; the latter two in hundredths.

WithValue(points) == {i \in DOMAIN points : points[i].value # NoValue}
ValuesOf(points) == [i \in WithValue(points) |-> points[i].value]
Atmost(values, v) == {i \in DOMAIN values : values[i] <= v}
Below(values, v) == {i \in DOMAIN values : values[i] < v}
\* The value that is k-th when they are sorted.
Ranked(values, k) ==
  CHOOSE v \in Range(values) : Cardinality(Below(values, v)) < k /\ k <= Cardinality(Atmost(values, v))
P95(values) ==
  LET count == Cardinality(DOMAIN values)
      rank == 95 * (count - 1)
      lower == 1 + rank \div 100
      over == rank % 100
  IN IF count = 1 THEN 100 * Ranked(values, 1)
     ELSE (100 - over) * Ranked(values, lower) + over * Ranked(values, lower + 1)
SumOfAll(values) == MapThenSumSet(LAMBDA i : values[i], DOMAIN values)
Summary(points) ==
  LET values == ValuesOf(points)
  IN IF DOMAIN values = {} THEN [min |-> NoValue, max |-> NoValue, avg |-> NoValue, p95 |-> NoValue]
     ELSE [min |-> Min(Range(values)), max |-> Max(Range(values)),
           avg |-> (100 * SumOfAll(values)) \div Cardinality(DOMAIN values), p95 |-> P95(values)]
BuildSeries(pool, metric, points) ==
  [pool |-> pool, metric |-> metric, points |-> points, summary |-> Summary(points)]

-----------------------------------------------------------------------------
\* derive_dwu_days. Times are in minutes; an interval the table does not name
\* counts as an hour; the last of two points of one time stands; a time without
\* a limit counts no DWU. DWU are in hundredths.

KnownIntervals == [PT1M |-> 1, PT5M |-> 5, PT15M |-> 15, PT30M |-> 30, PT1H |-> 60, PT6H |-> 360, P1D |-> 1440]
Minutes(interval) == IF interval \in DOMAIN KnownIntervals THEN KnownIntervals[interval] ELSE 60

\* time |-> value, of one metric of a pool: the report has one series of it.
ByTime(points) ==
  [t \in {points[i].at : i \in WithValue(points)} |-> points[Max({i \in WithValue(points) : points[i].at = t})].value]
Indexed(all, pool, metric) ==
  LET of == {s \in all : s.pool = pool /\ s.metric = metric}
  IN ByTime(IF of = {} THEN <<>> ELSE (CHOOSE s \in of : TRUE).points)

DayIn(time) == time \div MonDay
DwuAt(used, limit, time) == (IF time \in DOMAIN limit THEN limit[time] ELSE 0) * used[time]

DwuDay(pool, day, used, limit, minutes) ==
  LET times == {t \in DOMAIN used : DayIn(t) = day}
      active == {t \in times : used[t] > Threshold}
  IN [pool |-> pool, day |-> day,
      activeMinutes |-> minutes * Cardinality(active),
      dwuMinutes |-> minutes * SumOfAll([t \in active |-> DwuAt(used, limit, t)]),
      peakDwu |-> Max({0} \cup {DwuAt(used, limit, t) : t \in active}),
      peakPct |-> Max({used[t] : t \in times})]
DaysOf(all, pool, minutes) ==
  LET used == Indexed(all, pool, "DWUUsedPercent")
      limit == Indexed(all, pool, "DWULimit")
  IN {DwuDay(pool, day, used, limit, minutes) : day \in {DayIn(t) : t \in DOMAIN used}}
DeriveDwuDays(all, interval) == UNION {DaysOf(all, pool, Minutes(interval)) : pool \in {s.pool : s \in all}}

-----------------------------------------------------------------------------
\* Workers take the pools in order; each asks for all metrics of its pool.

WorkersOf(list) == Min({Len(list), Max({1, MonWorkers})})
Asking == {i \in DOMAIN asking : asking[i].phase = "asking"}
Listed(i) == poolList[i]
Supported(i) == MetricsOf(monScope) \ Listed(i).unknown
\* A request made, or none.
Turn(i, phase, names, made) ==
  /\ asking' = [asking EXCEPT ![i] = [phase |-> phase, names |-> names, requests |-> asking[i].requests + made]]
  /\ UNCHANGED <<monScope, poolList, series, dwuDays, monErrors, monStage>>

ListPools ==
  /\ monStage = "list"
  /\ poolList' = ListedPools(monScope)
  /\ asking' = [i \in DOMAIN poolList' |-> [phase |-> "queued", names |-> MetricsOf(monScope), requests |-> 0]]
  /\ monStage' = "fetch"
  /\ UNCHANGED <<monScope, series, dwuDays, monErrors, monFailures>>

\* Without a list of pools the report is empty and says so.
ListingFails ==
  /\ monStage = "list" /\ monFailures < MonMaxFailures
  /\ monFailures' = monFailures + 1
  /\ monErrors' = {<<"list_dedicated_pools">>} /\ monStage' = "done"
  /\ UNCHANGED <<monScope, poolList, asking, series, dwuDays>>

TakeMonitored(i) ==
  /\ monStage = "fetch" /\ asking[i].phase = "queued"
  /\ Cardinality(Asking) < WorkersOf(poolList)
  /\ \A j \in 1..(i - 1) : asking[j].phase # "queued"
  /\ Turn(i, "asking", asking[i].names, 0) /\ UNCHANGED monFailures

\* Mutant: the request is repeated as it was.
AskAgain(names, metric) == names
WithoutMetric(names, metric) == names \ {metric}

\* The whole request is refused for one metric: it is asked again without it,
\* as often as there were metrics and once more.
RequestRejected(i) ==
  /\ i \in Asking /\ asking[i].names # {} /\ asking[i].requests <= Cardinality(MetricsOf(monScope))
  /\ \E m \in asking[i].names \ Supported(i) :
       Turn(i, "asking", WithoutMetric(asking[i].names, m), 1)
  /\ UNCHANGED monFailures

\* Any other error ends the pool: it is a refusal that names none of the metrics
\* asked for, or no refusal at all.
RequestFails(i) ==
  /\ i \in Asking /\ asking[i].names # {} /\ monFailures < MonMaxFailures
  /\ monFailures' = monFailures + 1
  /\ Turn(i, "failed", asking[i].names, 1)

RequestAnswered(i) ==
  /\ i \in Asking /\ asking[i].names # {} /\ asking[i].names \subseteq Supported(i)
  /\ Turn(i, "got", asking[i].names, 1) /\ UNCHANGED monFailures

\* Nothing left to ask for, or no attempt left.
NothingAnswered(i) ==
  /\ i \in Asking /\ (asking[i].names = {} \/ asking[i].requests > Cardinality(MetricsOf(monScope)))
  /\ Turn(i, "got", {}, 0) /\ UNCHANGED monFailures

PointsOf(pool, metric) == IF metric \in DOMAIN pool.points THEN pool.points[metric] ELSE <<>>
SeriesOf(i) ==
  {BuildSeries(Listed(i).name, DisplayName(monScope, m), PointsOf(Listed(i), m)) : m \in asking[i].names}

SeriesAnswered == UNION {SeriesOf(i) : i \in {j \in DOMAIN asking : asking[j].phase = "got"}}
NotMeasured == {<<"metrics", Listed(i).name>> : i \in {j \in DOMAIN asking : asking[j].phase = "failed"}}

\* When every pool has its answer the report is made of them.
MonitoringReport ==
  /\ monStage = "fetch" /\ \A i \in DOMAIN asking : asking[i].phase \in {"got", "failed"}
  /\ series' = SeriesAnswered /\ monErrors' = NotMeasured
  /\ dwuDays' = DeriveDwuDays(SeriesAnswered, monScope.interval)
  /\ monStage' = "done"
  /\ UNCHANGED <<monScope, poolList, asking, monFailures>>

MonitoringInit ==
  /\ monScope \in MonScopes /\ poolList = <<>> /\ asking = <<>> /\ series = {} /\ dwuDays = {}
  /\ monErrors = {} /\ monStage = "list" /\ monFailures = 0
MonitoringNext ==
  \/ ListPools \/ ListingFails \/ MonitoringReport
  \/ \E i \in DOMAIN asking :
       \/ TakeMonitored(i) \/ RequestRejected(i) \/ RequestFails(i) \/ RequestAnswered(i) \/ NothingAnswered(i)

-----------------------------------------------------------------------------
RawUsed(scope) == IF scope.standalone THEN "dwu_consumption_percent" ELSE "DWUUsedPercent"
RawLimit(scope) == IF scope.standalone THEN "dwu_limit" ELSE "DWULimit"
MeasuredAt(pool, metric) == {p.at : p \in {q \in Range(PointsOf(pool, metric)) : q.value # NoValue}}

\* Of every pool listed the report has an error, or each metric the provider
\* knows under the name of a workspace: a metric it refuses takes no other with
\* it, and takes one request.
PoolsAccounted ==
  \A i \in DOMAIN poolList :
    /\ asking[i].requests <= Cardinality(MetricsOf(monScope))
    /\ <<"metrics", Listed(i).name>> \in monErrors <=> asking[i].phase = "failed"
    /\ asking[i].phase = "failed" => \A s \in series : s.pool # Listed(i).name
    /\ asking[i].phase = "got" => asking[i].names = Supported(i)

\* Workspace and server alike, a pool has a row for each day its use was measured
\* on, whose DWU do not exceed what its limit and hours allow.
UsedTimes(i) == IF RawUsed(monScope) \in Supported(i) THEN MeasuredAt(Listed(i), RawUsed(monScope)) ELSE {}
LimitsHeld(i) ==
  {0} \cup {p.value : p \in IF RawLimit(monScope) \in Supported(i) THEN Range(PointsOf(Listed(i), RawLimit(monScope))) ELSE {}}
RowsHeld(i) == {d \in dwuDays : d.pool = Listed(i).name}
PoolMeasured(i) ==
  LET used == UsedTimes(i)
      limits == LimitsHeld(i)
      rows == RowsHeld(i)
  IN /\ {d.day : d \in rows} = {DayIn(t) : t \in used} /\ Cardinality(rows) = Cardinality({d.day : d \in rows})
     /\ \A d \in rows :
          /\ d.activeMinutes <= Minutes(monScope.interval) * Cardinality({t \in used : DayIn(t) = d.day})
          /\ d.dwuMinutes <= d.activeMinutes * d.peakDwu /\ d.peakDwu <= Max(limits) * d.peakPct
          /\ (d.activeMinutes > 0 <=> d.peakPct > Threshold)
DaysMeasured == \A i \in DOMAIN poolList : asking[i].phase = "got" => PoolMeasured(i)

\* The 95th percentile lies among the values, and few of them lie above it.
PercentilesTrue ==
  \A s \in series : LET values == ValuesOf(s.points) IN
    DOMAIN values # {} =>
      /\ s.summary.p95 \in (100 * s.summary.min)..(100 * s.summary.max)
      /\ 100 * Cardinality({i \in DOMAIN values : 100 * values[i] > s.summary.p95}) < 5 * (Cardinality(DOMAIN values) - 1) + 100

\* What monitoring reports of the pools, once it is done: nothing the service
\* refused, failed or called by another name is missing without an error, or
\* measured otherwise.
MetricsFaithful == monStage = "done" => PoolsAccounted /\ DaysMeasured /\ PercentilesTrue
=============================================================================
