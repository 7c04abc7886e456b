------------------------- MODULE CapacityProjection -------------------------
(***************************************************************************)
(* The Fabric capacity a workspace would need: project_capacity of         *)
(* modules/fabric_mapping/cu_projection.py, over the artefacts of the      *)
(* monitoring, Spark, pipelines and serverless modules.                    *)
(*                                                                         *)
(* Everything is a whole number of units, PerCU of them to one CU: a DWU   *)
(* is 0.02 CU, and a hundredth of a CU-hour spread over the 24 hours of a  *)
(* day is 1/2400 CU.  CU-hours are given in hundredths.  A projection is   *)
(* in tenths of a unit, because of the headroom of 30 %.                   *)
(***************************************************************************)
EXTENDS Integers, SequencesExt, FiniteSets, FiniteSetsExt

\* The sum of the values of a function.
SumOf(f) == MapThenSumSet(LAMBDA x : f[x], DOMAIN f)

PerCU == 2400
PerDWU == 48
HeadroomTenths == 13
\* a number an artefact leaves out
NotGiven == -1

SkuTable == <<2, 4, 8, 16, 32, 64, 128, 256, 512, 1024, 2048>>
LargestSku == SkuTable[Len(SkuTable)]

\* units are tenths.
SmallestSkuCovering(units) ==
  LET covering == {s \in ToSet(SkuTable) : s * PerCU * 10 >= units}
  IN  IF covering = {} THEN LargestSku ELSE Min(covering)

\* series: pool -> [limit |-> [timestamp -> DWU], used |-> [timestamp -> percent]];
\* only timestamps that both metrics have a value for count.
PeakDwu(series) ==
  Max({0} \cup UNION {{(series[p].limit[ts] * series[p].used[ts]) \div 100 :
                         ts \in {ts \in DOMAIN series[p].limit \cap DOMAIN series[p].used : series[p].used[ts] # NotGiven}}
                      : p \in DOMAIN series})

\* The windows every Spark group has; the seven-day one is preferred.
CommonWindows(spark) ==
  {d \in UNION {DOMAIN g.windows : g \in spark.groups} : \A g \in spark.groups : d \in DOMAIN g.windows}

SparkWindow(spark) == IF 7 \in CommonWindows(spark) THEN 7 ELSE Min(CommonWindows(spark))

SelectedWindows(spark) == {[group |-> g.group, window |-> g.windows[SparkWindow(spark)]] : g \in spark.groups}

\* An artefact from before the accounting (legacy) is taken as it is unless it
\* says it is incomplete or has runs of unknown consumption.
SparkUnavailable(spark) ==
  \/ spark.complete = "no"
  \/ \E s \in SelectedWindows(spark) : s.window.unknown > 0
  \/ /\ ~spark.legacy
     /\ \/ spark.complete # "yes"
        \/ \E s \in SelectedWindows(spark) : s.window.unknown = NotGiven \/ ~s.window.averages

SparkWarnings(spark) ==
  (CASE spark.complete = "no" -> {"incomplete"} [] spark.complete = "unknown" -> {"coverage unknown"} [] OTHER -> {})
  \cup {"equivalent resource-time"}
  \cup (IF spark.groups = {} THEN {}
        ELSE IF CommonWindows(spark) = {} THEN {"no common window"}
        ELSE (IF \E s \in SelectedWindows(spark) : s.window.unknown > 0 THEN {"unknown consumption"} ELSE {})
             \cup (IF \E s \in SelectedWindows(spark) : ~s.window.verified THEN {"unverified"} ELSE {})
             \cup (IF ~spark.legacy /\ SparkUnavailable(spark) THEN {"excluded"} ELSE {}))

\* CU-hours per day, averaged over the window the groups share.
SparkDaily(spark) ==
  IF spark.groups = {} \/ CommonWindows(spark) = {} THEN 0
  ELSE IF SparkUnavailable(spark) THEN 0
  ELSE SumOf([s \in SelectedWindows(spark) |-> s.window.cu]) \div SparkWindow(spark)

\* The worst day among the dated totals of that window: a diagnostic, never a size.
SparkPeakDay(spark) ==
  IF spark.groups = {} \/ CommonWindows(spark) = {} \/ SparkUnavailable(spark) \/ spark.end = NotGiven THEN NotGiven
  ELSE LET within == {r \in spark.daily : spark.end - SparkWindow(spark) <= r.day /\ r.day < spark.end}
       IN  Max({0} \cup {MapThenSumSet(LAMBDA r : r.cu, {r \in within : r.day = d}) : d \in {r.day : r \in within}})

\* A pipeline's window of seven days, or the first (narrowest) it has; its worst
\* day, or an estimate of it from the totals.  The largest of the pipelines is taken.
PipelinePeak(entry) ==
  LET days == IF 7 \in DOMAIN entry.windows THEN 7 ELSE Min(DOMAIN entry.windows)
      w == entry.windows[days]
      total == w.diu + w.vcore + w.orchestration
  IN  IF w.peak # NotGiven THEN w.peak ELSE (2 * total) \div Max({2, days})

PipelinesPeak(history) == Max({0} \cup {PipelinePeak(p) : p \in {p \in history : DOMAIN p.windows # {}}})

\* 0.02 CU for each 60 GB scanned, over the seconds the queries took.
MbSecondsPerCentiHour == 110592000

ServerlessPeak(days) ==
  Max({0} \cup {d \div MbSecondsPerCentiHour : d \in {d \in days : d > 0}})

NoProjection == [sku |-> 0]

\* Mutant: the headroom is left out of the total the SKU is looked up with.
ProjectWithoutHeadroom(dwu, spark, pipelines, serverless) ==
  LET base == dwu + spark + pipelines + serverless
  IN  IF base <= 0 THEN NoProjection
      ELSE [sku |-> SmallestSkuCovering(base * 10), estimated |-> base * HeadroomTenths,
            dwu |-> dwu * HeadroomTenths, spark |-> spark * HeadroomTenths,
            pipelines |-> pipelines * HeadroomTenths, serverless |-> serverless * HeadroomTenths,
            warnings |-> {}, sparkPeakDay |-> NotGiven]

\* The components share one capacity, so they are added; the headroom is on the
\* total, and the parts are shown with it so that they add up to the estimate.
Project(dwu, spark, pipelines, serverless) ==
  LET base == dwu + spark + pipelines + serverless
  IN  IF base <= 0 THEN NoProjection
      ELSE [sku |-> SmallestSkuCovering(base * HeadroomTenths), estimated |-> base * HeadroomTenths,
            dwu |-> dwu * HeadroomTenths, spark |-> spark * HeadroomTenths,
            pipelines |-> pipelines * HeadroomTenths, serverless |-> serverless * HeadroomTenths,
            warnings |-> {}, sparkPeakDay |-> NotGiven]

DwuUnits(series) == PeakDwu(series) * PerDWU
=============================================================================
