---------------------------- MODULE FabricMapping ----------------------------
(***************************************************************************)
(* FabricMappingAnalyzer.run: the artefacts of the other modules are read  *)
(* one after another, each adds its recommendations, and the readiness     *)
(* score, the runbook, the capacity projection and the effort estimate are *)
(* built on them (modules/fabric_mapping, effort).  A workspace is a       *)
(* function from module names to artefacts.  Hours are in hundredths,      *)
(* which is what the code rounds to.                                       *)
(***************************************************************************)
EXTENDS MappingRules

CONSTANTS Workspaces,      \* [module -> artefact], as the analyzers write them
          Cards,           \* rate cards
          MaxUnreadable    \* artefacts that are torn, or of a version the rules do not know

InputOrder == <<"dedicated_pools", "serverless_pools", "spark_pools", "pipelines", "monitoring", "storage",
                "databricks_workflows", "bigquery_workloads", "snowflake_workloads">>
InputModules == ToSet(InputOrder)

VARIABLES artefacts,       \* module -> artefact, those that exist
          torn,            \* modules whose file cannot be parsed
          card,            \* the rate card of the run
          nextInput,       \* index into InputOrder
          inputs,          \* module -> note, those that were found
          recommendations, readiness, runbook, projection, effortSummary, fmStage
fmVars == <<artefacts, torn, card, nextInput, inputs, recommendations, readiness, runbook, projection, effortSummary, fmStage>>

RulesFor(m, a) ==
  CASE m = "dedicated_pools" -> RulesForDedicatedPools(a)
    [] m = "serverless_pools" -> RulesForServerless(a)
    [] m = "spark_pools" -> RulesForSpark(a)
    [] m = "pipelines" -> RulesForPipelines(a)
    [] m = "monitoring" -> RulesForMonitoring(a.series)
    [] m = "storage" -> RulesForStorage(a)
    [] m = "databricks_workflows" -> RulesForDatabricks(a) \cup WarehouseRecs(a.mappings)
    [] m = "bigquery_workloads" -> RulesForBigQuery(a)
    [] m = "snowflake_workloads" -> RulesForSnowflake(a)

\* What the analyzers write: lists are finite, counts and hours are not negative,
\* a construct has its severity, and the consumed objects of a pool are summed up
\* by object (top_consumed_objects.py).
Counted(a, lists) == \A l \in lists : a[l] \in Nat
Severities == {"blocker", "warning", "info"}

PoolArtefact(p) ==
  /\ IsFiniteSet(p.tables) /\ IsFiniteSet(p.code) /\ IsFiniteSet(DOMAIN p.candidates) /\ IsFiniteSet(DOMAIN p.consumed)
  /\ \A o \in p.code : IsFiniteSet(o.findings) /\ o.findings \subseteq DOMAIN TsqlSeverity
  /\ DOMAIN p.consumed \subseteq Nat /\ \A i \in DOMAIN p.consumed : p.consumed[i].elapsed \in Nat
  /\ \A i, j \in DOMAIN p.consumed :
       p.consumed[i].schema = p.consumed[j].schema /\ p.consumed[i].name = p.consumed[j].name => i = j

SparkWindows(windows) ==
  /\ DOMAIN windows \subseteq Nat \ {0}
  /\ \A d \in DOMAIN windows : /\ windows[d].cu \in Nat /\ windows[d].unknown \in Nat \cup {NotGiven}
                             /\ windows[d].averages \in BOOLEAN

PipelineWindows(windows) ==
  /\ DOMAIN windows \subseteq Nat \ {0}
  /\ \A d \in DOMAIN windows : Counted(windows[d], {"diu", "vcore", "orchestration"}) /\ windows[d].peak \in Nat \cup {NotGiven}

Measured(m) == /\ IsFiniteSet(DOMAIN m.limit) /\ \A t \in DOMAIN m.limit : m.limit[t] \in Nat
               /\ \A t \in DOMAIN m.used : m.used[t] \in Nat \cup {NotGiven}

ArtefactOf(m, a) ==
  /\ m = "dedicated_pools" => IsFiniteSet(a.pools) /\ \A p \in a.pools : PoolArtefact(p)
  /\ m = "serverless_pools" => Counted(a, {"external_tables", "queries"}) /\ IsFiniteSet(a.daily_usage) /\ a.daily_usage \subseteq Int
  /\ m = "spark_pools" =>
       /\ Counted(a, {"pools", "notebooks"}) /\ IsFiniteSet(a.lint) /\ {f.severity : f \in a.lint} \subseteq Severities
       /\ IsFiniteSet(a.accounting.groups) /\ a.accounting.legacy \in BOOLEAN
       /\ \A g \in a.accounting.groups : SparkWindows(g.windows)
  /\ m = "pipelines" =>
       /\ Counted(a, {"pipelines", "linked_services", "triggers", "integration_runtimes"})
       /\ IsFiniteSet(a.activities) /\ IsFiniteSet(a.unsupported_services) /\ IsFiniteSet(a.run_history)
       /\ IsFiniteSet(a.expressions) /\ {f.severity : f \in a.expressions} \subseteq Severities
       /\ \A p \in a.run_history : PipelineWindows(p.windows)
  /\ m = "monitoring" => IsFiniteSet(DOMAIN a.series) /\ \A p \in DOMAIN a.series : Measured(a.series[p])
  /\ m = "storage" => IsFiniteSet(a.pool_storage)
  /\ m = "databricks_workflows" => IsFiniteSet(a.tasks) /\ IsFiniteSet(a.mappings)
  /\ m = "bigquery_workloads" => IsFiniteSet(a.tables) /\ IsFiniteSet(a.jobs)
  /\ m = "snowflake_workloads" => IsFiniteSet(a.tables)

\* A card whose hours are not negative.
CardOf(c) ==
  /\ c.team_velocity \in Int /\ c.p50_to_p90_multiplier \in Nat
  /\ \A e \in {"low", "medium", "high"} : c.qualitative[e] \in Nat
  /\ \A f \in DOMAIN c.phases : c.phases[f] \in Nat
  /\ \A a \in DOMAIN c.rules : IsFiniteSet(DOMAIN c.rules[a]) /\ \A u \in DOMAIN c.rules[a] : c.rules[a][u] \in Nat

ASSUME MappingAssumption ==
  /\ \A w \in Workspaces : DOMAIN w \subseteq InputModules /\ \A m \in DOMAIN w : ArtefactOf(m, w[m])
  /\ \A c \in Cards : CardOf(c)

\* Artefacts whose file was parsed: the later steps read them too.
Parsed == {m \in DOMAIN inputs : inputs[m] # "load error"}

-----------------------------------------------------------------------------
\* The readiness score.
CountSeverity(recs, severity) == Cardinality({r \in recs : r.severity = severity})

Score(recs) ==
  Max({0, 100 - Min({10 * CountSeverity(recs, "blocker"), 60}) - Min({2 * CountSeverity(recs, "warning"), 30})})

Bucket(score) == CASE score >= 80 -> "ready" [] score >= 50 /\ score < 80 -> "ready-with-effort" [] OTHER -> "blocked"

SeverityRank == [blocker |-> 3, warning |-> 2, info |-> 1]
EffortRank == [high |-> 3, medium |-> 2, low |-> 1]

\* Those that may be among the five first; which of equal ones are, is left out.
TopBlockers(recs) ==
  LET above(q, r) == \/ SeverityRank[q.severity] > SeverityRank[r.severity]
                     \/ q.severity = r.severity /\ EffortRank[q.effort] > EffortRank[r.effort]
  IN  {r \in recs : Cardinality({q \in recs : above(q, r)}) < 5}

\* tsql is filled in by the caller.
ScoreRecommendations(recs, tsql) ==
  [score |-> Score(recs), bucket |-> Bucket(Score(recs)), top |-> TopBlockers(recs), tsql |-> tsql]

\* The code objects of every pool, by how Fabric takes them.
TsqlRollup(pools) ==
  LET with(c) == SumOf([p \in pools |-> Cardinality({o \in p.code : o.compatibility = c})])
      total == SumOf([p \in pools |-> Cardinality(p.code)])
  IN  IF total = 0 THEN <<>>
      ELSE [total |-> total, incompatible |-> with("incompatible"), needs_review |-> with("needs_review"),
            permille |-> (2000 * with("compatible") + total) \div (2 * total)]

-----------------------------------------------------------------------------
\* The runbook.
Phases == <<"foundation", "data_plane_prep", "ingest_shortcuts", "compute_migration", "orchestration_migration", "verification">>

AreasOfPhase ==
  [foundation |-> {"monitoring.dwu", "monitoring.connections", "pipelines.integration_runtimes", "storage.dedicated_pool"},
   ingest_shortcuts |-> {"serverless_pools.external_tables", "serverless_pools.cost", "serverless_pools.queries",
                         "serverless_pools.cost_attribution", "storage.accounts"},
   compute_migration |-> {"spark_pools.runtime", "spark_pools.notebooks", "spark_pools.lint", "spark_pools.libraries",
                          "databricks_workflows.clusters"},
   orchestration_migration |-> {"pipelines.activities", "pipelines.linked_services", "pipelines.triggers",
                                "pipelines.expressions", "databricks_workflows", "databricks_workflows.tasks"}]

AreaToPhase == [a \in UNION {AreasOfPhase[f] : f \in DOMAIN AreasOfPhase} |->
                  CHOOSE f \in DOMAIN AreasOfPhase : a \in AreasOfPhase[f]]

\* An area the table does not name is prepared with the data plane.
PhaseForArea(area) == IF area \in DOMAIN AreaToPhase THEN AreaToPhase[area] ELSE "data_plane_prep"

PhaseRank(phase) == CHOOSE i \in DOMAIN Phases : Phases[i] = phase

\* Phase by phase, within a phase the severe first; equal ones come by id, which
\* is left out.
Precedes(q, r) ==
  LET phase(x) == PhaseRank(PhaseForArea(x.area))
  IN  \/ phase(q) < phase(r)
      \/ phase(q) = phase(r) /\ SeverityRank[q.severity] > SeverityRank[r.severity]

Verification == [rec |-> Rec("verification", <<>>, "none", "info", "low", "unknown"), phase |-> "verification"]

\* A step for every recommendation, and the verification; `first` is the
\* earliest place among its equals.
BuildRunbook(recs) ==
  {[rec |-> r, phase |-> PhaseForArea(r.area), first |-> 1 + Cardinality({q \in recs : Precedes(q, r)})] : r \in recs}
  \cup {[rec |-> Verification.rec, phase |-> "verification", first |-> Cardinality(recs) + 1]}

-----------------------------------------------------------------------------
\* The effort estimate.
CountOf(m, list) == IF m \in Parsed THEN artefacts[m][list] ELSE 0

Counts ==
  [hours_per_table |-> IF "dedicated_pools" \in Parsed
                       THEN SumOf([p \in artefacts["dedicated_pools"].pools |-> Cardinality(p.tables)]) ELSE 0,
   hours_per_notebook |-> CountOf("spark_pools", "notebooks"), hours_per_pool |-> CountOf("spark_pools", "pools"),
   hours_per_pipeline |-> CountOf("pipelines", "pipelines"), hours_per_linked_service |-> CountOf("pipelines", "linked_services"),
   hours_per_trigger |-> CountOf("pipelines", "triggers"), hours_per_runtime |-> CountOf("pipelines", "integration_runtimes"),
   hours_per_external_table |-> CountOf("serverless_pools", "external_tables"), hours_per_query |-> CountOf("serverless_pools", "queries")]

PerBlocker == {"hours_per_blocker", "hours_per_blocker_activity", "hours_per_expression_blocker"}

\* How often a coefficient counts: by what the artefacts hold, by severity, or
\* once for each recommendation, the units nobody knows too.
UnitCount(unit, recs) ==
  CASE unit \in DOMAIN Counts -> Counts[unit]
    [] unit \in PerBlocker -> CountSeverity(recs, "blocker")
    [] unit = "hours_per_warning" -> CountSeverity(recs, "warning")
    [] OTHER -> Cardinality(recs)

InArea(area) == {r \in recommendations : r.area = area}

\* Gross hours of an area, never more than its cap.
AreaTotal(area) ==
  IF area \notin DOMAIN card.rules THEN 0
  ELSE LET rule == card.rules[area]
           units == {u \in DOMAIN rule \ {"cap_hours"} : rule[u] > 0}
           gross == SumOf([u \in units |-> UnitCount(u, InArea(area)) * rule[u]])
       IN  IF "cap_hours" \in DOMAIN rule THEN Min({gross, rule.cap_hours}) ELSE gross

\* The recommendation a step is looked up with: the ids are the keys.
AreaOfStep(step) == IF step.phase = "verification" THEN "none" ELSE step.rec.area

\* Mutant: a step is counted once for all that share its id.
StepsInAreaById(area) == Cardinality({s.rec.id : s \in {s \in runbook : AreaOfStep(s) = area}})

StepsInArea(area) == Cardinality({s \in runbook : AreaOfStep(s) = area})

StepsInPhase(phase) == Cardinality({s \in runbook : s.phase = phase})

\* A card given by the user is laid over the default one: numbers and whole maps
\* are replaced, the entries of these three key by key, of a rule unit by unit.
MergeWithDefault(default, overrides) ==
  [k \in DOMAIN default \cup DOMAIN overrides |->
     CASE k \notin DOMAIN overrides -> default[k]
       [] k \in DOMAIN overrides /\ k = "rules" ->
            [a \in DOMAIN default.rules \cup DOMAIN overrides.rules |->
               (IF a \in DOMAIN overrides.rules THEN overrides.rules[a] ELSE <<>>)
               @@ (IF a \in DOMAIN default.rules THEN default.rules[a] ELSE <<>>)]
       [] k \in DOMAIN overrides /\ k \in {"phases", "qualitative"} -> overrides[k] @@ default[k]
       [] k \in DOMAIN overrides /\ k \notin {"rules", "phases", "qualitative"} -> overrides[k]]

BaseHours(phase) == IF phase \in DOMAIN card.phases THEN card.phases[phase] ELSE 0

\* An even share of the area's hours and of the phase's base; a step that gets
\* nothing of either has the hours of its label.  A fraction.
StepShare(step) ==
  LET area == AreaOfStep(step)
      hours == IF area = "none" THEN 0 ELSE AreaTotal(area)
      siblings == Max({1, StepsInArea(area)})
      peers == StepsInPhase(step.phase)
      top == hours * peers + BaseHours(step.phase) * siblings
  IN  IF top > 0 THEN [top |-> top, bottom |-> siblings * peers]
      ELSE [top |-> card.qualitative[step.rec.effort], bottom |-> 1]

Rounded(top, bottom) == (2 * top + bottom) \div (2 * bottom)

\* Velocity and the factor from P50 to P90 are in tenths; no velocity counts as one.
Velocity == IF card.team_velocity > 0 THEN card.team_velocity ELSE 10

Estimate(step) ==
  LET share == StepShare(step)
  IN  [step |-> step, p50 |-> Rounded(10 * share.top, share.bottom * Velocity),
       p90 |-> Rounded(share.top * card.p50_to_p90_multiplier, share.bottom * Velocity)]

ParallelWorkers == 2

Hours(items, field) == SumOf([x \in items |-> x[field]])

PhaseRollup(phase, estimates) ==
  LET own == {e \in estimates : e.step.phase = phase}
      max50 == Max({e.p50 : e \in own})
      max90 == Max({e.p90 : e \in own})
  IN  [phase |-> phase, p50 |-> Hours(own, "p50"), p90 |-> Hours(own, "p90"), steps |-> Cardinality(own),
       max50 |-> max50, max90 |-> max90, parallel50 |-> Max({max50, Rounded(Hours(own, "p50"), ParallelWorkers)}),
       parallel90 |-> Max({max90, Rounded(Hours(own, "p90"), ParallelWorkers)})]

\* Days of eight hours with fifteen percent on top, rounded up.
DaysFromHours(hours) == (hours * 115 + 79999) \div 80000

BuildRollup(estimates) ==
  LET phases == {PhaseRollup(f, estimates) : f \in {e.step.phase : e \in estimates}}
  IN  [p50 |-> Hours(phases, "p50"), p90 |-> Hours(phases, "p90"), phases |-> phases,
       parallel50 |-> Hours(phases, "parallel50"), parallel90 |-> Hours(phases, "parallel90"),
       days50 |-> DaysFromHours(Hours(phases, "p50")), days90 |-> DaysFromHours(Hours(phases, "p90"))]

-----------------------------------------------------------------------------
NoReport == <<>>

MappingInit ==
  /\ \E w \in Workspaces : \E gone \in SUBSET DOMAIN w :
       /\ Cardinality(gone) <= 1
       /\ artefacts = [m \in DOMAIN w \ gone |-> w[m]]
  /\ torn \in {t \in SUBSET DOMAIN artefacts : Cardinality(t) <= MaxUnreadable}
  /\ card \in Cards
  /\ nextInput = 1 /\ inputs = <<>> /\ recommendations = {}
  /\ readiness = NoReport /\ runbook = {} /\ projection = NoReport /\ effortSummary = NoReport
  /\ fmStage = "load"

AfterInput ==
  /\ nextInput' = nextInput + 1
  /\ fmStage' = IF nextInput = Len(InputOrder) THEN "score" ELSE "load"
  /\ UNCHANGED <<artefacts, torn, card, readiness, runbook, projection, effortSummary>>

InputNoted(note) ==
  inputs' = [m \in DOMAIN inputs \cup {InputOrder[nextInput]} |-> IF m \in DOMAIN inputs THEN inputs[m] ELSE note]

SkipMissing ==
  /\ fmStage = "load" /\ InputOrder[nextInput] \notin DOMAIN artefacts
  /\ AfterInput
  /\ UNCHANGED <<inputs, recommendations>>

NoteUnreadable ==
  /\ fmStage = "load" /\ InputOrder[nextInput] \in torn
  /\ AfterInput
  /\ InputNoted("load error")
  /\ UNCHANGED recommendations

ApplyRules ==
  /\ fmStage = "load" /\ InputOrder[nextInput] \in DOMAIN artefacts \ torn
  /\ AfterInput
  /\ InputNoted("none")
  /\ recommendations' = recommendations \cup RulesFor(InputOrder[nextInput], artefacts[InputOrder[nextInput]])

\* Mutant: an artefact whose rules raise is listed as if it were read in full.
RulesRaiseUnsaid ==
  /\ fmStage = "load" /\ InputOrder[nextInput] \in DOMAIN artefacts \ torn
  /\ Cardinality({m \in DOMAIN inputs : inputs[m] # "none"}) < MaxUnreadable
  /\ AfterInput
  /\ InputNoted("none")
  /\ UNCHANGED recommendations

\* The rules raise on an artefact they do not know: it counts as loaded, its
\* recommendations are lost.
RulesRaise ==
  /\ fmStage = "load" /\ InputOrder[nextInput] \in DOMAIN artefacts \ torn
  /\ Cardinality({m \in DOMAIN inputs : inputs[m] # "none"}) < MaxUnreadable
  /\ AfterInput
  /\ InputNoted("rules error")
  /\ UNCHANGED recommendations

ScoreReport ==
  /\ fmStage = "score" /\ fmStage' = "runbook"
  /\ readiness' = ScoreRecommendations(recommendations,
                     IF "dedicated_pools" \in Parsed THEN TsqlRollup(artefacts["dedicated_pools"].pools) ELSE <<>>)
  /\ UNCHANGED <<artefacts, torn, card, nextInput, inputs, recommendations, runbook, projection, effortSummary>>

SequenceRunbook ==
  /\ fmStage = "runbook" /\ fmStage' = "project"
  /\ runbook' = BuildRunbook(recommendations)
  /\ UNCHANGED <<artefacts, torn, card, nextInput, inputs, recommendations, readiness, projection, effortSummary>>

\* The projection reads every artefact that parsed, with or without its rules.
Projected ==
  LET has(m) == m \in Parsed
      sized == Project(IF has("monitoring") THEN DwuUnits(artefacts["monitoring"].series) ELSE 0,
                       IF has("spark_pools") THEN SparkDaily(artefacts["spark_pools"].accounting) ELSE 0,
                       IF has("pipelines") THEN PipelinesPeak(artefacts["pipelines"].run_history) ELSE 0,
                       IF has("serverless_pools") THEN ServerlessPeak(artefacts["serverless_pools"].daily_usage) ELSE 0)
      spark == artefacts["spark_pools"].accounting
  IN  IF sized = NoProjection THEN sized
      ELSE [sized EXCEPT !.warnings = IF has("spark_pools") THEN SparkWarnings(spark) ELSE {},
                         !.sparkPeakDay = IF has("spark_pools") THEN SparkPeakDay(spark) ELSE NotGiven]

ProjectCapacity ==
  /\ fmStage = "project" /\ fmStage' = "estimate"
  /\ projection' = Projected
  /\ UNCHANGED <<artefacts, torn, card, nextInput, inputs, recommendations, readiness, runbook, effortSummary>>

EstimateEffort ==
  /\ fmStage = "estimate" /\ fmStage' = "done"
  /\ effortSummary' = BuildRollup({Estimate(s) : s \in runbook})
  /\ UNCHANGED <<artefacts, torn, card, nextInput, inputs, recommendations, readiness, runbook, projection>>

MappingNext == \/ SkipMissing \/ NoteUnreadable \/ ApplyRules \/ RulesRaise \/ ScoreReport
               \/ SequenceRunbook \/ ProjectCapacity \/ EstimateEffort
MappingSpec == MappingInit /\ [][MappingNext]_fmVars

-----------------------------------------------------------------------------
Reported == fmStage = "done"

\* Whatever was found in the output directory is in the report: each of its
\* recommendations has its step in the runbook, or its module is listed with a
\* note (analyzer.py collects artefacts one by one, each inside a try).
NothingLostSilently ==
  Reported => \A m \in DOMAIN artefacts :
                /\ m \in DOMAIN inputs
                /\ inputs[m] = "none" => RulesFor(m, artefacts[m]) \subseteq {s.rec : s \in runbook}

\* An object that takes at least five percent of a pool's time and uses a
\* construct that is not mere advice stands in the runbook as a blocker, before
\* everything of its phase that is none, and costs the score ten points
\* (rules.py raises the severity of hot objects, runbook.py sorts by it).
HotObjectsLead ==
  Reported /\ "dedicated_pools" \in DOMAIN inputs /\ inputs["dedicated_pools"] = "none" =>
    \A pool \in artefacts["dedicated_pools"].pools : \A o \in pool.code : \A rule \in o.findings :
      /\ \E i \in Mentions(pool, o.schema, o.name) :
           20 * pool.consumed[i].elapsed >= TotalElapsed(pool) /\ pool.consumed[i].elapsed > 0
      /\ TsqlSeverity[rule] # "info"
      => /\ readiness.score <= 90
         /\ \E s \in runbook :
              /\ s.rec.id = <<"dp.tsql", rule, pool.name, "hot", o.id>>
              /\ \A t \in runbook : t.phase = s.phase /\ t.first <= s.first => t.rec.severity = "blocker"

\* The hours of the report are those of the rate card: shared out over the steps
\* they add up again, but for the rounding of each step; P90 is not below P50; and
\* two people need between half of a phase's hours and all of them
\* (estimator.py divides each area and phase among its steps, rollup.py adds up).
EffortAddsUp ==
  Reported =>
    LET areas == {AreaOfStep(s) : s \in runbook} \ {"none"}
        phases == {s.phase : s \in runbook}
        bare == {s \in runbook : BaseHours(s.phase) <= 0 /\ (AreaOfStep(s) = "none" \/ AreaTotal(AreaOfStep(s)) <= 0)}
        hours == SumOf([a \in areas |-> AreaTotal(a)]) + SumOf([f \in phases |-> BaseHours(f)])
                 + SumOf([s \in bare |-> card.qualitative[s.rec.effort]])
        within(x, y) == -Cardinality(runbook) * Velocity <= x - y /\ x - y <= Cardinality(runbook) * Velocity
    IN  /\ within(effortSummary.p50 * Velocity, 10 * hours)
        /\ card.p50_to_p90_multiplier >= 10 => effortSummary.p90 >= effortSummary.p50
        /\ \A f \in effortSummary.phases : /\ f.max50 <= f.parallel50 /\ f.parallel50 <= f.p50 /\ f.p50 <= 2 * f.parallel50
                                     /\ f.steps = Cardinality({s \in runbook : s.phase = f.phase})
        /\ Cardinality(runbook) = Hours(effortSummary.phases, "steps")

\* The SKU the report names holds the estimate, unless there is none so large;
\* its parts add up to it; and Spark whose consumption is not fully known is never
\* part of it, and its absence is said once it comes to a hundredth of a CU-hour a
\* day (cu_projection.py: the headroom is on the total, incomplete Spark
\* accounting is excluded and said so).
ProjectionHonest ==
  Reported /\ projection # NoProjection =>
    /\ projection.sku * PerCU * 10 >= projection.estimated \/ projection.sku = LargestSku
    /\ projection.dwu + projection.spark + projection.pipelines + projection.serverless = projection.estimated
    /\ "spark_pools" \in Parsed /\ artefacts["spark_pools"].accounting.groups # {} =>
         LET spark == artefacts["spark_pools"].accounting
             apart == CommonWindows(spark) = {}
             whole == ~apart /\ \A s \in SelectedWindows(spark) : s.window.unknown = 0
         IN  /\ projection.spark > 0 => spark.complete # "no" /\ (whole \/ spark.legacy)
             /\ ~apart /\ projection.spark = 0 /\ (\E s \in SelectedWindows(spark) : s.window.cu >= SparkWindow(spark))
                => projection.warnings \cap {"incomplete", "excluded", "unknown consumption"} # {}
             /\ apart => "no common window" \in projection.warnings

\* The runbook and its hours account for everything that was found
\* (FabricMappingAnalyzer.run).
ReportHonest == NothingLostSilently /\ HotObjectsLead /\ EffortAddsUp
==============================================================================
