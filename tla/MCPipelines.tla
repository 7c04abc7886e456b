---------------------------- MODULE MCPipelines ----------------------------
EXTENDS PipelineRuns, PipelineInventory

\* Factories: a daily fetch the limit cuts with pipelines it starves, one without a
\* limit in the way, and a single call,
\* and one whose pipelines could not be listed.
ActivityRun(name, type, out, sinks, billed, duration) ==
  [name |-> name, type |-> type, out |-> out, sinks |-> sinks, billed |-> billed, duration |-> duration]
Billed1(unit, duration) == [unit |-> unit, duration |-> duration]
PlCopy == ActivityRun("copy", "Copy", [dataRead |-> 5, dataWritten |-> 3], <<>>,
                      <<Billed1("diuhours", 2), Billed1("corehours", 1)>>, 1)
PlFlow == ActivityRun("flow", "ExecuteDataFlow", [executionDuration |-> 2], <<4, 1>>, <<Billed1("diuhours", -1)>>, 3)
PlCold == ActivityRun("cold", "ExecuteDataFlow", [bytesProcessed |-> 7], <<>>, <<>>, 3)
PlWait == ActivityRun("wait", "Wait", <<>>, <<>>, <<>>, 1)
PlLook == ActivityRun("look", "Lookup", [dataRead |-> -1], <<>>, <<>>, 1)
PipelineRun(id, pipeline, status, start, end, duration, acts) ==
  [id |-> id, pipeline |-> pipeline, status |-> status, start |-> start, end |-> end,
   updated |-> IF end = Unreported THEN start ELSE end, duration |-> duration, acts |-> acts]
Static(pipeline, name, type, cores) == [pipeline |-> pipeline, name |-> name, type |-> type, cores |-> cores]
MCRuns == {PipelineRun(1, "a", "succeeded", 10, 11, 4, <<PlCopy, PlFlow>>),
           PipelineRun(2, "a", "failed", 12, 13, Unreported, <<PlCold, PlWait, PlWait>>),
           PipelineRun(3, "b", "in_progress", 14, Unreported, Unreported, <<>>),
           PipelineRun(4, "a", "cancelled", 13, 15, 2, <<>>),
           PipelineRun(5, "c", "succeeded", 8, 9, 1, <<>>),
           PipelineRun(6, "b", "succeeded", 15, 16, 1, <<>>),
           PipelineRun(7, "c", "succeeded", 16, 17, 3, <<PlLook, PlWait>>)}
MCStatic == {Static("a", "copy", "Copy", 0), Static("a", "flow", "ExecuteDataFlow", 4),
             Static("c", "look", "Lookup", 0), Static("c", "wait", "Wait", 0), Static("b", "nb", "SynapseNotebook", 0)}
Factory(byDay, limit, sample, activityRunsOn, backfill, perPipeline) ==
  [pipelines |-> <<"a", "b", "c">>, activities |-> MCStatic, runs |-> MCRuns, daily |-> byDay, days |-> 2,
   limit |-> limit, sample |-> sample, activityRuns |-> activityRunsOn, dailyBackfill |-> backfill,
   perPipeline |-> perPipeline]
MCFactories == {Factory(TRUE, 2, 1, TRUE, TRUE, 1), Factory(TRUE, 8, 0, TRUE, TRUE, 2),
                Factory(FALSE, 3, 1, FALSE, TRUE, 2), Factory(FALSE, 9, 2, TRUE, FALSE, 1),
                [Factory(TRUE, 3, 1, TRUE, TRUE, 1) EXCEPT !.pipelines = <<>>, !.activities = {}]}

\* A Synapse workspace that nests activities in containers, and a data factory.
PiActivity(name, type, props, path, expressions) ==
  [name |-> name, type |-> type, props |-> props, path |-> path, dependsOn |-> {}, expressions |-> expressions]
PiActs == {PiActivity("each", "ForEach", [batchCount |-> 60, isSequential |-> FALSE], <<>>, {}),
           PiActivity("copy", "Copy", [parallelCopies |-> 64, enableStaging |-> TRUE], <<"activities">>, {"DataFactory"}),
           PiActivity("case", "ExecuteSSISPackage", <<>>, <<"activities", "cases">>, {}),
           PiActivity("flow", "ExecuteDataFlow", [coreCount |-> 16], <<"if_true_activities">>, {}),
           PiActivity("web", "WebActivity", [msiAuth |-> TRUE], <<"if_false_activities">>, {}),
           PiActivity("hook", "WebHook", [malformed |-> TRUE, msiAuth |-> TRUE], <<"default_activities">>, {})}
PiFlat == {PiActivity("del", "Delete", [recursive |-> TRUE, enableLogging |-> FALSE], <<>>, {}),
           PiActivity("look", "Lookup", [firstRowOnly |-> FALSE], <<>>, {"output[index]"}),
           PiActivity("meta", "GetMetadata", [rareFields |-> TRUE], <<>>, {}),
           PiActivity("call", "ExecutePipeline", [waitOnCompletion |-> FALSE], <<>>, {}),
           PiActivity("note", "SynapseNotebook", [conf |-> TRUE], <<>>, {}),
           PiActivity("proc", "SqlServerStoredProcedure", [storedProcedureParameters |-> TRUE], <<>>, {}),
           PiActivity("job", "SparkJob", [targetBigDataPool |-> TRUE], <<>>, {}),
           PiActivity("script", "Script", [scripts |-> 2], <<>>, {}), PiActivity("none", "", <<>>, <<>>, {}),
           PiActivity("wait", "Wait", <<>>, <<>>, {})}
Trigger(name, type, interval, weekDays, monthDays, malformed) ==
  [name |-> name, type |-> type, interval |-> interval, weekDays |-> weekDays, monthDays |-> monthDays,
   malformed |-> malformed]
PiHolding(kind, malformed) ==
  [kind |-> kind, pipelines |-> {[name |-> "a", activities |-> PiActs], [name |-> "b", activities |-> PiFlat]},
   linked_services |-> {[name |-> "ls1", type |-> "AzureBlobStorage"], [name |-> "ls2", type |-> "Hive"]},
   datasets |-> {"ds"}, integration_runtimes |-> {"ir"},
   triggers |-> <<Trigger("t1", "ScheduleTrigger", 15, {"Monday"}, TRUE, FALSE), Trigger("t2", "Event", 0, {}, FALSE, malformed),
                  Trigger("t3", "TumblingWindowTrigger", 1, {}, FALSE, FALSE), Trigger("t4", "Other", 1, {}, FALSE, FALSE)>>]
MCPiSources == {PiHolding("synapse", FALSE), PiHolding("adf", TRUE)}

\* The report of a factory adds up: its runs once each and its activities all,
\* however listings and pages end.
PipelinesTrue == PipelineHistoryExact /\ InventoryAddsUp

\* The inventory, or the run history, of one analyzer at a time.
PlIdle == /\ factory = Factory(TRUE, 2, 1, TRUE, TRUE, 1) /\ fetched = <<>> /\ nextDay = 0 /\ plTruncated = FALSE
          /\ activityRuns = <<>> /\ awaited = {} /\ dailyStatus = <<>> /\ plErrors = {} /\ plStage = "off"
PiIdle == /\ piSource = PiHolding("adf", TRUE) /\ piErrors = {} /\ piStage = "off"
          /\ inventory = [pipelines |-> {}, activities |-> {}, linked_services |-> {}, datasets |-> {}, triggers |-> <<>>,
                          integration_runtimes |-> {}, findings |-> {}, schedules |-> <<>>]
PipelinesAnalyzerInit == (PipelinesInit /\ PiIdle) \/ (InventoryInit /\ PlIdle)
PipelinesAnalyzerNext == \/ plStage # "off" /\ PipelinesNext /\ UNCHANGED piVars
                         \/ piStage # "off" /\ InventoryNext /\ UNCHANGED plVars
PipelinesSpec == PipelinesAnalyzerInit /\ [][PipelinesAnalyzerNext]_<<plVars, piVars>>
=============================================================================
