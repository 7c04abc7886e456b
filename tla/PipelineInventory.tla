------------------------- MODULE PipelineInventory -------------------------
(***************************************************************************)
(* What the pipelines analyzer lists before the run history: pipelines     *)
(* with their activities, linked services, datasets, triggers and          *)
(* integration runtimes, of a Synapse workspace or a data factory; how far *)
(* Fabric supports each, the scan of expressions, and the Fabric schedule  *)
(* of each trigger.                                                        *)
(***************************************************************************)
EXTENDS Integers, Sequences, FiniteSets, FiniteSetsExt, SequencesExt, TLC

CONSTANTS PiSources,       \* what the service holds, see MCPipelines
          PiMaxFailures    \* bound: listings that fail

ASSUME PipelineInventoryAssumption == PiMaxFailures \in Nat

VARIABLES piSource,   \* what the service holds
          inventory,  \* the lists of PipelinesAnalysis
          piErrors, piStage

piVars == <<piSource, inventory, piErrors, piStage>>

-----------------------------------------------------------------------------
\* How far Fabric supports an activity.

PartialTypes == {"Copy", "WebActivity", "WebHook", "Validation", "Lookup", "GetMetadata", "Filter", "ForEach",
                 "Until", "IfCondition", "Switch", "SetVariable", "AppendVariable", "ExecutePipeline",
                 "SynapseNotebook", "SqlServerStoredProcedure", "SparkJob", "Script", "Delete"}
UnsupportedTypes == {"ExecuteDataFlow", "ExecuteWranglingDataflow", "ExecuteSSISPackage", "Custom", "HDInsightHive",
                     "HDInsightPig", "HDInsightMapReduce", "HDInsightStreaming", "HDInsightSpark",
                     "AzureMLBatchExecution", "AzureMLUpdateResource", "AzureMLExecutePipeline",
                     "DataLakeAnalyticsU-SQL"}
UnsupportedServices == {"AzureMLService", "AzureMLLinkedService", "AzureBatch", "HDInsight", "HDInsightOnDemand",
                        "AzureDataLakeAnalytics", "Cassandra", "Couchbase", "Drill", "Greenplum", "HBase", "Hive",
                        "Impala", "Informix", "MariaDB", "Phoenix", "Presto", "Spark", "Sybase", "Vertica"}

Set(props, key) == key \in DOMAIN props /\ props[key] = TRUE
Above(props, key, limit) == key \in DOMAIN props /\ props[key] > limit
Off(props, key) == key \in DOMAIN props /\ props[key] = FALSE

\* Properties of an activity that earn a caveat. Flags stand for the source, sink
\* and authentication shapes the code looks for.
CopyCaveats(p) ==
  {k \in {"enableStaging", "enableSkipIncompatibleRow", "hdfsSource", "polybaseSink", "polybaseSettings"} : Set(p, k)}
    \cup {k \in {"parallelCopies"} : Above(p, k, 32)} \cup {k \in {"dataIntegrationUnits"} : Above(p, k, 256)}
WebCaveats(p) ==
  {k \in {"certificateAuth", "principalAuth", "msiAuth", "otherMethod", "disableCertValidation"} : Set(p, k)}
LookupCaveats(p) == {k \in {"firstRowOnly"} : Off(p, k)}
MetadataCaveats(p) == {k \in {"rareFields"} : Set(p, k)}
ForEachCaveats(p) ==
  {k \in {"batchCount"} : Above(p, k, 50)}
    \cup {k \in {"isSequential"} : Off(p, k) /\ Above(p, "batchCount", 20)}
ExecutePipelineCaveats(p) == {k \in {"waitOnCompletion"} : Off(p, k)}
NotebookCaveats(p) == {k \in {"sparkPool", "executorSize", "conf"} : Set(p, k)}
ProcedureCaveats(p) == {k \in {"storedProcedureParameters"} : Set(p, k)}
SparkJobCaveats(p) == {k \in {"targetBigDataPool", "targetSparkConfiguration"} : Set(p, k)}
ScriptCaveats(p) == {k \in {"scripts"} : Above(p, k, 1)}
DeleteCaveats(p) == {k \in {"enableLogging", "recursive"} : Set(p, k)}

\* Caveats that cannot be read are none.
InstanceCaveats(type, p) ==
  IF Set(p, "malformed") THEN {}
  ELSE CASE type = "Copy" -> CopyCaveats(p)
         [] type \in {"WebActivity", "WebHook"} -> WebCaveats(p)
         [] type = "Lookup" -> LookupCaveats(p)
         [] type = "GetMetadata" -> MetadataCaveats(p)
         [] type = "ForEach" -> ForEachCaveats(p)
         [] type = "ExecutePipeline" -> ExecutePipelineCaveats(p)
         [] type = "SynapseNotebook" -> NotebookCaveats(p)
         [] type = "SqlServerStoredProcedure" -> ProcedureCaveats(p)
         [] type = "SparkJob" -> SparkJobCaveats(p)
         [] type = "Script" -> ScriptCaveats(p)
         [] type = "Delete" -> DeleteCaveats(p)
         [] OTHER -> {}

\* An activity without a type is unknown, one the table does not know supported.
Tier(type) == IF type = "" THEN "unknown"
              ELSE IF type \in UnsupportedTypes THEN "unsupported"
              ELSE IF type \in PartialTypes THEN "partial" ELSE "supported"

AnalyzeActivity(type, p) ==
  LET known == Tier(type) # "unknown" /\ type \in UnsupportedTypes \cup PartialTypes
      caveats_ == IF known THEN InstanceCaveats(type, p) ELSE {}
  IN [tier |-> IF caveats_ # {} /\ Tier(type) = "supported" THEN "partial" ELSE Tier(type), caveats |-> caveats_]

LinkedServiceSupported(type) == type \notin UnsupportedServices

\* The cores an ExecuteDataFlow declares; an expression is none.
DeclaredCores(a) == IF a.type = "ExecuteDataFlow" /\ "coreCount" \in DOMAIN a.props THEN a.props["coreCount"] ELSE 0

-----------------------------------------------------------------------------
\* An activity as the analysis keeps it: the fields of Activity, and no payload.
ActivityRow(pipeline, a) ==
  LET compat == AnalyzeActivity(a.type, a.props)
  IN [pipeline |-> pipeline, name |-> a.name, type |-> a.type, support |-> compat.tier,
      support_caveats |-> compat.caveats, depends_on |-> a.dependsOn]

ContainerSlots == {"activities", "if_true_activities", "if_false_activities", "default_activities", "cases"}

\* Mutant: the cases of a switch are not walked.
WalkedWithoutCases(p) == {a \in p.activities : a.path = <<>> \/ \A i \in DOMAIN a.path : a.path[i] # "cases"}

\* Synapse: the activities of a pipeline and of every container in them. The path of
\* an activity names the slots it is nested in.
Walked(p) == {a \in p.activities : Range(a.path) \subseteq ContainerSlots}

\* A data factory: only the activities of the pipeline itself.
Adapted(p) == {a \in p.activities : a.path = <<>>}

PipelineRow(p, rows) ==
  [name |-> p.name, activityCount |-> Cardinality(rows), types |-> {r.type : r \in rows} \ {""},
   unsupported |-> Cardinality({r \in rows : r.support = "unsupported"}),
   partial |-> Cardinality({r \in rows : r.support = "partial"})]

\* One list of pipelines, or none if the listing broke anywhere.
ListPipelines(broken) ==
  LET rows(p) == IF piSource.kind = "synapse"
                 THEN {ActivityRow(p.name, a) @@ [cores |-> DeclaredCores(a)] : a \in Walked(p)}
                 ELSE {ActivityRow(p.name, a) @@ [cores |-> 0] : a \in Adapted(p)}
  IN /\ piStage = "pipelines" /\ piStage' = "linked_services"
     /\ inventory' = IF broken THEN inventory
                     ELSE [inventory EXCEPT !.pipelines = {PipelineRow(p, rows(p)) : p \in piSource.pipelines},
                                            !.activities = UNION {rows(p) : p \in piSource.pipelines}]
     /\ piErrors' = piErrors \cup (IF broken THEN {"pipelines"} ELSE {})
     /\ UNCHANGED piSource

Listings == <<"linked_services", "datasets", "triggers", "integration_runtimes", "expression_compat">>
After(listing) == Listings[1 + CHOOSE i \in DOMAIN Listings : Listings[i] = listing]

\* Only Synapse asks whether Fabric has the connector of a linked service.
LinkedServiceRow(s) == [name |-> s.name, supported |-> piSource.kind = "adf" \/ LinkedServiceSupported(s.type)]

List(kind, broken) ==
  /\ piStage = kind /\ kind \in Range(Listings) \ {"expression_compat"} /\ piStage' = After(kind)
  /\ inventory' = IF broken THEN inventory
                  ELSE [inventory EXCEPT ![kind] = IF kind = "linked_services"
                          THEN {LinkedServiceRow(s) : s \in piSource.linked_services} ELSE piSource[kind]]
  /\ piErrors' = piErrors \cup (IF broken THEN {kind} ELSE {})
  /\ UNCHANGED piSource

-----------------------------------------------------------------------------
\* The scan of expressions looks for these in each activity.
PayloadKeys == {"typeProperties", "type_properties", "userProperties", "expression", "condition"}
ExpressionRules == {"DataFactory", "GroupId", "trigger().outputs", "childItems", "output[index]", "getSecret",
                    "addToTime"}

ScanActivities(rows) ==
  UNION {{[activity |-> r.name, rule |-> x] : x \in UNION {r[key] \cap ExpressionRules : key \in PayloadKeys \cap DOMAIN r}}
           : r \in rows}

Scan ==
  /\ piStage = "expression_compat" /\ piStage' = "schedule_mapper"
  /\ inventory' = [inventory EXCEPT !.findings = ScanActivities(inventory.activities)]
  /\ UNCHANGED <<piSource, piErrors>>

\* The Fabric schedule of a trigger; days only of a recurring one.
MapTrigger(t) ==
  CASE t.type \in {"ScheduleTrigger", "Schedule"} ->
         [trigger |-> t.name, kind |-> "recurring", every |-> t.interval, days |-> t.weekDays, manual |-> t.monthDays]
    [] t.type \in {"TumblingWindowTrigger", "TumblingWindow"} ->
         [trigger |-> t.name, kind |-> "tumbling", every |-> t.interval, days |-> {}, manual |-> TRUE]
    [] t.type \in {"BlobEventsTrigger", "CustomEventsTrigger", "Event"} ->
         [trigger |-> t.name, kind |-> "event", every |-> 0, days |-> {}, manual |-> TRUE]
    [] OTHER -> [trigger |-> t.name, kind |-> "unknown", every |-> 0, days |-> {}, manual |-> TRUE]

\* The first trigger that cannot be mapped ends the mapping of all after it.
MapTriggers ==
  LET bad == {i \in DOMAIN inventory.triggers : inventory.triggers[i].malformed}
      mapped == IF bad = {} THEN Len(inventory.triggers) ELSE Min(bad) - 1
  IN /\ piStage = "schedule_mapper" /\ piStage' = "listed"
     /\ inventory' = [inventory EXCEPT !.schedules = [i \in 1..mapped |-> MapTrigger(inventory.triggers[i])]]
     /\ piErrors' = piErrors \cup (IF bad = {} THEN {} ELSE {"schedule_mapper"})
     /\ UNCHANGED piSource

InventoryInit ==
  /\ piSource \in PiSources
  /\ inventory = [pipelines |-> {}, activities |-> {}, linked_services |-> {}, datasets |-> {}, triggers |-> <<>>,
                  integration_runtimes |-> {}, findings |-> {}, schedules |-> <<>>]
  /\ piErrors = {} /\ piStage = "pipelines"

InventoryNext ==
  \/ \E broken \in BOOLEAN :
       /\ broken => Cardinality(piErrors) < PiMaxFailures
       /\ ListPipelines(broken) \/ \E kind \in Range(Listings) : List(kind, broken)
  \/ Scan \/ MapTriggers

-----------------------------------------------------------------------------
\* What is listed adds up, whichever listings failed: the counts of a pipeline are
\* those of its activities; an activity Fabric lacks is counted however deep a
\* Synapse pipeline nests it; each failed listing is told of and costs no other; the
\* schedules follow the triggers one for one up to the first that cannot be mapped.
InventoryAddsUp ==
  LET at(p) == {a \in inventory.activities : a.pipeline = p.name}
  IN /\ \A p \in inventory.pipelines :
          /\ p.activityCount = Cardinality(at(p))
          /\ p.unsupported + p.partial <= p.activityCount
          /\ p.types = {a.type : a \in at(p)} \ {""}
     /\ piSource.kind = "synapse" /\ inventory.pipelines # {} =>
          \A p \in piSource.pipelines, a \in UNION {x.activities : x \in piSource.pipelines} :
            a \in p.activities /\ a.type \in UnsupportedTypes =>
              \E q \in inventory.pipelines : q.name = p.name /\ q.unsupported > 0 /\ a.type \in q.types
     /\ piStage = "listed" =>
          /\ "pipelines" \notin piErrors => Cardinality(inventory.pipelines) = Cardinality(piSource.pipelines)
          /\ \A kind \in {"datasets", "integration_runtimes", "triggers"} \ piErrors : inventory[kind] = piSource[kind]
          /\ Len(inventory.schedules) <= Len(inventory.triggers)
          /\ "schedule_mapper" \notin piErrors => Len(inventory.schedules) = Len(inventory.triggers)
          /\ \A i \in DOMAIN inventory.schedules : inventory.schedules[i].trigger = inventory.triggers[i].name

\* "This module scans expressions found in activity payloads and emits
\* ExpressionFinding records": an expression the rules know is found.
ExpressionsFound ==
  piStage = "listed" /\ piErrors = {} =>
    \A p \in piSource.pipelines : \A a \in Walked(p) : a.expressions \cap ExpressionRules # {} =>
      \E f \in inventory.findings : f.activity = a.name
=============================================================================
