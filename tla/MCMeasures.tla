----------------------------- MODULE MCMeasures -----------------------------
(***************************************************************************)
(* What Azure Monitor, a serverless endpoint and a subscription hold, for   *)
(* TLC.                                                                     *)
(***************************************************************************)
EXTENDS Monitoring, ServerlessPools, StorageAccounts

Point(at, value) == [at |-> at, value |-> value]
MetricPool(name, unknown, points) ==
  [name |-> name, warehouse |-> TRUE, hasId |-> TRUE, unknown |-> unknown, points |-> points]
\* Used over two days, at one time twice; the limit is missing at one time.
Used == <<Point(0, 40), Point(1, NoValue), Point(2, 5), Point(3, 90), Point(3, 80), Point(5, 6)>>
Limits == <<Point(0, 100), Point(2, 100), Point(3, 200)>>
Workspace(interval, pools) == [standalone |-> FALSE, only |-> "", interval |-> interval, pools |-> pools]
Server(interval, only, pools) == [standalone |-> TRUE, only |-> only, interval |-> interval, pools |-> pools]
MCMonScopes ==
  {Workspace("PT1H", <<MetricPool("a", {"Connections", "CPUPercent"}, [DWUUsedPercent |-> Used, DWULimit |-> Limits]),
                       MetricPool("b", {"DWULimit"}, [DWUUsedPercent |-> Used, DWULimit |-> Limits, Connections |-> <<Point(0, 3)>>]),
                       MetricPool("c", {}, <<>>)>>),
   Workspace("PT12H", <<>>),
   Server("PT15M", "", <<MetricPool("a", {"connection_failed"}, [dwu_consumption_percent |-> Used, dwu_limit |-> Limits]),
                         [MetricPool("plain", {}, <<>>) EXCEPT !.warehouse = FALSE],
                         [MetricPool("lost", {}, <<>>) EXCEPT !.hasId = FALSE],
                         MetricPool("b", {"dwu_consumption_percent"}, [dwu_consumption_percent |-> Used])>>),
   Server("PT12H", "a", <<MetricPool("a", StandaloneMetrics, <<>>), MetricPool("b", {}, <<>>)>>)}

EndedRequest(id, age, status, mb, seconds, hosts) ==
  [id |-> id, age |-> age, status |-> status, mb |-> mb, seconds |-> seconds, hosts |-> hosts]
Earlier ==
  {EndedRequest(1, 0, "Completed", 50, 2, <<"lake", "vault">>), EndedRequest(2, 1, "Completed", 50, 1, <<"lake">>),
   EndedRequest(3, 3, "Failed", 70, 1, <<"vault">>), EndedRequest(4, 3, "Completed", 20, 4, <<>>),
   EndedRequest(5, 5, "Completed", 90, 1, <<"vault">>), EndedRequest(6, 0, "Cancelled", Unmeasured, 9, <<"lake">>)}
Late == {EndedRequest(7, 0, "Completed", 60, 1, <<"vault">>), EndedRequest(8, 2, "Completed", 10, 1, <<"lake">>)}
SvObjects(sources, tables, columns) ==
  [external_data_sources |-> sources, external_tables |-> tables, external_table_columns |-> columns]
MCSvEndpoints ==
  {[objects |-> [sales |-> SvObjects({"src"}, {"t", "u"}, {"t.a", "u.a"}), stage |-> SvObjects({"src"}, {}, {})],
    price |-> 5, held |-> Earlier, running |-> Late],
   [objects |-> <<>>, price |-> Unmeasured, held |-> {}, running |-> Late]}

\* The workspace's account in another group, one it refers to, one it does not,
\* one without services, one without an id.
Account(name, group, without) ==
  [id |-> name, name |-> name, group |-> group, without |-> without,
   metrics |-> [m \in Capacities \ {"FileCount"} |-> IF m = "UsedCapacity" THEN 9 ELSE 3]]
HeldAccounts ==
  <<Account("lake", "g", {}), Account("logs", "h", {"fileServices", "tableServices", "queueServices"}), Account("lost", "h", {}),
    [Account("odd", "g", {}) EXCEPT !.id = ""]>>
Elsewhere == <<Account("own", "far", {})>>
Partition(table, reserved, used) == [table |-> table, reserved |-> reserved, used |-> used]
SizedPool(name, paused, max, partitions) == [name |-> name, paused |-> paused, max |-> max, partitions |-> partitions]
SizedPools == <<SizedPool("a", FALSE, 100, {Partition(1, 8, 6), Partition(1, 4, 4), Partition(2, 2, 0)}), SizedPool("b", TRUE, 100, {}),
                SizedPool("c", FALSE, 0, {})>>
Site(standalone, includeAll, group, ownGroup, held, pools) ==
  [standalone |-> standalone, includeAll |-> includeAll, group |-> group, default |-> [name |-> "own", group |-> ownGroup],
   references |-> <<"lake", "logs", "odd">>, held |-> held, elsewhere |-> IF ownGroup = "" THEN <<>> ELSE Elsewhere, pools |-> pools]
MCStSites ==
  {Site(FALSE, FALSE, "g", "far", HeldAccounts, <<SizedPools[1]>>), Site(FALSE, TRUE, "h", "far", HeldAccounts, <<>>),
   Site(FALSE, FALSE, "", "", <<>>, SizedPools), Site(TRUE, FALSE, "g", "", <<>>, SizedPools)}

MonitoringOff ==
  /\ monScope = Workspace("PT12H", <<>>) /\ poolList = <<>> /\ asking = <<>> /\ series = {} /\ dwuDays = {}
  /\ monErrors = {} /\ monStage = "off" /\ monFailures = 0
ServerlessOff ==
  /\ endpoint = [objects |-> <<>>, price |-> 0, held |-> {}, running |-> {}] /\ history = {} /\ connections = {} /\ reading = <<>>
  /\ svReport = NoServerlessReport /\ svErrors = {} /\ svStage = "off" /\ svFailures = 0
StorageOff ==
  /\ stSite = Site(TRUE, FALSE, "g", "", <<>>, <<>>) /\ default = NoAccount /\ attached = {} /\ accounts = <<>> /\ items = <<>>
  /\ stReport = EmptyStorage /\ steps = [total |-> 0, done |-> 0] /\ broken = {} /\ stErrors = {} /\ stStage = "off"
\* What the measures of Azure Monitor, of a serverless endpoint and of the storage
\* of a workspace say is what was measured; each part is stated in its module.
MeasuresTrue == MetricsFaithful /\ ServerlessTrue /\ StorageTrue

MeasuresOff == MonitoringOff /\ ServerlessOff /\ StorageOff
measureVars == <<monVars, svVars, stVars>>
MeasuresInit ==
  \/ MonitoringInit /\ ServerlessOff /\ StorageOff
  \/ ServerlessInit /\ MonitoringOff /\ StorageOff
  \/ StorageInit /\ MonitoringOff /\ ServerlessOff
MeasuresNext ==
  \/ MonitoringNext /\ UNCHANGED <<svVars, stVars>>
  \/ svStage # "off" /\ ServerlessNext /\ UNCHANGED <<monVars, stVars>>
  \/ StorageNext /\ UNCHANGED <<monVars, svVars>>
MeasuresSpec == MeasuresInit /\ [][MeasuresNext]_measureVars
=============================================================================
