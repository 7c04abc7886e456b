--------------------------- MODULE ServerlessPools ---------------------------
(***************************************************************************)
(* The serverless_pools analyzer.  One session to master reads the          *)
(* databases, the usage and, one query after the other, the history of      *)
(* requests, which goes on growing meanwhile; the objects of each database  *)
(* are read by workers with a session of their own.  At the end the data    *)
(* the top queries read is attributed to storage accounts.                  *)
(***************************************************************************)
EXTENDS Integers, Sequences, FiniteSets, FiniteSetsExt, SequencesExt, Functions

CONSTANTS SvEndpoints,     \* what an endpoint may hold, see MCMeasures
          SvWorkers,       \* SMA_SERVERLESS_DB_CONCURRENCY
          SvMaxFailures,   \* bound: queries and connections that fail
          TopLimit,        \* TOP (100)
          TopDays, DailyDays, DayHours   \* 14 and 30 days, of 24 hours

Unmeasured == -1   \* NULL in data_processed_mb, or a price that is no number

\* databases.sql leaves master out; a request of the history has an age.
EndpointSound(held) ==
  /\ IsFiniteSet(DOMAIN held.objects) /\ "master" \notin DOMAIN held.objects /\ held.price \in Nat \cup {Unmeasured}
  /\ IsFiniteSet(held.held) /\ IsFiniteSet(held.running)
  /\ \A q \in held.held \cup held.running : q.age \in Nat /\ q.mb \in Int
ASSUME ServerlessAssumption ==
  /\ SvWorkers \in Int /\ {SvMaxFailures, TopLimit, TopDays, DailyDays, DayHours} \subseteq Nat
  /\ TopDays <= DailyDays /\ \A held \in SvEndpoints : EndpointSound(held)

VARIABLES endpoint,     \* the endpoint: databases, their objects, the price set for a TB
          history,      \* sys.dm_exec_requests_history
          connections,  \* the databases a connection is open to
          reading,      \* database |-> where its worker is, in the listing under way
          svReport, svErrors, svStage, svFailures

svVars == <<endpoint, history, connections, reading, svReport, svErrors, svStage, svFailures>>

DatabaseListings == <<"external_data_sources", "external_tables", "external_table_columns">>
MasterParts == <<"usage", "top_queries", "daily_usage", "hourly_usage">>
Order ==
  <<"databases", "external_data_sources", "external_tables", "external_table_columns",
    "usage", "top_queries", "daily_usage", "hourly_usage", "storage_account_usage">>
PartAfter(part) == LET i == CHOOSE j \in DOMAIN Order : Order[j] = part
               IN IF i = Len(Order) THEN "done" ELSE Order[i + 1]
NoServerlessReport ==
  [databases |-> {}, external_data_sources |-> {}, external_tables |-> {}, external_table_columns |-> {}, usage |-> {},
   top_queries |-> {}, daily_usage |-> {}, hourly_usage |-> {}, cost_estimate |-> Unmeasured, storage_account_usage |-> {}]

-----------------------------------------------------------------------------
\* The queries of the history. Ages are in hours.

Mb(query) == Max({0, query.mb})
MbOf(queries) == [q \in queries |-> Mb(q)]
Added(numbers) == MapThenSumSet(LAMBDA x : numbers[x], DOMAIN numbers)
Costlier(a, b) == a.mb > b.mb     \* NULL is the last
\* The most expensive of two weeks, whatever their outcome; equals in any order.
TopQueries(held) ==
  LET recent == {q \in held : q.age < TopDays * DayHours}
  IN {top \in SUBSET recent : /\ Cardinality(top) = Min({TopLimit, Cardinality(recent)})
                              /\ \A a \in top, b \in recent \ top : ~Costlier(b, a)}
\* A row per day, or hour, of the completed requests.
UsageRow(requests, bin) ==
  [bin |-> bin, requests |-> Cardinality(requests), mb |-> Added(MbOf(requests)),
   seconds |-> Added([q \in requests |-> q.seconds]), mbSeconds |-> Added([q \in requests |-> Mb(q) * q.seconds])]
CompletedIn(held, hours) == {q \in held : q.age < hours /\ q.status = "Completed"}
UsageBy(held, hours, bin) ==   \* bins of `bin` hours
  LET completed == CompletedIn(held, hours)
  IN {UsageRow({q \in completed : q.age \div bin = b}, b) : b \in {q.age \div bin : q \in completed}}
ServerlessDaily(held) == UsageBy(held, DailyDays * DayHours, DayHours)
ServerlessHourly(held) == UsageBy(held, DayHours, 1)

\* estimate_cost, unrounded, in prices of a MB.
EstimateCost(daily, price) == price * Added([d \in daily |-> d.mb])

\* attribute: a query counts for the first account its text names. The data
\* sources are collected by name and never looked at.
AttributionHost(query) == IF query.hosts = <<>> THEN "none" ELSE Head(query.hosts)
ChargeRow(host, own, price) ==
  [account |-> host, queries |-> Cardinality(own), mb |-> Added(MbOf(own)), cost |-> price * Added(MbOf(own))]
\* Mutant: a query counts for each account it names.
AttributeEach(top, price) ==
  {ChargeRow(host, {q \in top : host \in Range(q.hosts)}, price) : host \in UNION {Range(q.hosts) : q \in top}}
Attribute(top, price) ==
  {ChargeRow(host, {q \in top : AttributionHost(q) = host}, price) : host \in {AttributionHost(q) : q \in top} \ {"none"}}

-----------------------------------------------------------------------------
\* The session to master: a failure to connect escapes the analyzer.
Refused == svFailures < SvMaxFailures /\ svFailures' = svFailures + 1

OpenMaster ==
  /\ svStage = "start" /\ connections' = {"master"} /\ svStage' = "databases"
  /\ UNCHANGED <<endpoint, history, reading, svReport, svErrors, svFailures>>
OpenMasterFails ==
  /\ svStage = "start" /\ Refused /\ svStage' = "raised"
  /\ UNCHANGED <<endpoint, history, connections, reading, svReport, svErrors>>

\* A part of master is read whole, or leaves an error; leaving the last of them
\* closes the session.
GoOn(part) ==
  /\ svStage = part /\ svStage' = PartAfter(part)
  /\ connections' = IF part = "hourly_usage" THEN connections \ {"master"} ELSE connections
  /\ UNCHANGED <<endpoint, history>>
PartFails(part) ==
  /\ part \in {"databases"} \cup Range(MasterParts)
  /\ GoOn(part) /\ Refused /\ svErrors' = svErrors \cup {part} /\ UNCHANGED <<svReport, reading>>
ReadPart(part, rows) ==
  /\ GoOn(part) /\ svReport' = [svReport EXCEPT ![part] = rows] /\ UNCHANGED <<svErrors, reading, svFailures>>

Queued(databases) == [d \in databases |-> "queued"]
ReadDatabases ==
  /\ svStage = "databases"
  /\ svReport' = [svReport EXCEPT !.databases = DOMAIN endpoint.objects]
  /\ reading' = Queued(DOMAIN endpoint.objects)
  /\ svStage' = "external_data_sources"
  /\ UNCHANGED <<endpoint, history, connections, svErrors, svFailures>>
ReadUsage == ReadPart("usage", {Cardinality(DOMAIN endpoint.objects)})
ReadTopQueries == \E top \in TopQueries(history) : ReadPart("top_queries", top)
\* The rows stay when the price cannot be read; the estimate does not come.
ReadDailyUsage ==
  /\ GoOn("daily_usage")
  /\ LET daily == ServerlessDaily(history) IN
     IF endpoint.price = Unmeasured
     THEN /\ svReport' = [svReport EXCEPT !.daily_usage = daily] /\ svErrors' = svErrors \cup {"daily_usage"}
     ELSE /\ svReport' = [svReport EXCEPT !.daily_usage = daily, !.cost_estimate = EstimateCost(daily, endpoint.price)]
          /\ svErrors' = svErrors
  /\ UNCHANGED <<reading, svFailures>>
ReadHourlyUsage == ReadPart("hourly_usage", ServerlessHourly(history))

\* One listing over the databases. A worker that fails answers with no rows:
\* only the log has its error.
Reading == {d \in DOMAIN reading : reading[d] = "open"}
TakeDatabase(d) ==
  /\ svStage \in Range(DatabaseListings) /\ reading[d] = "queued"
  /\ Cardinality(Reading) < Min({Cardinality(DOMAIN reading), Max({1, SvWorkers})})
  /\ reading' = [reading EXCEPT ![d] = "open"]
  /\ connections' = connections \cup {d}
  /\ UNCHANGED <<endpoint, history, svReport, svErrors, svStage, svFailures>>
\* Mutant: a worker keeps its connection.
LeaveOpen(d, how) ==
  /\ reading' = [reading EXCEPT ![d] = how] /\ connections' = connections
CloseSession(d, how) ==
  /\ reading' = [reading EXCEPT ![d] = how] /\ connections' = connections \ {d}
ListDatabase(d) ==
  /\ reading[d] = "open" /\ CloseSession(d, "listed")
  /\ UNCHANGED <<endpoint, history, svReport, svErrors, svStage, svFailures>>
DatabaseFails(d) ==
  /\ reading[d] = "open" /\ Refused /\ CloseSession(d, "failed")
  /\ UNCHANGED <<endpoint, history, svReport, svErrors, svStage>>
\* Without databases the listings are passed over.
EndListing ==
  /\ svStage \in Range(DatabaseListings) /\ \A d \in DOMAIN reading : reading[d] \in {"listed", "failed"}
  /\ LET listed == {d \in DOMAIN reading : reading[d] = "listed"} IN
     svReport' = [svReport EXCEPT ![svStage] = UNION {{<<d, o>> : o \in endpoint.objects[d][svStage]} : d \in listed}]
  /\ reading' = Queued(DOMAIN reading)
  /\ svStage' = PartAfter(svStage)
  /\ UNCHANGED <<endpoint, history, connections, svErrors, svFailures>>

AttributeStorage ==
  /\ GoOn("storage_account_usage")
  /\ IF endpoint.price = Unmeasured
     THEN svErrors' = svErrors \cup {"storage_account_usage"} /\ svReport' = svReport
     ELSE /\ svReport' = [svReport EXCEPT !.storage_account_usage = Attribute(svReport.top_queries, endpoint.price)]
          /\ svErrors' = svErrors
  /\ UNCHANGED <<reading, svFailures>>

\* Someone's request ends and enters the history; it began up to now.
RequestEnds ==
  /\ svStage \notin {"off", "done", "raised"}
  /\ \E q \in endpoint.running \ history : history' = history \cup {q}
  /\ UNCHANGED <<endpoint, connections, reading, svReport, svErrors, svStage, svFailures>>

ServerlessInit ==
  /\ endpoint \in SvEndpoints /\ history = endpoint.held /\ connections = {} /\ reading = <<>>
  /\ svReport = NoServerlessReport /\ svErrors = {} /\ svStage = "start" /\ svFailures = 0
ServerlessNext ==
  \/ OpenMaster \/ OpenMasterFails \/ ReadDatabases \/ ReadUsage \/ ReadTopQueries \/ ReadDailyUsage \/ ReadHourlyUsage
  \/ \E part \in Range(Order) : PartFails(part)
  \/ \E d \in DOMAIN reading : TakeDatabase(d) \/ ListDatabase(d) \/ DatabaseFails(d)
  \/ EndListing \/ AttributeStorage \/ RequestEnds

-----------------------------------------------------------------------------
\* Each worker has a connection of its own, next to the one to master; all are
\* closed when the analyzer is over, also when one of them failed.
SessionsClosed ==
  /\ connections \ {"master"} = Reading
  /\ Cardinality(connections) <= 1 + Max({1, SvWorkers})
  /\ svStage \in {"done", "raised", "storage_account_usage"} => connections = {}

\* What is charged to accounts is charged once: not more queries, nor more data,
\* than the top queries that name an account, and the data of the completed ones
\* is part of what the estimate of the bill was made of, though requests
\* end between the two queries.
AttributedOnce ==
  LET top == svReport.top_queries
      charged == svReport.storage_account_usage
  IN svStage = "done" =>
     /\ Added([a \in charged |-> a.queries]) <= Cardinality({q \in top : q.hosts # <<>>})
     /\ Added([a \in charged |-> a.mb]) <= Added(MbOf(top))
     /\ (charged # {} /\ "daily_usage" \notin svErrors) =>
          svReport.cost_estimate >= endpoint.price * Added(MbOf({q \in top : q.status = "Completed"}))

RequestsOf(rows) == Added([r \in rows |-> r.requests])
\* A part is missing only with an error that names it, and counts every request
\* that had ended when the analyzer began; but a database whose worker failed is
\* missing from a listing without an error.
PartsAnswered ==
  svStage = "done" =>
    /\ "databases" \notin svErrors => svReport.databases = DOMAIN endpoint.objects
    /\ "daily_usage" \notin svErrors <=> svReport.cost_estimate # Unmeasured
    /\ "hourly_usage" \notin svErrors =>
         RequestsOf(svReport.hourly_usage) \in RequestsOf(ServerlessHourly(endpoint.held))..RequestsOf(ServerlessHourly(history))
    /\ "daily_usage" \notin svErrors =>
         RequestsOf(svReport.daily_usage) \in RequestsOf(ServerlessDaily(endpoint.held))..RequestsOf(ServerlessDaily(history))
    /\ \A part \in Range(DatabaseListings) : \A row \in svReport[part] :
         row[1] \in svReport.databases /\ row[2] \in endpoint.objects[row[1]][part]

\* What the report on serverless pools says, and what it leaves open.
ServerlessTrue == SessionsClosed /\ AttributedOnce /\ PartsAnswered
=============================================================================
