----------------------------- MODULE EstateReport -----------------------------
(***************************************************************************)
(* What the Estate Overview shows: EstateIndex.build of web/estate.py, from *)
(* the extract of each run to the rows, the totals and the top blockers.   *)
(* How extracts are kept while runs are written is EstateIndex; here a run *)
(* that has landed does not change, and its extract is made once, with the *)
(* prices that could be had then.                                          *)
(*                                                                         *)
(* A missing artefact is one with nothing in it.  Capacity is in the units *)
(* of CapacityProjection, in tenths; CU-hours are hundredths.              *)
(***************************************************************************)
EXTENDS CapacityProjection, CostReport

CONSTANTS
    RunLibrary,    \* runs that may land in runs_dir
    Catalogue,     \* the price list when it can be reached: [payg, ri1, ri3]
    MaxHistory,    \* SMA_ESTATE_MAX_HISTORY
    TableRows,   \* rows of the table of top blockers (20)
    MaxRenders     \* bound on the pages asked for

\* What the files of a run may hold.  A directory has one name; a projection
\* with pipelines has an estimate; a price in cost.json has its source.
RowsByWindow == Seq([days : Nat \ {0}, cu : Nat])
RunOnDisk(run) ==
    /\ run.id \in Nat
    /\ run.meta.started \in Nat \cup {NotGiven} /\ run.meta.finished \in Nat \cup {NotGiven}
    /\ run.pipelines \in Seq(RowsByWindow) /\ run.databricks.spark \in Seq(RowsByWindow)
    /\ run.databricks.sql \in Seq([avg : Nat \cup {NotGiven}, headroom : Int])
    /\ run.bigquery \in RowsByWindow /\ run.snowflake \in RowsByWindow
    /\ run.fm.estimated \in Nat \cup {NotGiven} /\ (run.fm.withPipelines => run.fm.estimated # NotGiven)
    /\ run.fm.recs \in Seq([area : STRING, title : STRING, severity : STRING, type : STRING])
    /\ run.cost.comparison.payg # NoPrice => run.cost.comparison.source # ""

ASSUME EstateAssumption ==
    /\ MaxHistory \in Nat \ {0} /\ TableRows \in Nat \ {0}
    /\ \A run \in RunLibrary : RunOnDisk(run)
    /\ \A run, other \in RunLibrary : run.id = other.id => run = other

VARIABLES
    shelf,         \* the runs on disk
    extracts,      \* EstateIndex._cache: run -> extract
    estatePage,    \* the report shown last
    renders
estateVars == <<shelf, extracts, estatePage, renders>>

------------------------------------------------------------------------------
\* The seven-day window or the first there is.
Preferred(windows) ==
    IF \E i \in DOMAIN windows : windows[i].days = 7
    THEN windows[Min({i \in DOMAIN windows : windows[i].days = 7})] ELSE windows[1]

SumOver(seq, value(_)) == SumOf([i \in DOMAIN seq |-> value(seq[i])])

\* CU-hours of chosen windows, spread over the longest of them.
Sustained(chosen) ==
    LET days == Max({0} \cup {chosen[i].days : i \in DOMAIN chosen})
    IN  IF days = 0 THEN 0 ELSE (10 * SumOver(chosen, LAMBDA w : w.cu)) \div days

ChosenWindows(entries) ==
    [i \in {i \in DOMAIN entries : entries[i] # <<>>} |-> Preferred(entries[i])]

IntegrationDailyCu(run) == Sustained(ChosenWindows(run.pipelines))
DatabricksDailyCu(run) == Sustained(ChosenWindows(run.databricks.spark))

\* A warehouse without a headroom of its own gets 4.0.
DatabricksSqlDailyCu(run) ==
    SumOver(RestrictValues(run.databricks.sql, LAMBDA m : m.avg # NotGiven),
            LAMBDA m : m.avg * (IF m.headroom <= 0 THEN 40 ELSE m.headroom))

WidestOr7(rows) == IF \E i \in DOMAIN rows : rows[i].days = 7 THEN 7 ELSE Max({rows[i].days : i \in DOMAIN rows})
RowsOfWindow(rows) == {i \in DOMAIN rows : rows[i].days = WidestOr7(rows)}

\* One row of the window; for Snowflake, every warehouse's row of it.
BigQueryDailyCu(run) ==
    IF run.bigquery = <<>> THEN 0
    ELSE Sustained(Restrict(run.bigquery, {Min(RowsOfWindow(run.bigquery))}))

SnowflakeDailyCu(run) ==
    IF run.snowflake = <<>> THEN 0
    ELSE Sustained(Restrict(run.snowflake, RowsOfWindow(run.snowflake)))

\* Mutant: pipelines are added to every projection that has an estimate.
AddsPipelinesTwice(run) == TRUE

\* Only a projection of the dedicated pools alone leaves them out.
AddsPipelines(run) == run.fm.estimated = NotGiven \/ ~run.fm.withPipelines

OtherCu(run) ==
    DatabricksDailyCu(run) + DatabricksSqlDailyCu(run) + BigQueryDailyCu(run) + SnowflakeDailyCu(run)

ProjectedCu(run) ==
    IF run.fm.estimated = NotGiven /\ IntegrationDailyCu(run) + OtherCu(run) = 0 THEN NotGiven
    ELSE (IF run.fm.estimated = NotGiven THEN 0 ELSE run.fm.estimated)
         + (IF AddsPipelines(run) THEN IntegrationDailyCu(run) ELSE 0) + OtherCu(run)

\* The SKU of the projection, else the smallest that covers the sum.
RecommendedSku(run) ==
    IF run.fm.sku # NoSku \/ ProjectedCu(run) <= 0 THEN run.fm.sku ELSE SmallestSkuCovering(ProjectedCu(run))

------------------------------------------------------------------------------
\* Where the source runs: the platform of the scope, else the suffix of its host.
CloudFor(scope) ==
    CASE scope.type = "" -> ""
      [] scope.type = "bigquery" -> "gcp"
      [] scope.type = "sap_bw" -> "on_prem"
      [] scope.type = "snowflake" -> IF scope.platform # "" THEN scope.platform ELSE "aws"
      [] scope.type = "databricks" ->
           IF scope.platform # "" THEN scope.platform ELSE IF scope.host # "" THEN scope.host ELSE "azure"
      [] OTHER -> "azure"

OneOf(first, second) == IF first # "" THEN first ELSE second

\* run.json first, then the artefacts, for runs older than the fields.
WorkspaceName(run) == OneOf(run.meta.workspace, OneOf(run.fm.workspace, run.cost.workspace))
SubscriptionOf(run) == OneOf(run.meta.subscription, run.cost.subscription)
WorkspaceKey(run) == <<SubscriptionOf(run), WorkspaceName(run)>>

\* The primary scope, its type guessed from the recommendations of old runs.
PrimaryScope(run) ==
    LET typed == SelectSeq(run.fm.recs, LAMBDA r : r.type # "")
    IN  IF run.meta.scope.type # "" \/ typed = <<>> THEN run.meta.scope
        ELSE [run.meta.scope EXCEPT !.type = typed[1].type]

\* The latest month, else the average of the comparison.
ActualMonthly(run) ==
    IF run.cost.monthly # <<>> THEN run.cost.monthly[Max(DOMAIN run.cost.monthly)] ELSE run.cost.average

\* A price of cost.json is kept; a missing one is asked for again, and of the
\* fixed table when there is no answer.
Repriced(run, online) ==
    LET sku == RecommendedSku(run)
        kept == run.cost.comparison
        live(rate) == IF online /\ sku # NoSku THEN rate * sku ELSE NoPrice
        fresh == IF live(Catalogue.payg) # NoPrice THEN live(Catalogue.payg) ELSE StaticMonthly(sku)
    IN  [payg |-> IF kept.payg # NoPrice THEN kept.payg ELSE fresh,
         ri1 |-> IF kept.ri1 # NoPrice THEN kept.ri1 ELSE live(Catalogue.ri1),
         ri3 |-> IF kept.ri3 # NoPrice THEN kept.ri3 ELSE live(Catalogue.ri3),
         source |-> IF kept.payg # NoPrice \/ fresh = NoPrice THEN kept.source
                    ELSE IF live(Catalogue.payg) # NoPrice THEN "live" ELSE OneOf(kept.source, "static"),
         delta |-> kept.delta]

\* The difference is what cost.json says, else of the prices shown: {n} or {}.
CostDelta(run, price) ==
    IF price.delta # {} \/ price.payg = NoPrice \/ ActualMonthly(run) = NotGiven THEN price.delta
    ELSE {price.payg - ActualMonthly(run)}

Severity(run, sev) == {i \in DOMAIN run.fm.recs : run.fm.recs[i].severity = sev}

PlacedAt(run) == IF run.meta.finished # NotGiven THEN run.meta.finished ELSE run.meta.started

\* A run.json that cannot be read or has no time at all is not on the page.
Extractable(run) == run.readable /\ PlacedAt(run) # NotGiven

ExtractRun(run, online) ==
    LET price == Repriced(run, online)
    IN  [id |-> run.id, key |-> WorkspaceKey(run), tenant |-> run.meta.tenant,
         status |-> OneOf(run.meta.status, "ok"), finished |-> PlacedAt(run),
         cloud |-> CloudFor(PrimaryScope(run)), bucket |-> run.fm.bucket, tsql |-> run.fm.tsql, effort |-> run.fm.effort,
         blockers |-> Restrict(run.fm.recs, Severity(run, "blocker")),
         warnings |-> Cardinality(Severity(run, "warning")), infos |-> Cardinality(Severity(run, "info")),
         cu |-> ProjectedCu(run), sku |-> RecommendedSku(run), spent |-> ActualMonthly(run),
         price |-> price, delta |-> CostDelta(run, price)]

------------------------------------------------------------------------------
\* A list of the elements of a set, of which none comes before its predecessor.
Ordered(S, Before(_, _)) == CHOOSE s \in SetToSeqs(S) : \A i, j \in DOMAIN s : i < j => Before(s[i], s[j])

\* The order of the runs of a workspace; the directory's name breaks ties.
Newer(e, f) == e.finished > f.finished \/ (e.finished = f.finished /\ e.id > f.id)

NewestFirst(es) == Ordered(es, Newer)

\* Mutant: the last run is shown, whatever became of it.
NewestRun(es) == NewestFirst(es)[1]

\* The last run that went well, else the last.
LatestRun(es) ==
    LET well == {e \in es : e.status = "ok"}
    IN  NewestFirst(IF well = {} THEN es ELSE well)[1]

HistoryOf(es) ==
    LET newest == NewestFirst(es)
    IN  Reverse(SubSeq(newest, 1, Min({MaxHistory, Len(newest)})))

EstateWorkspace(es) == [latest |-> LatestRun(es), runCount |-> Cardinality(es), history |-> HistoryOf(es)]

\* A number the runs do not give does not count; none at all is no total.
TotalOf(rows, value(_), none) ==
    LET given == {w \in rows : value(w.latest) # none}
    IN  IF given = {} THEN none ELSE SumOf([w \in given |-> value(w.latest)])

CountIn(rows, bucket) == Cardinality({w \in rows : w.latest.bucket = bucket})

EstateTotals(rows) ==
    LET given == {w \in rows : w.latest.tsql # NotGiven}
    IN  [workspaces |-> Cardinality(rows), runs |-> SumOf([w \in rows |-> w.runCount]),
         subscriptions |-> Cardinality({w.latest.key[1] : w \in rows}), tenants |-> Cardinality({w.latest.tenant : w \in rows}),
         ready |-> CountIn(rows, "ready"), withEffort |-> CountIn(rows, "ready-with-effort"), blocked |-> CountIn(rows, "blocked"),
         blockers |-> SumOf([w \in rows |-> Cardinality(DOMAIN w.latest.blockers)]),
         tsql |-> IF given = {} THEN NotGiven ELSE TotalOf(rows, LAMBDA e : e.tsql, NotGiven) \div Cardinality(given),
         cu |-> TotalOf(rows, LAMBDA e : e.cu, NotGiven), spent |-> TotalOf(rows, LAMBDA e : e.spent, NotGiven),
         payg |-> TotalOf(rows, LAMBDA e : e.price.payg, NoPrice), ri1 |-> TotalOf(rows, LAMBDA e : e.price.ri1, NoPrice),
         ri3 |-> TotalOf(rows, LAMBDA e : e.price.ri3, NoPrice), effort |-> TotalOf(rows, LAMBDA e : e.effort, NotGiven)]

\* One row for an area and a title, however many recommendations carry it.
Named(r) == <<r.area, r.title>>
OfName(e, name) == {i \in DOMAIN e.blockers : Named(e.blockers[i]) = name}
TopBlocker(name, es) ==
    LET hit == {e \in es : OfName(e, name) # {}}
    IN  [name |-> name, workspaces |-> Cardinality({e.key : e \in hit}), example |-> {e.id : e \in hit},
         occurrences |-> SumOf([e \in hit |-> Cardinality(OfName(e, name))])]

BlockerNames(es) == UNION {{Named(e.blockers[i]) : i \in DOMAIN e.blockers} : e \in es}
AllBlockers(es) == {TopBlocker(name, es) : name \in BlockerNames(es)}

\* The alphabet that breaks the last ties is left out.
MoreWidespread(v, w) == v.workspaces > w.workspaces \/ (v.workspaces = w.workspaces /\ v.occurrences >= w.occurrences)

AggregateTopBlockers(es) ==
    LET rows == Ordered(AllBlockers(es), MoreWidespread)
    IN  SubSeq(rows, 1, Min({TableRows, Len(rows)}))

------------------------------------------------------------------------------
NoPage == [rows |-> {}, totals |-> <<>>, top |-> <<>>, of |-> {}]

EstateInit == shelf = {} /\ extracts = <<>> /\ estatePage = NoPage /\ renders = 0

\* A run ends here, or an import brings it.
RunLands(run) ==
    /\ renders < MaxRenders /\ run \notin shelf
    /\ shelf' = shelf \cup {run}
    /\ UNCHANGED <<extracts, estatePage, renders>>

RunIsDeleted(run) ==
    /\ renders < MaxRenders /\ run \in shelf
    /\ shelf' = shelf \ {run}
    /\ UNCHANGED <<extracts, estatePage, renders>>

\* What is cached of runs that are still there.
Kept == [run \in DOMAIN extracts \cap shelf |-> extracts[run]]

CollectExtracts(online) ==
    [run \in {run \in shelf : Extractable(run)} |-> IF run \in DOMAIN Kept THEN Kept[run] ELSE ExtractRun(run, online)]

\* GET /estate: the extracts, grouped by workspace.
BuildEstate(online) ==
    /\ renders < MaxRenders
    /\ extracts' = CollectExtracts(online)
    /\ LET es == {extracts'[run] : run \in DOMAIN extracts'}
           rows == {EstateWorkspace({e \in es : e.key = key}) : key \in {e.key : e \in es}}
       IN  estatePage' = [rows |-> rows, totals |-> EstateTotals(rows),
                          top |-> AggregateTopBlockers({w.latest : w \in rows}), of |-> shelf]
    /\ renders' = renders + 1
    /\ UNCHANGED shelf

EstateNext ==
    \/ \E run \in RunLibrary : RunLands(run) \/ RunIsDeleted(run)
    \/ \E online \in BOOLEAN : BuildEstate(online)

EstateSpec == EstateInit /\ [][EstateNext]_estateVars

------------------------------------------------------------------------------
\* The rows, the totals and the table of blockers tell of the same runs: each
\* run that can be placed is counted in the row of its workspace and nowhere
\* else, a row is about its last good run, and the blockers of the table add up
\* to the "Open blockers" total unless the table is cut (web/estate.py, build).
EstateAgrees ==
    LET page == estatePage
        placed == {run \in page.of : Extractable(run)}
        occurrences == SumOver(page.top, LAMBDA b : b.occurrences)
    IN  page # NoPage =>
        /\ page.totals.runs = Cardinality(placed)
        /\ \A run \in placed : \E w \in page.rows : w.latest.key = WorkspaceKey(run) /\
             (OneOf(run.meta.status, "ok") = "ok" => w.latest.status = "ok" /\ w.latest.finished >= PlacedAt(run))
        /\ IF Len(page.top) < TableRows THEN occurrences = page.totals.blockers ELSE occurrences <= page.totals.blockers
        /\ \A i \in DOMAIN page.top : page.top[i].example \subseteq {w.latest.id : w \in page.rows}

\* A capacity is counted once and is priced: what an up-to-date projection says
\* already has its pipelines in it, so a row of such a run alone shows exactly
\* its estimate; a row that needs capacity names a SKU; and a SKU of the fixed
\* table has a price whether or not the price service answered (web/estate.py,
\* _extract_run).
RowsSizedAndPriced ==
    \A w \in estatePage.rows : \A run \in estatePage.of :
        w.latest.id = run.id =>
            /\ run.fm.withPipelines /\ OtherCu(run) = 0 => w.latest.cu = run.fm.estimated
            /\ w.latest.cu > 0 => w.latest.sku # NoSku
            /\ w.latest.sku \in StaticSkus => w.latest.price.payg # NoPrice /\ w.latest.price.source # ""
            /\ w.latest.price.payg # NoPrice /\ w.latest.spent # NotGiven => w.latest.delta # {}

\* The estate page tells of its runs what they are (EstateIndex.build).
EstateTrue == EstateAgrees /\ RowsSizedAndPriced
===============================================================================
