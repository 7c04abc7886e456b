------------------------------ MODULE CostReport ------------------------------
(***************************************************************************)
(* The cost module: CostAnalyzer.run (modules/cost/analyzer.py) with the   *)
(* clients of the three billing services, the aggregation, the comparison  *)
(* with Fabric and its price cache, and the rules.  Costs are whole units  *)
(* of one currency, a price is what a capacity unit costs for a month, and *)
(* a resource id is the sequence of the pieces of its text, so that one id *)
(* may be a prefix of another.                                             *)
(***************************************************************************)
EXTENDS Integers, Sequences, SequencesExt, FiniteSets, FiniteSetsExt, TLC

CONSTANTS Scopes,          \* [source, id, defects, offline, region, mapped, sku, bills, meter]
          PricePages,      \* region -> pages of the two price lists
          MaxAttempts, BaseDelay, CapDelay,   \* SMA_COST_RETRY_*
          Hints,           \* values of Retry-After, NoHint for none
          CacheHours, MaxHours, MaxReports

NoHint == -1
NoPrice == 0
NoSku == 0
NoComparison == [sku |-> NoSku]

\* The service prices its items, and a bill has a line of its own.
PricedItem == [unit : STRING, price : Int]
ASSUME CostAssumption ==
  /\ MaxAttempts \in Nat \ {0} /\ BaseDelay \in Nat \ {0} /\ CapDelay \in Nat \ {0} /\ Hints \subseteq Int
  /\ \A s \in Scopes :
       /\ s.id \in Seq(STRING) /\ s.sku \in Nat /\ s.defects \subseteq {"live_disabled", "missing_config", "sdk_missing"}
       /\ IsFiniteSet(s.bills) /\ \A b \in s.bills : b.id \in Seq(STRING) /\ b.cost \in Int /\ b.month \in Int
       /\ \A b, c \in s.bills : b.n = c.n => b = c
       /\ s.meter.ratedCost \in Int /\ s.meter.ratedCredits \in Int
       /\ IsFiniteSet(s.meter.credits) /\ \A b \in s.meter.credits : b.credits \in Int /\ b.month \in Int
       /\ IsFiniteSet(s.meter.storage) /\ \A b \in s.meter.storage : b.cost \in Int /\ b.month \in Int
  /\ \A s \in Scopes : s.mapped /\ ~s.offline =>
       LET lists == PricePages[s.region]
       IN lists.consumption \in Seq(Seq(PricedItem)) /\ lists.reservation \in Seq(Seq(PricedItem))

VARIABLES hour,            \* the clock, never past MaxHours
          priceCache,      \* fabric_prices.json: one time for the file, an entry for each region
          analysis,        \* the report being made
          reports          \* reports made, at most MaxReports
costVars == <<hour, priceCache, analysis, reports>>

-----------------------------------------------------------------------------
\* Why no query is sent, the first reason in the order the clients look.
Defects(scope) == IF scope.source = "azure" THEN scope.defects \ {"missing_config"} ELSE scope.defects

FirstDefect(scope) ==
  CASE "live_disabled" \in Defects(scope) -> "live_disabled"
    [] Defects(scope) = {"sdk_missing"} -> "sdk_missing"
    [] OTHER -> "missing_config"

ClassifyResource(bill) ==
  CASE bill.provider = "synapse" /\ bill.child = "sqlPools" -> "dedicated_pool"
    [] bill.provider = "synapse" /\ bill.child = "bigDataPools" -> "spark_pool"
    [] bill.provider = "synapse" /\ bill.child \notin {"sqlPools", "bigDataPools"} -> "synapse_workspace"
    [] bill.provider = "datafactory" -> "adf_factory"
    [] bill.provider = "databricks" -> "databricks_workspace"
    [] bill.provider = "storage" -> "storage"
    [] OTHER -> "other"

ClassifyService(bill) ==
  CASE bill.provider = "bigquery" -> "bigquery_project" [] bill.provider = "dataflow" -> "dataflow_job"
    [] bill.provider = "dataproc" -> "dataproc_cluster" [] bill.provider = "storage" -> "storage"
    [] bill.provider = "compute" -> "compute" [] OTHER -> "other"

MonthlyCostRow(n, bill, kind, cost, credits) ==
  [n |-> n, id |-> bill.id, month |-> bill.month, kind |-> kind, name |-> bill.name, cost |-> cost, credits |-> credits]

ParseQueryResponse(bills) == {MonthlyCostRow(b.n, b, ClassifyResource(b), b.cost, 0) : b \in bills}

ParseBillingRows(bills) == {MonthlyCostRow(b.n, b, ClassifyService(b), b.cost, 0) : b \in bills}

\* What a credit cost on average, if the account shows its currency.
CreditRate(meter, currencyShown) ==
  IF ~currencyShown \/ meter.ratedCredits <= 0 THEN 0 ELSE meter.ratedCost \div meter.ratedCredits

ComputeRows(meter, rate) ==
  {MonthlyCostRow(b.n, b, IF b.name = "CLOUD_SERVICES" THEN "cloud_services" ELSE "snowflake_warehouse", b.credits * rate, b.credits) :
     b \in {b \in meter.credits : b.credits > 0 \/ b.name # ""}}

StorageRows(meter, currencyShown) ==
  IF ~currencyShown THEN {} ELSE {MonthlyCostRow(b.n, b, "storage", b.cost, 0) : b \in {b \in meter.storage : b.cost > 0}}

\* Without the currency view the compute rows have credits and no cost.
SnowflakeRows(meter, currencyShown) ==
  ComputeRows(meter, CreditRate(meter, currencyShown)) \cup StorageRows(meter, currencyShown)

\* Mutant: the exponent of the back-off counts on past the cap.
BackoffUncapped(attempt) == BaseDelay * 2 ^ (attempt - 1)

Backoff(attempt) == Min({CapDelay, BaseDelay * 2 ^ (attempt - 1)})

\* The wait before the next attempt: what the service asked for, or up to the
\* back-off (of the random wait the two ends).
Delays(attempt, hint) == IF hint # NoHint THEN {Min({hint, CapDelay})} ELSE {0, Backoff(attempt)}

-----------------------------------------------------------------------------
\* Mutant: rows without a resource id go too.
FilterRowsWithIdOnly(rows, scope) == {r \in rows : IsPrefix(scope.id, r.id)}

\* The rows of a resource group are narrowed to the scope by the text of their id.
FilterRowsForScope(rows, scope) ==
  IF scope.source = "azure" THEN {r \in rows : r.id = <<>> \/ IsPrefix(scope.id, r.id)} ELSE rows

SumCost(rows) == MapThenSumSet(LAMBDA r : r.cost, rows)

SumBy(rows, key(_)) == [k \in {key(r) : r \in rows} |-> SumCost({r \in rows : key(r) = k})]

LatestMonthlyCost(monthly) == IF monthly = <<>> THEN 0 ELSE monthly[Max(DOMAIN monthly)]

-----------------------------------------------------------------------------
\* Prices.  The file is read as a whole or, once it is too old, not at all.
CacheRead == IF hour - priceCache.at > CacheHours THEN <<>> ELSE priceCache.entries

MaxPages == 3

Items(pages, k) == UNION {ToSet(pages[i]) : i \in 1..k}

Cheapest(items, unit) ==
  LET prices == {i.price : i \in {i \in items : i.unit = unit /\ i.price > 0}}
  IN  IF prices = {} THEN NoPrice ELSE Min(prices)

\* `since` is when the price was asked for; the code has no such field.
Rates(items) == [payg |-> Cheapest(items, "hour"), ri1 |-> Cheapest(items, "1 Year"), ri3 |-> Cheapest(items, "3 Years"), since |-> hour]

Known(rates) == rates.payg # NoPrice \/ rates.ri1 # NoPrice \/ rates.ri3 # NoPrice

FabricSkuTable == {2, 4, 8, 16, 32, 64, 128, 256, 512, 1024, 2048}
StaticSkus == {2, 4, 8, 16, 32, 64}
StaticPrice == 131

\* Mutant: the fixed prices are carried on to the SKUs above F64.
StaticMonthlyForAll(sku) == IF sku = NoSku THEN NoPrice ELSE sku * StaticPrice

StaticMonthly(sku) == IF sku \in StaticSkus THEN sku * StaticPrice ELSE NoPrice

\* The comparison, from rates and where they come from.
CompareToFabric(spent, sku, rates, source) ==
  LET live == IF sku \in FabricSkuTable THEN rates.payg * sku ELSE NoPrice
      cost == IF live # NoPrice THEN live ELSE StaticMonthly(sku)
  IN  [sku |-> sku, cost |-> cost, ri1 |-> rates.ri1 * sku, ri3 |-> rates.ri3 * sku, spent |-> spent,
       delta |-> cost - spent, source |-> IF live = NoPrice /\ cost # NoPrice THEN "static" ELSE source]

-----------------------------------------------------------------------------
\* Rules.  Shares are in percent.
NoDataFinding(status) ==
  CASE status \in {"sdk_missing", "live_disabled", "missing_config"} -> status
    [] status = "error" -> "collection_error"
    [] OTHER -> "no_data"

Compared(c) == c # NoComparison /\ c.cost # NoPrice /\ c.spent # 0

FabricFindings(c) ==
  IF ~Compared(c) THEN {}
  ELSE IF 10 * c.delta <= -c.spent THEN {"fabric.savings"} ELSE IF 10 * c.delta >= c.spent THEN {"fabric.increase"} ELSE {}

\* Which kind dominates is left out.
ConcentrationFindings(byKind) ==
  LET total == MapThenSumSet(LAMBDA k : byKind[k], DOMAIN byKind)
      counted == {"dedicated_pool", "spark_pool", "adf_factory", "databricks_workspace"}
  IN  IF total > 0 /\ \E k \in DOMAIN byKind \cap counted : 10 * byKind[k] >= 7 * total THEN {"concentration"} ELSE {}

MonthOverMonthFindings(monthly) ==
  LET next(m) == Min({k \in DOMAIN monthly : k > m})
  IN  IF \E m \in DOMAIN monthly : (\E k \in DOMAIN monthly : k > m) /\ monthly[m] > 0 /\ 4 * monthly[next(m)] >= 5 * monthly[m]
      THEN {"spike"} ELSE {}

\* A Snowflake account that shows credits and nothing in currency.
CreditsOnly(a) ==
  a.scope.source = "snowflake" /\ (\E r \in a.rows : r.credits > 0) /\ (\A r \in a.rows : r.cost <= 0)

Evaluate(a) ==
  (IF a.rows = {} THEN {NoDataFinding(a.status)} ELSE {})
  \cup (IF CreditsOnly(a) THEN {"snowflake_credits_only"} ELSE {})
  \cup FabricFindings(a.comparison) \cup ConcentrationFindings(a.byKind) \cup MonthOverMonthFindings(a.monthly)

-----------------------------------------------------------------------------
NoAnalysis == [stage |-> "idle"]

CostInit ==
  /\ hour = 0 /\ priceCache = [at |-> 0, entries |-> <<>>]
  /\ analysis = NoAnalysis /\ reports = 0

Begin(scope) ==
  [scope |-> scope, stage |-> "query", attempt |-> 1, slept |-> 0, throttled |-> 0, rows |-> {}, status |-> "none",
   errors |-> {}, monthly |-> <<>>, byKind |-> <<>>, byName |-> <<>>, comparison |-> NoComparison, findings |-> {}]

\* Databricks outside Azure has no cost service: the report says so and ends.
StartCost(scope) ==
  /\ analysis.stage \in {"idle", "done"} /\ reports < MaxReports
  /\ reports' = reports + 1
  /\ analysis' = IF scope.source = "databricks elsewhere"
                 THEN [Begin(scope) EXCEPT !.stage = "done", !.status = "skipped", !.findings = {"skipped_non_azure"}]
                 ELSE IF Defects(scope) # {}
                 THEN [Begin(scope) EXCEPT !.stage = "add", !.status = FirstDefect(scope)]
                 ELSE Begin(scope)
  /\ UNCHANGED <<hour, priceCache>>

Received(rows) ==
  analysis' = [analysis EXCEPT !.stage = "add", !.rows = rows, !.status = IF rows = {} THEN "empty_window" ELSE "ok"]

Answered ==
  /\ analysis.stage = "query"
  /\ \/ /\ analysis.scope.source = "azure" /\ Received(ParseQueryResponse(analysis.scope.bills))
     \/ /\ analysis.scope.source = "bigquery" /\ Received(ParseBillingRows(analysis.scope.bills))
     \/ /\ analysis.scope.source = "snowflake"
        /\ \E currencyShown \in BOOLEAN : Received(SnowflakeRows(analysis.scope.meter, currencyShown))
  /\ UNCHANGED <<hour, priceCache, reports>>

Failed == analysis' = [analysis EXCEPT !.stage = "add", !.status = "error", !.errors = @ \cup {"monthly_breakdown"}]

\* Only Cost Management is asked again, and only when it is busy.
Throttled(hint) ==
  /\ analysis.stage = "query" /\ analysis.scope.source = "azure" /\ analysis.attempt < MaxAttempts
  /\ \E delay \in Delays(analysis.attempt, hint) :
       analysis' = [analysis EXCEPT !.attempt = @ + 1, !.slept = @ + delay, !.throttled = @ + 1]
  /\ UNCHANGED <<hour, priceCache, reports>>

GaveUp ==
  /\ analysis.stage = "query"
  /\ Failed
  /\ UNCHANGED <<hour, priceCache, reports>>

Aggregate ==
  /\ analysis.stage = "add"
  /\ LET own == FilterRowsForScope(analysis.rows, analysis.scope)
     IN  analysis' = [analysis EXCEPT !.stage = "compare", !.rows = own,
                        !.monthly = SumBy(own, LAMBDA r : r.month), !.byKind = SumBy(own, LAMBDA r : r.kind),
                        !.byName = SumBy({r \in own : r.name # ""}, LAMBDA r : r.name)]
  /\ UNCHANGED <<hour, priceCache, reports>>

CompareWith(rates, source) ==
  analysis' = [analysis EXCEPT !.stage = "judge",
                 !.comparison = CompareToFabric(LatestMonthlyCost(analysis.monthly), analysis.scope.sku, rates, source)]

NoRates == [payg |-> NoPrice, ri1 |-> NoPrice, ri3 |-> NoPrice]

\* There is no projection yet: no comparison.
NothingToCompare ==
  /\ analysis.stage = "compare" /\ ~analysis.scope.mapped
  /\ analysis' = [analysis EXCEPT !.stage = "judge"]
  /\ UNCHANGED <<hour, priceCache, reports>>

CompareUnpriced ==
  /\ analysis.stage = "compare" /\ analysis.scope.mapped
  /\ analysis.scope.offline \/ analysis.scope.sku \notin FabricSkuTable
  /\ CompareWith(NoRates, IF analysis.scope.sku \in FabricSkuTable THEN "offline" ELSE "none")
  /\ UNCHANGED <<hour, priceCache, reports>>

AsksForPrices ==
  analysis.stage = "compare" /\ analysis.scope.mapped /\ ~analysis.scope.offline /\ analysis.scope.sku \in FabricSkuTable

CompareCached ==
  /\ AsksForPrices /\ analysis.scope.region \in DOMAIN CacheRead
  /\ CompareWith(CacheRead[analysis.scope.region], "cache")
  /\ UNCHANGED <<hour, priceCache, reports>>

\* The entries of the file with those of one more region.
WithRates(rates) ==
  [r \in DOMAIN CacheRead \cup {analysis.scope.region} |-> IF r = analysis.scope.region THEN rates ELSE CacheRead[r]]

\* A page that does not come ends its list: the prices are those that came.  What
\* is written has one time for every region.
CompareLive ==
  /\ AsksForPrices /\ analysis.scope.region \notin DOMAIN CacheRead
  /\ LET lists == PricePages[analysis.scope.region]
         came(pages) == 0..Min({MaxPages, Len(pages)})
     IN \E j \in came(lists.consumption), k \in came(lists.reservation) :
       LET rates == Rates(Items(lists.consumption, j) \cup Items(lists.reservation, k))
       IN  /\ CompareWith(rates, IF Known(rates) THEN "live" ELSE "none")
           /\ priceCache' = IF Known(rates) THEN [at |-> hour, entries |-> WithRates(rates)] ELSE priceCache
  /\ UNCHANGED <<hour, reports>>

Judge ==
  /\ analysis.stage = "judge"
  /\ analysis' = [analysis EXCEPT !.stage = "done", !.findings = Evaluate(analysis)]
  /\ UNCHANGED <<hour, priceCache, reports>>

HourPasses ==
  /\ analysis.stage \in {"idle", "done"} /\ hour < MaxHours
  /\ hour' = hour + 1
  /\ UNCHANGED <<priceCache, analysis, reports>>

CostNext == \/ \E s \in Scopes : StartCost(s)
            \/ \E h \in Hints : Throttled(h)
            \/ Answered \/ GaveUp \/ Aggregate \/ NothingToCompare \/ CompareUnpriced \/ CompareCached \/ CompareLive
            \/ Judge \/ HourPasses
CostSpec == CostInit /\ [][CostNext]_costVars

-----------------------------------------------------------------------------
CostDone == analysis.stage = "done" /\ analysis.status # "skipped"

\* The service is asked at most MaxAttempts times, again only after it was busy, no
\* wait is longer than the cap, and there is none after the last attempt
\* (cost_client.py, _call_with_retry).
RetriesBounded ==
  analysis.stage # "idle" =>
    /\ analysis.attempt = analysis.throttled + 1 /\ analysis.attempt <= MaxAttempts
    /\ analysis.slept <= CapDelay * (analysis.attempt - 1)

\* Every bill of the scope counts once: the months, and the kinds, add up to the
\* rows kept, among which those of the bills of the scope, with or without a
\* resource id, cost what was billed, and the difference to Fabric is against the
\* latest of these months.
CostAddsUp ==
  CostDone =>
    LET sum(f) == MapThenSumSet(LAMBDA k : f[k], DOMAIN f)
        billed == IF analysis.scope.source = "azure" /\ analysis.status = "ok"
                  THEN {b \in analysis.scope.bills : b.id \in {<<>>, analysis.scope.id} \/ IsPrefix(analysis.scope.id \o <<"/">>, b.id)} ELSE {}
    IN  /\ sum(analysis.monthly) = sum(analysis.byKind) /\ sum(analysis.byKind) = SumCost(analysis.rows)
        /\ {b.n : b \in billed} \subseteq {r.n : r \in analysis.rows}
        /\ SumCost({r \in analysis.rows : r.n \in {b.n : b \in billed}}) = MapThenSumSet(LAMBDA b : b.cost, billed)
        /\ Compared(analysis.comparison) =>
             analysis.comparison.delta + LatestMonthlyCost(analysis.monthly) = analysis.comparison.cost

\* No price is invented: a comparison that shows one says where it is from, above
\* F64 that is never the fixed table, and without the service nothing else is
\* (fabric_pricing.py, fabric_compare.py).  A report without rows says why.
NothingInvented ==
  CostDone =>
    /\ analysis.comparison # NoComparison =>
         /\ analysis.comparison.cost # NoPrice => analysis.comparison.source \in {"live", "cache", "static"}
         /\ analysis.comparison.cost # NoPrice /\ analysis.comparison.sku > 64 => analysis.comparison.source # "static"
         /\ analysis.scope.offline => analysis.comparison.source \in {"offline", "static", "none"}
    /\ analysis.rows = {} => analysis.findings \cap {"sdk_missing", "live_disabled", "missing_config", "collection_error", "no_data"} # {}
    /\ (analysis.status = "error") <=> ("collection_error" \in analysis.findings)

\* "gets *its own* cost totals rather than the RG-wide rollup" (cost/analyzer.py).
OwnCostOnly ==
  CostDone /\ analysis.scope.source = "azure" =>
    \A r \in analysis.rows : r.id \in {<<>>, analysis.scope.id} \/ IsPrefix(analysis.scope.id \o <<"/">>, r.id)

\* The amounts of the cost report are amounts that somebody billed or quoted
\* (CostAnalyzer.run).
CostHonest == CostAddsUp /\ NothingInvented
===============================================================================
