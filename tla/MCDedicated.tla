----------------------------- MODULE MCDedicated -----------------------------
EXTENDS DedicatedPools, WorkloadCapture
\* A pool with a hashed, a small and two large tables, statistics that compete for
\* three places, leading columns of one score for the third, and code objects of
\* which two share an id.
Stat(table, row, column, distinct, nulls, frequent, nullable, plain, wide) ==
  [table |-> table, row |-> row, column |-> column, rows |-> 1000, distinct |-> distinct, nulls |-> nulls,
   frequent |-> frequent, nullable |-> nullable, plain |-> plain, wide |-> wide]
DTable(name, distribution, size) == [name |-> name, distribution |-> distribution, rows |-> size]
Finding(rule, severity, late) == [rule |-> rule, severity |-> severity, late |-> late]
CodeObject(name, id, findings, aliases, predicates) ==
  [name |-> name, id |-> id, findings |-> findings, aliases |-> aliases, predicates |-> predicates]
At(qualifier, column) == [qualifier |-> qualifier, column |-> column]
Warehouse ==
  [status |-> "online",
   tables |-> {DTable("hashed", "HASH", 9000000), DTable("small", "ROUND_ROBIN", 999999),
               DTable("fact", "ROUND_ROBIN", 1000000), DTable("dim", "REPLICATE", 49999999),
               DTable("big", "REPLICATE", 50000000), DTable("odd", "none", 10)},
   indexes |-> {[table |-> "fact", unique |-> TRUE, first |-> "k"], [table |-> "fact", unique |-> FALSE, first |-> "none"],
                [table |-> "big", unique |-> FALSE, first |-> "b"], [table |-> "big", unique |-> FALSE, first |-> "x"],
                [table |-> "big", unique |-> FALSE, first |-> "y"], [table |-> "big", unique |-> TRUE, first |-> "z"], [table |-> "hashed", unique |-> TRUE, first |-> "h"]},
   columns |-> {Stat("fact", 1, "k", 950, 0, 40, FALSE, TRUE, FALSE), Stat("fact", 2, "k", 500, 0, 50, FALSE, TRUE, FALSE),
                Stat("fact", 3, "c", 100, 0, 60, TRUE, TRUE, FALSE), Stat("fact", 4, "d", 99, 501, 10, TRUE, FALSE, TRUE),
                Stat("fact", 5, "e", 60, 500, 49, TRUE, TRUE, FALSE), Stat("hashed", 6, "h", 1000, 0, 1, FALSE, TRUE, FALSE),
                Stat("big", 7, "low", 59, 0, 0, TRUE, FALSE, FALSE)},
   objects |-> {CodeObject("p", "s.p", {Finding("merge", "blocker", FALSE), Finding("hint", "warning", FALSE)},
                           [f |-> "fact"], <<At("none", "c"), At("f", "c"), At("x", "e")>>),
                CodeObject("q?", "s.q", {Finding("cursor", "warning", FALSE), Finding("merge", "blocker", TRUE)},
                           [f |-> "fact", b |-> "big"], <<At("b", "b"), At("none", "c"), At("b", "b"), At("b", "b"), At("b", "x"), At("b", "x"), At("b", "x")>>),
                CodeObject("q!", "s.q", {Finding("note", "info", FALSE)}, <<>>, <<>>)}]
MCDatabases == {Warehouse, [Warehouse EXCEPT !.status = "paused"],
                [Warehouse EXCEPT !.status = "unknown", !.columns = {}, !.objects = {}]}

Ref(schema, name) == [schema |-> schema, name |-> name, cte |-> FALSE, temp |-> FALSE]
MCGarbage == <<>>
MCCommands == {MCGarbage, <<Ref("dbo", "sales"), Ref("none", "sales")>>, <<Ref("dbo", "sales")>>,
               <<Ref("none", "sales"), Ref("none", "dim")>>,
               <<[Ref("none", "dim") EXCEPT !.cte = TRUE], Ref("sys", "x"), [Ref("none", "dim") EXCEPT !.temp = TRUE]>>}
MCPoolObjects == {[schema |-> "dbo", name |-> "sales", type |-> "table"], [schema |-> "stg", name |-> "sales", type |-> "table"],
                  [schema |-> "dbo", name |-> "dim", type |-> "view"]}

\* The two sides share nothing but the pool: one of them at a time.
DedicatedOff == /\ poolWork = [p \in DedPools |-> NothingCollected] /\ poolSteps = 0 /\ dedicatedStage = "off"
CaptureOff == /\ captureDay = -1 /\ issued = <<>> /\ dmv = {} /\ workloadFile = NoFile
              /\ consumed = Nothing /\ reported = {} /\ stored = {} /\ damaged = 0
DedInit == (DedicatedInit /\ CaptureOff) \/ (CaptureInit /\ DedicatedOff)
DedNext == \/ dedicatedStage # "off" /\ DedicatedNext /\ UNCHANGED capVars
           \/ captureDay # -1 /\ CaptureNext /\ UNCHANGED dedVars
DedSpec == DedInit /\ [][DedNext]_<<dedVars, capVars>>
==============================================================================
