---------------------------- MODULE CollectProofs ----------------------------
(***************************************************************************)
(* Proofs about the collection of one module: what a page and run.json     *)
(* show of its progress (ModuleProgress), for any number of threads of the *)
(* analyzer and any calls of theirs; that the dedicated-pools analyzer     *)
(* answers for every part of every pool and advises within what it         *)
(* collected (DedicatedPools), for any number of pools and workers and     *)
(* whatever the pools hold; that the capture of their workload loses and   *)
(* invents no request (WorkloadCapture); that every roll-up of the jobs of *)
(* a project is of the same jobs (BigQueryWorkloads), for any project and  *)
(* whatever it refuses; that a report on an account that says nothing of a *)
(* lack lacks nothing (SnowflakeWorkloads); and that what is said of Spark *)
(* pools is what they ran, whatever arrives or ends meanwhile              *)
(* (SparkHistory).                                                         *)
(***************************************************************************)
EXTENDS ModuleProgress, DedicatedPools, WorkloadCapture, BigQueryWorkloads, SnowflakeWorkloads, SparkHistory,
        SequenceTheorems, SumTheorems

(***************************************************************************)
(* Progress.  A page will have been shown the callbacks in the order they  *)
(* were handed over, whatever the loop has got to.                         *)
(***************************************************************************)
Events == Snapshots \cup {Finished}
Trail == shown \o handed

ProgressType ==
    /\ counter \in Snapshots /\ persisted \in Snapshots
    /\ snap \in [Threads -> Snapshots]
    /\ stage \in [Threads -> {"idle", "throttle", "hand", "persist"}]
    /\ script \in [Threads -> Seq({"step", "grow", "message"})]
    /\ todo \in [Threads -> Seq({"step", "grow", "message"})]
    /\ handed \in Seq(Events) /\ shown \in Seq(Events)
    /\ \A t \in Threads : stage[t] # "idle" => todo[t] # <<>>

\* Once the result is handed over the threads are done, and nothing follows it.
FinishInv == \A i \in 1..Len(Trail) : Trail[i] = Finished => i = Len(Trail) /\ Joined

\* A completed bar is on its way from the thread that completed it, or handed over.
CompleteInv ==
    Complete(counter) =>
      \/ \E t \in Threads : stage[t] \in {"throttle", "hand"} /\ snap[t] = counter
      \/ \E i \in 1..Len(Trail) : Trail[i] = counter

\* The last snapshot handed over is s.
LastSnapshot(s) ==
    \E i \in 1..Len(Trail) : /\ Trail[i] = s
                             /\ \A j \in 1..Len(Trail) : j > i => Trail[j] = Finished

\* A thread that is alone hands over and writes its snapshots in order.
Alone(t) == \A u \in Threads \ {t} : script[u] = <<>>
SoloInv ==
    \A t \in Threads : Alone(t) =>
      /\ \A u \in Threads \ {t} : todo[u] = <<>> /\ stage[u] = "idle"
      /\ Complete(counter) =>
           /\ stage[t] \in {"throttle", "hand", "persist"} => snap[t] = counter
           /\ stage[t] \in {"persist", "idle"} => LastSnapshot(counter)
           /\ stage[t] = "idle" => persisted = counter

ProgressInv == ProgressType /\ FinishInv /\ CompleteInv /\ SoloInv

LEMMA Counts ==
    ASSUME counter \in Snapshots, NEW call \in {"step", "grow", "message"}
    PROVE  CountedOn(call) \in Snapshots
<1>1. counter.current + 1 \in Nat /\ counter.total + 1 \in Nat
  BY DEF Snapshots
<1>2. CASE call = "step"
  BY <1>1, <1>2 DEF CountedOn, Snapshots
<1>3. CASE call = "grow"
  BY <1>1, <1>3 DEF CountedOn, Snapshots
<1>4. CASE call = "message"
  BY <1>4 DEF CountedOn, Snapshots
<1> QED
  BY <1>2, <1>3, <1>4

LEMMA TrailFacts ==
    ASSUME ProgressType
    PROVE  /\ Trail \in Seq(Events) /\ Len(Trail) = Len(shown) + Len(handed)
           /\ Len(shown) \in Nat /\ Len(handed) \in Nat
           /\ \A i \in 1..Len(shown) : Trail[i] = shown[i]
  BY DEF ProgressType, Trail

LEMMA TrailGrows ==
    ASSUME ProgressType, NEW x \in Events, handed' = Append(handed, x), shown' = shown
    PROVE  /\ Len(Trail') = Len(Trail) + 1 /\ Len(Trail) \in Nat
           /\ Trail'[Len(Trail) + 1] = x
           /\ \A i \in 1..Len(Trail) : Trail'[i] = Trail[i]
<1>1. handed \in Seq(Events) /\ shown \in Seq(Events) /\ Append(handed, x) \in Seq(Events)
  BY DEF ProgressType
<1> QED
  BY <1>1 DEF Trail

LEMMA TrailMoves ==
    ASSUME ProgressType, LoopPublish
    PROVE  Trail' = Trail
<1>1. /\ handed \in Seq(Events) /\ shown \in Seq(Events) /\ handed # <<>>
      /\ shown' = Append(shown, Head(handed)) /\ handed' = Tail(handed)
  BY DEF ProgressType, LoopPublish
<1>2. Head(handed) \in Events /\ Tail(handed) \in Seq(Events)
  BY <1>1
<1>3. Trail \in Seq(Events) /\ Trail' \in Seq(Events)
  BY <1>1, <1>2 DEF Trail
<1>4. /\ Len(Trail') = Len(Trail) /\ Len(Trail) = Len(shown) + Len(handed)
      /\ Len(shown) \in Nat /\ Len(handed) \in Nat \ {0}
  BY <1>1, <1>2 DEF Trail
<1>5. ASSUME NEW i \in 1..Len(Trail) PROVE Trail'[i] = Trail[i]
  <2>1. CASE i <= Len(shown)
    BY <1>1, <1>2, <1>4, <2>1 DEF Trail
  <2>2. CASE i = Len(shown) + 1
    BY <1>1, <1>2, <1>4, <2>2 DEF Trail
  <2>3. CASE i > Len(shown) + 1
    BY <1>1, <1>2, <1>4, <2>3 DEF Trail
  <2> QED
    BY <1>4, <2>1, <2>2, <2>3
<1> QED
  BY <1>3, <1>4, <1>5, SeqEqual

LEMMA ProgressTypeStep ==
    ASSUME ProgressType, [ProgressNext]_progressVars
    PROVE  ProgressType'
<1> USE DEF ProgressType
<1>1. ASSUME NEW t \in Threads, Update(t) PROVE ProgressType'
  <2>1. Head(todo[t]) \in {"step", "grow", "message"}
    BY <1>1 DEF Update
  <2>2. counter' \in Snapshots
    BY <1>1, <2>1, Counts DEF Update
  <2> QED
    BY <1>1, <2>2 DEF Update
<1>2. ASSUME NEW t \in Threads, Throttle(t) PROVE ProgressType'
  BY <1>2 DEF Throttle
<1>3. ASSUME NEW t \in Threads, HandOver(t) PROVE ProgressType'
  BY <1>3 DEF HandOver, Events
<1>4. ASSUME NEW t \in Threads, Persist(t) PROVE ProgressType'
  BY <1>4 DEF Persist
<1>5. CASE Return
  BY <1>5 DEF Return, Events
<1>6. CASE LoopPublish
  BY <1>6 DEF LoopPublish
<1>7. CASE UNCHANGED progressVars
  BY <1>7 DEF progressVars
<1> QED
  BY <1>1, <1>2, <1>3, <1>4, <1>5, <1>6, <1>7 DEF ProgressNext

\* A snapshot is not the end of the module.
LEMMA NotFinished == \A s \in Snapshots : s # Finished
BY DEF Snapshots, Finished

LEMMA FinishStep ==
    ASSUME ProgressType, FinishInv, [ProgressNext]_progressVars
    PROVE  FinishInv'
<1>1. ASSUME NEW t \in Threads, Update(t) \/ Throttle(t) \/ Persist(t) PROVE FinishInv'
  <2>1. Trail' = Trail /\ ~Joined
    BY <1>1 DEF Trail, Update, Throttle, Persist, Joined
  <2> QED
    BY <2>1 DEF FinishInv
<1>2. ASSUME NEW t \in Threads, HandOver(t) PROVE FinishInv'
  <2>1. ~Joined /\ snap[t] \in Snapshots /\ handed' = Append(handed, snap[t]) /\ shown' = shown
    BY <1>2 DEF HandOver, Joined, ProgressType
  <2>2. /\ Len(Trail') = Len(Trail) + 1 /\ Len(Trail) \in Nat /\ Trail'[Len(Trail) + 1] = snap[t]
        /\ \A i \in 1..Len(Trail) : Trail'[i] = Trail[i]
    BY <2>1, TrailGrows DEF Events
  <2> QED
    BY <2>1, <2>2, NotFinished DEF FinishInv
<1>3. CASE Return
  <2>1. /\ Joined /\ Joined' /\ handed' = Append(handed, Finished) /\ shown' = shown
        /\ Finished \notin ToSet(handed \o shown)
    BY <1>3 DEF Return, Joined, ReportedBy
  <2>2. \A i \in 1..Len(Trail) : Trail[i] # Finished
    <3>0. handed \in Seq(Events) /\ shown \in Seq(Events) /\ handed \o shown \in Seq(Events)
      BY DEF ProgressType
    <3>1. /\ handed \in Seq(Events) /\ shown \in Seq(Events)
          /\ \A i \in 1..Len(handed \o shown) : (handed \o shown)[i] # Finished
      <4>1. DOMAIN (handed \o shown) = 1..Len(handed \o shown)
        BY <3>0, LenProperties
      <4> QED
        BY <2>1, <3>0, <4>1 DEF ToSet
    <3>2. \A i \in 1..Len(handed) : handed[i] # Finished
      <4> TAKE i \in 1..Len(handed)
      <4>1. i \in 1..Len(handed \o shown) /\ (handed \o shown)[i] = handed[i]
        BY <3>1
      <4> QED
        BY <3>1, <4>1
    <3>3. \A i \in 1..Len(shown) : shown[i] # Finished
      <4> TAKE i \in 1..Len(shown)
      <4>1. /\ Len(handed) + i \in 1..Len(handed \o shown)
            /\ (handed \o shown)[Len(handed) + i] = shown[i]
        BY <3>1
      <4> QED
        BY <3>1, <4>1
    <3> QED
      BY <3>1, <3>2, <3>3 DEF Trail
  <2> QED
    BY <2>1, <2>2, TrailGrows DEF FinishInv, Events
<1>4. CASE LoopPublish
  <2>1. Joined' = Joined
    BY <1>4 DEF LoopPublish, Joined
  <2> QED
    BY <1>4, <2>1, TrailMoves DEF FinishInv
<1>5. CASE UNCHANGED progressVars
  BY <1>5 DEF progressVars, FinishInv, Trail, Joined
<1> QED
  BY <1>1, <1>2, <1>3, <1>4, <1>5 DEF ProgressNext

LEMMA CompleteStep ==
    ASSUME ProgressType, CompleteInv, [ProgressNext]_progressVars
    PROVE  CompleteInv'
<1> USE DEF CompleteInv
<1>1. ASSUME NEW t \in Threads, Update(t) PROVE CompleteInv'
  BY <1>1 DEF Update, ProgressType
<1>2. ASSUME NEW t \in Threads, Throttle(t) PROVE CompleteInv'
  <2>1. /\ stage[t] = "throttle" /\ \A u \in Threads \ {t} : stage'[u] = stage[u]
        /\ Complete(snap[t]) => stage'[t] = "hand"
        /\ counter' = counter /\ snap' = snap /\ Trail' = Trail
    BY <1>2 DEF Throttle, ProgressType, Passes, Trail
  <2> QED
    BY <2>1
<1>3. ASSUME NEW t \in Threads, HandOver(t) PROVE CompleteInv'
  <2>1. /\ snap[t] \in Snapshots /\ handed' = Append(handed, snap[t]) /\ shown' = shown
        /\ \A u \in Threads \ {t} : stage'[u] = stage[u]
        /\ counter' = counter /\ snap' = snap
    BY <1>3 DEF HandOver, ProgressType
  <2>2. /\ Len(Trail') = Len(Trail) + 1 /\ Len(Trail) \in Nat /\ Trail'[Len(Trail) + 1] = snap[t]
        /\ \A i \in 1..Len(Trail) : Trail'[i] = Trail[i]
    BY <2>1, TrailGrows DEF Events
  <2>3. CASE snap[t] = counter
    BY <2>1, <2>2, <2>3
  <2>4. CASE snap[t] # counter
    BY <2>1, <2>2, <2>4
  <2> QED
    BY <2>3, <2>4
<1>4. ASSUME NEW t \in Threads, Persist(t) PROVE CompleteInv'
  BY <1>4 DEF Persist, ProgressType, Trail
<1>5. CASE Return
  <2>1. /\ counter' = counter /\ snap' = snap /\ stage' = stage
        /\ handed' = Append(handed, Finished) /\ shown' = shown
    BY <1>5 DEF Return
  <2>2. /\ Len(Trail') = Len(Trail) + 1 /\ Len(Trail) \in Nat
        /\ \A i \in 1..Len(Trail) : Trail'[i] = Trail[i]
    BY <2>1, TrailGrows DEF Events
  <2> QED
    BY <2>1, <2>2
<1>6. CASE LoopPublish
  BY <1>6, TrailMoves DEF LoopPublish
<1>7. CASE UNCHANGED progressVars
  BY <1>7 DEF progressVars, Trail
<1> QED
  BY <1>1, <1>2, <1>3, <1>4, <1>5, <1>6, <1>7 DEF ProgressNext

LEMMA SoloStep ==
    ASSUME ProgressType, FinishInv, SoloInv, [ProgressNext]_progressVars
    PROVE  SoloInv'
<1> SUFFICES ASSUME NEW t \in Threads, Alone(t)'
             PROVE  /\ \A u \in Threads \ {t} : todo'[u] = <<>> /\ stage'[u] = "idle"
                    /\ Complete(counter') =>
                         /\ stage'[t] \in {"throttle", "hand", "persist"} => snap'[t] = counter'
                         /\ stage'[t] \in {"persist", "idle"} => LastSnapshot(counter)'
                         /\ stage'[t] = "idle" => persisted' = counter'
  BY DEF SoloInv
<1>1. Alone(t)
  BY DEF Alone, ProgressNext, Update, Throttle, HandOver, Persist, Return, LoopPublish, progressVars
<1>2. \A u \in Threads \ {t} : todo[u] = <<>> /\ stage[u] = "idle"
  BY <1>1 DEF SoloInv
<1>3. Complete(counter) =>
        /\ stage[t] \in {"throttle", "hand", "persist"} => snap[t] = counter
        /\ stage[t] \in {"persist", "idle"} => LastSnapshot(counter)
        /\ stage[t] = "idle" => persisted = counter
  BY <1>1 DEF SoloInv
<1>4. ASSUME NEW u \in Threads, Update(u) \/ Throttle(u) \/ HandOver(u) \/ Persist(u)
      PROVE  u = t
  BY <1>2, <1>4 DEF Update, Throttle, HandOver, Persist
<1>5. CASE Update(t)
  BY <1>2, <1>5 DEF Update, ProgressType
<1>6. CASE Throttle(t)
  <2>1. /\ stage[t] = "throttle" /\ \A u \in Threads \ {t} : stage'[u] = stage[u] /\ todo'[u] = todo[u]
        /\ stage'[t] \in {"hand", "idle"} /\ (Complete(snap[t]) => stage'[t] = "hand")
        /\ counter' = counter /\ snap' = snap
    BY <1>6 DEF Throttle, ProgressType, Passes
  <2> QED
    BY <1>2, <1>3, <2>1
<1>7. CASE HandOver(t)
  <2>1. /\ stage[t] = "hand" /\ snap[t] \in Snapshots /\ handed' = Append(handed, snap[t])
        /\ shown' = shown /\ stage'[t] = "persist" /\ \A u \in Threads \ {t} : stage'[u] = stage[u]
        /\ counter' = counter /\ snap' = snap /\ todo' = todo
    BY <1>7 DEF HandOver, ProgressType
  <2>2. /\ Len(Trail') = Len(Trail) + 1 /\ Len(Trail) \in Nat /\ Trail'[Len(Trail) + 1] = snap[t]
    BY <2>1, TrailGrows DEF Events
  <2>3. snap[t] = counter => LastSnapshot(counter)'
    BY <2>1, <2>2 DEF LastSnapshot
  <2> QED
    BY <1>2, <1>3, <2>1, <2>3
<1>8. CASE Persist(t)
  <2>1. /\ stage[t] = "persist" /\ persisted' = snap[t] /\ stage'[t] = "idle"
        /\ \A u \in Threads \ {t} : stage'[u] = stage[u] /\ todo'[u] = todo[u]
        /\ counter' = counter /\ Trail' = Trail
    BY <1>8 DEF Persist, ProgressType, Trail
  <2> QED
    BY <1>2, <1>3, <2>1 DEF LastSnapshot
<1>9. CASE Return
  <2>1. /\ counter' = counter /\ snap' = snap /\ stage' = stage /\ todo' = todo
        /\ persisted' = persisted /\ handed' = Append(handed, Finished) /\ shown' = shown
    BY <1>9 DEF Return
  <2>2. /\ Len(Trail') = Len(Trail) + 1 /\ Len(Trail) \in Nat /\ Trail'[Len(Trail) + 1] = Finished
        /\ \A i \in 1..Len(Trail) : Trail'[i] = Trail[i]
    BY <2>1, TrailGrows DEF Events
  <2>3. LastSnapshot(counter) => LastSnapshot(counter)'
    BY <2>1, <2>2 DEF LastSnapshot
  <2> QED
    BY <1>2, <1>3, <2>1, <2>3
<1>10. CASE LoopPublish
  <2>1. /\ counter' = counter /\ snap' = snap /\ stage' = stage /\ todo' = todo
        /\ persisted' = persisted
    BY <1>10 DEF LoopPublish
  <2>2. LastSnapshot(counter)' <=> LastSnapshot(counter)
    BY <1>10, <2>1, TrailMoves DEF LastSnapshot
  <2> QED
    BY <1>2, <1>3, <2>1, <2>2
<1>11. CASE UNCHANGED progressVars
  BY <1>2, <1>3, <1>11 DEF progressVars, LastSnapshot, Trail
<1> QED
  BY <1>4, <1>5, <1>6, <1>7, <1>8, <1>9, <1>10, <1>11 DEF ProgressNext

LEMMA ProgressHolds == ASSUME ProgressInit PROVE ProgressInv
<1> DEFINE first == [Zero EXCEPT !.total = FirstTotal]
<1>1. first \in Snapshots /\ Zero \in Snapshots /\ ~Complete(first)
  <2>1. Zero \in Snapshots /\ Zero.current = 0 /\ FirstTotal \in Nat
    BY ScriptAssumption DEF Zero, Snapshots, ScriptAssumption
  <2>2. first \in Snapshots /\ first.current = 0 /\ first.total = FirstTotal
    BY <2>1 DEF Snapshots
  <2> QED
    BY <2>1, <2>2 DEF Complete
<1> HIDE DEF first
<1>2. ProgressType /\ counter = first /\ handed = <<first>> /\ shown = <<>>
  BY <1>1, ScriptAssumption DEF ProgressInit, ProgressType, ScriptAssumption, Events, first
<1>3. Len(Trail) = 1 /\ Trail[1] = first
  BY <1>2 DEF Trail
<1>4. \A t \in Threads : todo[t] = script[t] /\ stage[t] = "idle"
  BY DEF ProgressInit
<1> QED
  BY <1>1, <1>2, <1>3, <1>4, NotFinished DEF ProgressInv, FinishInv, CompleteInv, SoloInv, Alone

LEMMA ProgressImplied == ASSUME ProgressInv PROVE ProgressTrue
<1>1. ProgressType /\ FinishInv /\ CompleteInv /\ SoloInv
  BY DEF ProgressInv
<1>2. ASSUME NEW i \in 1..Len(shown), shown[i] = Finished
      PROVE  i = Len(shown) /\ Len(handed) = 0 /\ Joined
  BY <1>1, <1>2, TrailFacts DEF FinishInv
<1>3. NothingAfterFinish
  BY <1>2 DEF NothingAfterFinish
<1>4. ASSUME Over PROVE Joined /\ Len(Trail) = Len(shown) /\ Len(shown) \in Nat \ {0}
                        /\ shown[Len(shown)] = Finished
  <2>1. PICK i \in 1..Len(shown) : shown[i] = Finished
    BY <1>1, <1>4 DEF Over, ProgressType, ToSet
  <2> QED
    BY <1>1, <1>2, <2>1, TrailFacts
<1>5. ASSUME Over, Complete(counter) PROVE \E s \in ToSet(shown) \ {Finished} : s = counter
  <2>1. PICK i \in 1..Len(Trail) : Trail[i] = counter
    BY <1>1, <1>4, <1>5 DEF CompleteInv, Joined
  <2>2. i \in 1..Len(shown) /\ shown[i] = counter
    BY <1>1, <1>4, <1>5, <2>1, TrailFacts
  <2>3. counter \in ToSet(shown)
    BY <1>1, <2>2 DEF ProgressType, ToSet
  <2> QED
    BY <1>1, <2>3, NotFinished DEF ProgressType
<1>6. ASSUME Solo, Over, Complete(counter) PROVE persisted = counter /\ shown[Len(shown) - 1] = counter
  <2>1. PICK t \in Threads : Alone(t)
    BY <1>6 DEF Solo, Alone
  <2>2. stage[t] = "idle"
    BY <1>4, <1>6 DEF Joined
  <2>3. persisted = counter /\ LastSnapshot(counter)
    BY <1>1, <1>6, <2>1, <2>2 DEF SoloInv
  <2>4. PICK i \in 1..Len(Trail) : /\ Trail[i] = counter
                                   /\ \A j \in 1..Len(Trail) : j > i => Trail[j] = Finished
    BY <2>3 DEF LastSnapshot
  <2>5. i # Len(shown)
    BY <1>1, <1>4, <1>6, <2>4, TrailFacts, NotFinished DEF ProgressType
  <2>6. i = Len(shown) - 1
    <3> SUFFICES ASSUME i < Len(shown) - 1 PROVE FALSE
      BY <1>4, <1>6, <2>4, <2>5
    <3>1. i + 1 \in 1..Len(Trail) /\ i + 1 > i /\ i + 1 # Len(Trail)
      BY <1>4, <1>6, <2>4
    <3> QED
      BY <1>1, <2>4, <3>1 DEF FinishInv
  <2> QED
    BY <1>1, <1>4, <1>6, <2>3, <2>4, <2>6, TrailFacts
<1> QED
  BY <1>3, <1>5, <1>6 DEF ProgressTrue, CompletionShown, FinalSnapshotExact

\* What a page and run.json show of a module that is over is its end, for any number
\* of threads and any calls of theirs (CallbackProgress, _emit of JobRunner._run).
THEOREM ProgressIsTrue == ProgressSpec => []ProgressTrue
<1>1. ProgressInv /\ [ProgressNext]_progressVars => ProgressInv'
  BY ProgressTypeStep, FinishStep, CompleteStep, SoloStep DEF ProgressInv
<1> QED
  BY <1>1, ProgressHolds, ProgressImplied, PTL DEF ProgressSpec

(***************************************************************************)
(* The parts of a pool.                                                    *)
(***************************************************************************)
Computed == <<"top_consumed_objects", "distribution_advisor", "tsql_surface_gap">>
Reasons == {"status", "unmapped principal", "unreachable", "all methods refused"}
PartNames == {Collectors[i] : i \in 1..12} \cup {Computed[i] : i \in 1..3}
ErrorNames == PartNames \cup Reasons

\* Twelve collectors and the three parts computed from them make fifteen.
LEMMA Fifteen ==
    ASSUME NEW S, NEW s \in Seq(S), NEW t \in Seq(S), Len(s) = 12, Len(t) = 3
    PROVE  /\ s \o t \in Seq(S) /\ Len(s \o t) = 15
           /\ \A i \in 1..15 : (s \o t)[i] = IF i <= 12 THEN s[i] ELSE t[i - 12]
<1> DEFINE P(m, n) == /\ s \o t \in Seq(S) /\ Len(s \o t) = m + n
           /\ \A i \in 1..(m + n) : (s \o t)[i] = IF i <= m THEN s[i] ELSE t[i - m]
<1>1. ASSUME NEW m \in Nat, NEW n \in Nat, Len(s) = m, Len(t) = n
      PROVE  P(m, n)
  BY <1>1, ConcatProperties
<1>2. 12 \in Nat /\ 3 \in Nat 
  OBVIOUS
<1>3. P(12, 3)
  <2> HIDE DEF P
  <2> QED BY <1>1, <1>2, Zenon
<1>4. 12 + 3 = 15
  OBVIOUS
<1> QED
  BY <1>3, <1>4, Zenon
\* What the parts of a pool are.
LEMMA PartsAre ==
    /\ Len(Parts) = 15 /\ Parts \in Seq(PartNames) /\ StepsPerPool = 15
    /\ \A i \in 1..15 : Parts[i] = IF i <= 12 THEN Collectors[i] ELSE Computed[i - 12]
<1>1. Collectors \in Seq(PartNames) /\ Len(Collectors) = 12
  BY DEF Collectors, PartNames
<1>2. Computed \in Seq(PartNames) /\ Len(Computed) = 3
  BY DEF Computed, PartNames
<1>3. Parts = Collectors \o Computed
  BY DEF Parts, Computed
<1>5. /\ Collectors \o Computed \in Seq(PartNames) /\ Len(Collectors \o Computed) = 15
      /\ \A i \in 1..15 : (Collectors \o Computed)[i] = IF i <= 12 THEN Collectors[i] ELSE Computed[i - 12]
  BY <1>1, <1>2, Fifteen, Zenon
<1> QED
  BY <1>3, <1>5, Zenon DEF StepsPerPool
\* No part is named twice.
LEMMA PartsDiffer == \A i, j \in 1..15 : Parts[i] = Parts[j] => i = j
<1>1. \A i, j \in 1..12 : Collectors[i] = Collectors[j] => i = j
  BY DEF Collectors
<1>2. \A i, j \in 1..3 : Computed[i] = Computed[j] => i = j
  BY DEF Computed
<1>3. \A i \in 1..12, j \in 1..3 : Collectors[i] # Computed[j]
  BY DEF Collectors, Computed
<1>4. ASSUME NEW i \in 1..15, NEW j \in 1..15, Parts[i] = Parts[j]
      PROVE  i = j
  <2>1. \A k \in 1..15 : \/ k \in 1..12 /\ Parts[k] = Collectors[k]
                         \/ k - 12 \in 1..3 /\ Parts[k] = Computed[k - 12]
    <3>1. ASSUME NEW k \in 1..15, k <= 12
          PROVE  k \in 1..12 /\ Parts[k] = Collectors[k]
      <4>1. k \in 1..12
        BY <3>1
      <4>2. Parts[k] = Collectors[k]
        BY <3>1, PartsAre, Zenon
      <4> QED
        BY <4>1, <4>2
    <3>2. ASSUME NEW k \in 1..15, ~(k <= 12)
          PROVE  k - 12 \in 1..3 /\ Parts[k] = Computed[k - 12]
      <4>1. k - 12 \in 1..3
        BY <3>2
      <4>2. Parts[k] = Computed[k - 12]
        BY <3>2, PartsAre, Zenon
      <4> QED
        BY <4>1, <4>2
    <3> QED
      BY <3>1, <3>2, Zenon
  <2> QED
    BY <1>1, <1>2, <1>3, <1>4, <2>1
<1> QED
  BY <1>4
\* The parts up to one more, and that the one is new.
LEMMA PartsMore ==
    ASSUME NEW P, NEW n \in Nat
    PROVE  {P[i] : i \in 1..(n + 1)} = {P[i] : i \in 1..n} \cup {P[n + 1]}
OBVIOUS
LEMMA PartNew ==
    ASSUME NEW P, NEW N \in Nat, \A i, j \in 1..N : P[i] = P[j] => i = j, NEW n \in 0..(N - 1)
    PROVE  P[n + 1] \notin {P[i] : i \in 1..n}
OBVIOUS

(***************************************************************************)
(* The steps the progress counts are the sum over the pools.               *)
(***************************************************************************)
CountedSteps == [p \in DedPools |-> IF LeftOut(p) THEN StepsPerPool ELSE poolWork[p].part]

LEMMA FinitePools == IsFiniteSet(DedPools) /\ Cardinality(DedPools) = PoolCount
BY FS_Interval, DedicatedAssumption DEF DedPools

\* The sum of the property is that of the function CountedSteps.
LEMMA CountedTotal ==
    Total(CountedSteps, DedPools)
      = MapThenSumSet(LAMBDA p : IF LeftOut(p) THEN StepsPerPool ELSE poolWork[p].part, DedPools)
<1> DEFINE Count(p) == IF LeftOut(p) THEN StepsPerPool ELSE poolWork[p].part
           A(g) == g = [s \in SUBSET DedPools |-> IF s = {} THEN 0 ELSE Count(Pick(s)) + g[s \ {Pick(s)}]]
           B(g) == g = [s \in SUBSET DedPools |-> IF s = {} THEN 0 ELSE CountedSteps[Pick(s)] + g[s \ {Pick(s)}]]
<1>1. ASSUME NEW g
      PROVE  A(g) <=> B(g)
  BY Picked DEF CountedSteps
<1>2. (CHOOSE g : A(g)) = (CHOOSE g : B(g))
  <2> HIDE DEF A, B
  <2> QED
    BY <1>1
<1>3. MapThenSumSet(LAMBDA p : Count(p), DedPools) = (CHOOSE g : A(g))[DedPools]
  <2> HIDE DEF Count
  <2> QED
    BY DEF MapThenSumSet, MapThenFoldSet, Pick
<1>4. Total(CountedSteps, DedPools) = (CHOOSE g : B(g))[DedPools]
  BY DEF Total, MapThenSumSet, MapThenFoldSet, Pick
<1> QED
  BY <1>2, <1>3, <1>4

(***************************************************************************)
(* The work on a pool.                                                     *)
(***************************************************************************)
Waiting == {"queued", "listed", "retrying"}
Answers(w) ==
    /\ w.collected \cap ToSet(w.errors) = {}
    /\ w.collected \cup ToSet(w.errors) = {Parts[i] : i \in 1..w.part}
    /\ Cardinality(ToSet(w.errors)) = Len(w.errors)
PoolInv(w) ==
    /\ DOMAIN w = DOMAIN NothingCollected
    /\ w.phase \in Waiting \cup {"collecting", "done"} /\ w.part \in 0..15
    /\ w.errors \in Seq(ErrorNames)
    /\ w.phase \in Waiting =>
         w.part = 0 /\ w.errors = <<>> /\ w.collected = {} /\ w.advice = {} /\ w.verdicts = {}
    /\ w.phase = "collecting" => w.part < 15
    /\ w.phase = "done" => w.part \in {0, 15}
    /\ IF w.phase = "done" /\ w.part = 0
       THEN Len(w.errors) = 1 /\ w.collected = {} /\ w.advice = {} /\ w.verdicts = {}
       ELSE Answers(w)
PartsInv ==
    /\ poolWork = [p \in DedPools |-> poolWork[p]]
    /\ \A p \in DedPools : PoolInv(poolWork[p])
    /\ poolSteps = Total(CountedSteps, DedPools)
    /\ dedicatedStage = "done" => \A p \in DedPools : poolWork[p].phase = "done"

\* A pool changes, and the steps of that pool with it.
Count(w) == IF w.phase = "done" /\ w.part = 0 THEN StepsPerPool ELSE w.part
LEMMA StepsMove ==
    ASSUME PartsInv, NEW p \in DedPools, NEW w, PoolInv(w), Work(p, w),
           poolSteps' = poolSteps + Count(w) - Count(poolWork[p]), UNCHANGED dedicatedStage,
           poolWork[p].phase # "done"
    PROVE  PartsInv'
<1>1. poolWork' = [q \in DedPools |-> IF q = p THEN w ELSE poolWork[q]]
  BY DEF PartsInv, Work
<1>2. /\ poolWork'[p] = w /\ \A q \in DedPools \ {p} : poolWork'[q] = poolWork[q]
      /\ poolWork' = [q \in DedPools |-> poolWork'[q]]
  BY <1>1
<1>3. \A q \in DedPools : PoolInv(poolWork'[q])
  BY <1>2 DEF PartsInv
<1>4. /\ \A q \in DedPools : CountedSteps[q] = Count(poolWork[q]) /\ CountedSteps'[q] = Count(poolWork'[q])
      /\ \A q \in DedPools : CountedSteps[q] \in Int /\ CountedSteps'[q] \in Int
  <2>1. \A q \in DedPools : CountedSteps[q] = Count(poolWork[q]) /\ CountedSteps'[q] = Count(poolWork'[q])
    BY DEF CountedSteps, Count, LeftOut
  <2>2. \A v : PoolInv(v) => Count(v) \in Int
    BY PartsAre DEF PoolInv, Count
  <2> QED
    BY <1>3, <2>1, <2>2 DEF PartsInv
<1>5. Total(CountedSteps', DedPools) = Total(CountedSteps, DedPools) - CountedSteps[p] + CountedSteps'[p]
  BY <1>2, <1>4, FinitePools, TotalUpdate
<1>6. Total(CountedSteps, DedPools) \in Int
  BY <1>4, FinitePools, TotalInt
<1>7. poolSteps' = Total(CountedSteps', DedPools)
  BY <1>2, <1>4, <1>5, <1>6 DEF PartsInv
<1> QED
  BY <1>2, <1>3, <1>7 DEF PartsInv

\* One more part: it is kept or it failed.
LEMMA StepsInt == PartsInv => poolSteps \in Int
<1>1. ASSUME PartsInv, NEW q \in DedPools
      PROVE  CountedSteps[q] \in Int
  BY <1>1, PartsAre DEF PartsInv, PoolInv, CountedSteps
<1> QED
  BY <1>1, FinitePools, TotalInt DEF PartsInv

\* The elements of a sequence that grows.
LEMMA Elements ==
    ASSUME NEW S, NEW s \in Seq(S), NEW e
    PROVE  ToSet(Append(s, e)) = ToSet(s) \cup {e}
<1>1. Len(Append(s, e)) = Len(s) + 1 /\ DOMAIN s = 1..Len(s) /\ DOMAIN Append(s, e) = 1..(Len(s) + 1)
      /\ Append(s, e)[Len(s) + 1] = e /\ \A i \in 1..Len(s) : Append(s, e)[i] = s[i]
  OBVIOUS
<1>2. Len(s) \in Nat
  OBVIOUS
<1> QED
  BY <1>1, <1>2 DEF ToSet

LEMMA FiniteElements == ASSUME NEW S, NEW s \in Seq(S) PROVE IsFiniteSet(ToSet(s))
<1>1. DOMAIN s = 1..Len(s) /\ Len(s) \in Nat
  OBVIOUS
<1>2. IsFiniteSet(DOMAIN s)
  BY <1>1, FS_Interval
<1> QED
  BY <1>2, FiniteImage DEF ToSet

\* What one more part adds to the parts that ran.
LEMMA NextPart ==
    ASSUME NEW n \in 0..14
    PROVE  /\ Parts[n + 1] \in PartNames
           /\ Parts[n + 1] \notin {Parts[i] : i \in 1..n}
           /\ {Parts[i] : i \in 1..(n + 1)} = {Parts[i] : i \in 1..n} \cup {Parts[n + 1]}
<1>1. n \in Nat /\ 15 \in Nat /\ n \in 0..(15 - 1) /\ n + 1 \in 1..15
  OBVIOUS
<1>2. {Parts[i] : i \in 1..(n + 1)} = {Parts[i] : i \in 1..n} \cup {Parts[n + 1]}
  BY <1>1, PartsMore, Zenon
<1>3. Parts[n + 1] \notin {Parts[i] : i \in 1..n}
  BY <1>1, PartsDiffer, PartNew, Zenon
<1>4. Parts[n + 1] \in PartNames
  <2>1. Parts \in [1..15 -> PartNames]
    <3>1. \A P \in Seq(PartNames), N \in Nat : Len(P) = N => P \in [1..N -> PartNames]
      OBVIOUS
    <3> QED
      BY <1>1, <3>1, PartsAre, Zenon
  <2> HIDE DEF Parts, PartNames
  <2> QED
    BY <1>1, <2>1
<1> QED
  BY <1>2, <1>3, <1>4

\* A part whose rows are kept leaves a pool that answers for its parts.
LEMMA PartKept ==
    ASSUME NEW w, NEW v, PoolInv(w), w.phase = "collecting",
           DOMAIN v = DOMAIN NothingCollected, v.part = w.part + 1,
           v.phase = IF w.part + 1 = Len(Parts) THEN "done" ELSE "collecting", v.errors = w.errors,
           v.collected = w.collected \cup {Parts[w.part + 1]}
    PROVE  PoolInv(v) /\ Count(v) = Count(w) + 1
<1>1. /\ w.part \in 0..14 /\ w.part + 1 \in 1..15 /\ w.errors \in Seq(ErrorNames) /\ Len(Parts) = 15
      /\ Answers(w)
  BY PartsAre DEF PoolInv, Waiting
<1>2. Answers(v)
  <2>1. /\ Parts[w.part + 1] \notin {Parts[i] : i \in 1..w.part}
        /\ {Parts[i] : i \in 1..v.part} = {Parts[i] : i \in 1..w.part} \cup {Parts[w.part + 1]}
    BY <1>1, NextPart, Zenon
  <2>2. v.collected \cap ToSet(v.errors) = {}
    BY <1>1, <2>1 DEF Answers
  <2>3. v.collected \cup ToSet(v.errors) = {Parts[i] : i \in 1..v.part}
    <3> DEFINE ran == {Parts[i] : i \in 1..w.part}
               runs == {Parts[i] : i \in 1..v.part}
               part == Parts[w.part + 1]
    <3>1. w.collected \cup ToSet(w.errors) = ran /\ runs = ran \cup {part} /\ v.collected = w.collected \cup {part}
      BY <1>1, <2>1, Zenon DEF Answers
    <3>2. v.collected \cup ToSet(v.errors) = runs
      <4> HIDE DEF ran, runs, part
      <4> QED
        BY <3>1
    <3> QED
      BY <3>2
  <2> QED
    BY <1>1, <2>2, <2>3, Zenon DEF Answers
<1>3. Count(v) = w.part + 1 /\ Count(w) = w.part
  BY <1>1 DEF Count
<1> QED
  BY <1>1, <1>2, <1>3 DEF PoolInv, Waiting

\* And so does a part that fails.
LEMMA PartFailed ==
    ASSUME NEW w, NEW v, PoolInv(w), w.phase = "collecting",
           DOMAIN v = DOMAIN NothingCollected, v.part = w.part + 1,
           v.phase = IF w.part + 1 = Len(Parts) THEN "done" ELSE "collecting",
           v.errors = Append(w.errors, Parts[w.part + 1]), v.collected = w.collected
    PROVE  PoolInv(v) /\ Count(v) = Count(w) + 1
<1>1. /\ w.part \in 0..14 /\ w.part + 1 \in 1..15 /\ w.errors \in Seq(ErrorNames) /\ Len(Parts) = 15
      /\ Answers(w)
  BY PartsAre DEF PoolInv, Waiting
<1>2. /\ Parts[w.part + 1] \notin {Parts[i] : i \in 1..w.part}
      /\ {Parts[i] : i \in 1..v.part} = {Parts[i] : i \in 1..w.part} \cup {Parts[w.part + 1]}
      /\ Parts[w.part + 1] \in ErrorNames
  <2>1. Parts[w.part + 1] \in PartNames
    BY <1>1, NextPart, Zenon
  <2>2. Parts[w.part + 1] \in ErrorNames
    BY <2>1, Zenon DEF ErrorNames
  <2> QED
    BY <1>1, <2>2, NextPart, Zenon
<1>3. ToSet(v.errors) = ToSet(w.errors) \cup {Parts[w.part + 1]}
  BY <1>1, Elements
<1>4. v.errors \in Seq(ErrorNames) /\ Len(v.errors) = Len(w.errors) + 1
  BY <1>1, <1>2
<1>5. Cardinality(ToSet(v.errors)) = Cardinality(ToSet(w.errors)) + 1
  <2>1. Parts[w.part + 1] \notin ToSet(w.errors)
    BY <1>1, <1>2 DEF Answers
  <2>2. IsFiniteSet(ToSet(w.errors))
    BY <1>1, FiniteElements
  <2> QED
    BY <1>3, <2>1, <2>2, FS_AddElement
<1>6. Answers(v)
  BY <1>1, <1>2, <1>3, <1>4, <1>5 DEF Answers
<1>7. Count(v) = w.part + 1 /\ Count(w) = w.part
  BY <1>1 DEF Count
<1> QED
  BY <1>1, <1>4, <1>6, <1>7 DEF PoolInv, Waiting

(***************************************************************************)
(* The steps of the analyzer.                                              *)
(***************************************************************************)
LEMMA NothingAnswered ==
    ASSUME NEW w, w.part = 0, w.errors = <<>>, w.collected = {}
    PROVE  Answers(w)
<1>1. ToSet(w.errors) = {} /\ Len(w.errors) = 0
  BY DEF ToSet
<1>2. {Parts[i] : i \in 1..w.part} = {}
  <2>1. 1..w.part = {}
    OBVIOUS
  <2> QED
    BY <2>1, Zenon
<1> QED
  BY <1>1, <1>2, FS_EmptySet DEF Answers

\* A pool that waits to be opened moves on, and no step is counted.
LEMMA WaitingMoves ==
    ASSUME PartsInv, NEW p \in DedPools, poolWork[p].phase \in Waiting,
           NEW v, Work(p, v), UNCHANGED <<poolSteps, dedicatedStage>>, DOMAIN v = DOMAIN NothingCollected,
           v.phase \in Waiting \cup {"collecting"},
           /\ v.part = poolWork[p].part /\ v.errors = poolWork[p].errors /\ v.collected = poolWork[p].collected
           /\ v.advice = poolWork[p].advice /\ v.verdicts = poolWork[p].verdicts
    PROVE  PartsInv'
<1>1. PoolInv(poolWork[p])
  BY DEF PartsInv
<1>2. v.part = 0 /\ v.errors = <<>> /\ v.collected = {} /\ v.advice = {} /\ v.verdicts = {}
  BY <1>1 DEF PoolInv
<1>3. PoolInv(v)
  BY <1>2, NothingAnswered DEF PoolInv, Waiting
<1>4. Count(v) = 0 /\ Count(poolWork[p]) = 0
  BY <1>1, <1>2 DEF PoolInv, Waiting, Count
<1>5. poolSteps \in Int
  BY StepsInt
<1> QED
  BY <1>3, <1>4, <1>5, StepsMove DEF Waiting

\* A worker takes a pool.
LEMMA TakePoolParts == ASSUME PartsInv, NEW p \in DedPools, TakePool(p) PROVE PartsInv'
<1>1. PICK d \in Databases : Work(p, [poolWork[p] EXCEPT !.phase = "listed", !.database = d])
  BY DEF TakePool
<1> DEFINE v == [poolWork[p] EXCEPT !.phase = "listed", !.database = d]
<1>2. /\ DOMAIN v = DOMAIN NothingCollected /\ v.phase = "listed"
      /\ v.part = poolWork[p].part /\ v.errors = poolWork[p].errors /\ v.collected = poolWork[p].collected
      /\ v.advice = poolWork[p].advice /\ v.verdicts = poolWork[p].verdicts
  BY DEF PartsInv, PoolInv, NothingCollected
<1>3. poolWork[p].phase \in Waiting /\ v.phase \in Waiting /\ Work(p, v) /\ UNCHANGED <<poolSteps, dedicatedStage>>
  BY <1>1, <1>2 DEF TakePool, Waiting
<1> HIDE DEF v
<1> QED
  BY <1>2, <1>3, WaitingMoves

\* The sign-in to a pool goes on.
LEMMA OpenToParts ==
    ASSUME PartsInv, NEW p \in DedPools, poolWork[p].phase \in Waiting,
           NEW phase \in {"collecting", "retrying"}, OpenTo(p, phase)
    PROVE  PartsInv'
<1> DEFINE v == [poolWork[p] EXCEPT !.phase = phase]
<1>1. /\ DOMAIN v = DOMAIN NothingCollected /\ v.phase = phase
      /\ v.part = poolWork[p].part /\ v.errors = poolWork[p].errors /\ v.collected = poolWork[p].collected
      /\ v.advice = poolWork[p].advice /\ v.verdicts = poolWork[p].verdicts
  BY DEF PartsInv, PoolInv, NothingCollected
<1>2. v.phase \in Waiting \cup {"collecting"} /\ Work(p, v) /\ UNCHANGED <<poolSteps, dedicatedStage>>
  BY <1>1 DEF OpenTo, Waiting
<1> HIDE DEF v
<1> QED
  BY <1>1, <1>2, WaitingMoves

\* A pool is left out: one reason, and all its steps at once.
LEMMA LeaveOutParts ==
    ASSUME PartsInv, NEW p \in DedPools, poolWork[p].phase \in Waiting, NEW why \in Reasons, LeaveOut(p, why)
    PROVE  PartsInv'
<1> DEFINE v == [poolWork[p] EXCEPT !.phase = "done", !.errors = Append(@, why)]
<1>1. PoolInv(poolWork[p]) /\ Work(p, v) /\ poolSteps' = poolSteps + StepsPerPool /\ UNCHANGED dedicatedStage
  BY DEF PartsInv, LeaveOut, CountSteps
<1>2. /\ DOMAIN v = DOMAIN NothingCollected /\ v.phase = "done" /\ v.errors = Append(poolWork[p].errors, why)
      /\ v.part = poolWork[p].part /\ v.collected = poolWork[p].collected
      /\ v.advice = poolWork[p].advice /\ v.verdicts = poolWork[p].verdicts
  BY <1>1 DEF PoolInv, NothingCollected
<1>3. /\ v.part = 0 /\ v.collected = {} /\ v.advice = {} /\ v.verdicts = {} /\ poolWork[p].errors = <<>>
      /\ poolWork[p].part = 0 /\ poolWork[p].phase # "done"
  BY <1>1, <1>2 DEF PoolInv, Waiting
<1> HIDE DEF v
<1>4. v.errors \in Seq(ErrorNames) /\ Len(v.errors) = 1
  BY <1>2, <1>3 DEF ErrorNames
<1>5. PoolInv(v)
  BY <1>2, <1>3, <1>4 DEF PoolInv, Waiting
<1>6. Count(v) = StepsPerPool /\ Count(poolWork[p]) = 0
  BY <1>2, <1>3 DEF Count
<1>7. poolSteps \in Int /\ StepsPerPool \in Int
  BY StepsInt, PartsAre
<1>8. poolSteps' = poolSteps + Count(v) - Count(poolWork[p])
  BY <1>1, <1>6, <1>7
<1> QED
  BY <1>1, <1>3, <1>5, <1>8, StepsMove

\* One more part of a pool: what it gives is kept, or its failure is.
LEMMA RunPartKept ==
    ASSUME PartsInv, NEW p \in DedPools, poolWork[p].phase = "collecting", NEW v, Work(p, v),
           CountSteps(p, 1), UNCHANGED dedicatedStage,
           DOMAIN v = DOMAIN NothingCollected, v.part = poolWork[p].part + 1,
           v.phase = IF poolWork[p].part + 1 = Len(Parts) THEN "done" ELSE "collecting",
           \/ v.errors = poolWork[p].errors /\ v.collected = poolWork[p].collected \cup {Parts[poolWork[p].part + 1]}
           \/ /\ v.errors = Append(poolWork[p].errors, Parts[poolWork[p].part + 1])
              /\ v.collected = poolWork[p].collected
    PROVE  PartsInv'
<1>1. PoolInv(poolWork[p])
  BY DEF PartsInv
<1>2. PoolInv(v) /\ Count(v) = Count(poolWork[p]) + 1
  BY <1>1, PartKept, PartFailed
<1>3. poolSteps \in Int /\ Count(poolWork[p]) \in Int
  BY <1>1, StepsInt, PartsAre DEF PoolInv, Count
<1>4. poolSteps' = poolSteps + Count(v) - Count(poolWork[p])
  BY <1>2, <1>3 DEF CountSteps
<1> QED
  BY <1>2, <1>4, StepsMove

\* One of the collectors, or the capture of the workload.
LEMMA CollectParts == ASSUME PartsInv, NEW p \in DedPools, Collect(p) PROVE PartsInv'
<1> DEFINE n == poolWork[p].part + 1
           after == [poolWork[p] EXCEPT !.part = n, !.phase = IF n = Len(Parts) THEN "done" ELSE @]
           kept == [after EXCEPT !.collected = @ \cup {Parts[after.part]}]
           failed == [after EXCEPT !.errors = Append(@, Parts[n])]
<1>1. /\ poolWork[p].phase = "collecting" /\ CountSteps(p, 1) /\ UNCHANGED dedicatedStage
      /\ Work(p, kept) \/ Work(p, failed)
  BY DEF Collect, RunPart
<1>2. /\ DOMAIN kept = DOMAIN NothingCollected /\ kept.part = n
      /\ kept.phase = IF n = Len(Parts) THEN "done" ELSE "collecting"
      /\ kept.errors = poolWork[p].errors /\ kept.collected = poolWork[p].collected \cup {Parts[n]}
  BY <1>1 DEF PartsInv, PoolInv, NothingCollected
<1>3. /\ DOMAIN failed = DOMAIN NothingCollected /\ failed.part = n
      /\ failed.phase = IF n = Len(Parts) THEN "done" ELSE "collecting"
      /\ failed.errors = Append(poolWork[p].errors, Parts[n]) /\ failed.collected = poolWork[p].collected
  BY <1>1 DEF PartsInv, PoolInv, NothingCollected
<1> HIDE DEF kept, failed
<1> QED
  BY <1>1, <1>2, <1>3, RunPartKept

\* The advisor, and after it the roll-up of the code objects.
LEMMA AdviseParts == ASSUME PartsInv, NEW p \in DedPools, Advise(p) PROVE PartsInv'
<1> DEFINE n == poolWork[p].part + 1
           after == [poolWork[p] EXCEPT !.part = n, !.phase = IF n = Len(Parts) THEN "done" ELSE @]
           held == poolWork[p].database
           may == ScoreColumns(RowsOf(p, "tables", held.tables), RowsOf(p, "indexes", held.indexes),
                               RowsOf(p, "column_stats", held.columns), RowsOf(p, "code_objects", held.objects))
           failed == [after EXCEPT !.errors = Append(@, Parts[n])]
<1>0. PICK advice \in may : RunPart(p, LAMBDA w : [w EXCEPT !.collected = @ \cup {"distribution_advisor"}, !.advice = advice])
  <2> HIDE DEF may
  <2> QED
    BY DEF Advise, may
<1> DEFINE kept == [after EXCEPT !.collected = @ \cup {"distribution_advisor"}, !.advice = advice]
<1>1. /\ poolWork[p].phase = "collecting" /\ CountSteps(p, 1) /\ UNCHANGED dedicatedStage /\ n = 14
      /\ Work(p, kept) \/ Work(p, failed)
  <2> HIDE DEF may
  <2> QED
    BY <1>0 DEF Advise, RunPart
<1>2. Parts[n] = "distribution_advisor"
  BY <1>1, PartsAre DEF Computed
<1>3. /\ DOMAIN kept = DOMAIN NothingCollected /\ kept.part = n
      /\ kept.phase = IF n = Len(Parts) THEN "done" ELSE "collecting"
      /\ kept.errors = poolWork[p].errors /\ kept.collected = poolWork[p].collected \cup {Parts[n]}
  BY <1>1, <1>2 DEF PartsInv, PoolInv, NothingCollected
<1>4. /\ DOMAIN failed = DOMAIN NothingCollected /\ failed.part = n
      /\ failed.phase = IF n = Len(Parts) THEN "done" ELSE "collecting"
      /\ failed.errors = Append(poolWork[p].errors, Parts[n]) /\ failed.collected = poolWork[p].collected
  BY <1>1 DEF PartsInv, PoolInv, NothingCollected
<1> HIDE DEF kept, failed
<1> QED
  BY <1>1, <1>3, <1>4, RunPartKept

LEMMA RollUpCodeParts == ASSUME PartsInv, NEW p \in DedPools, RollUpCode(p) PROVE PartsInv'
<1> DEFINE n == poolWork[p].part + 1
           after == [poolWork[p] EXCEPT !.part = n, !.phase = IF n = Len(Parts) THEN "done" ELSE @]
           objects == RowsOf(p, "code_objects", poolWork[p].database.objects)
           gaps == BuildGaps(objects)
           verdicts == StampCompatibility(objects, BuildGaps(objects))
           kept == [after EXCEPT !.collected = @ \cup {"tsql_surface_gap"}, !.gaps = gaps, !.verdicts = verdicts]
           failed == [after EXCEPT !.errors = Append(@, Parts[n])]
<1>1. /\ poolWork[p].phase = "collecting" /\ CountSteps(p, 1) /\ UNCHANGED dedicatedStage /\ n = 15
      /\ Work(p, kept) \/ Work(p, failed)
  BY DEF RollUpCode, RunPart
<1>2. Parts[n] = "tsql_surface_gap"
  BY <1>1, PartsAre DEF Computed
<1>3. /\ DOMAIN kept = DOMAIN NothingCollected /\ kept.part = n
      /\ kept.phase = IF n = Len(Parts) THEN "done" ELSE "collecting"
      /\ kept.errors = poolWork[p].errors /\ kept.collected = poolWork[p].collected \cup {Parts[n]}
  <2> HIDE DEF gaps, verdicts
  <2> QED
    BY <1>1, <1>2 DEF PartsInv, PoolInv, NothingCollected
<1>4. /\ DOMAIN failed = DOMAIN NothingCollected /\ failed.part = n
      /\ failed.phase = IF n = Len(Parts) THEN "done" ELSE "collecting"
      /\ failed.errors = Append(poolWork[p].errors, Parts[n]) /\ failed.collected = poolWork[p].collected
  BY <1>1 DEF PartsInv, PoolInv, NothingCollected
<1> HIDE DEF kept, failed
<1> QED
  BY <1>1, <1>3, <1>4, RunPartKept

\* The invariant holds of the pools as listed, and every step keeps it.
LEMMA PartsInit == DedicatedInit => PartsInv
<1> SUFFICES ASSUME DedicatedInit
             PROVE  PartsInv
  OBVIOUS
<1>1. ASSUME NEW p \in DedPools
      PROVE  /\ poolWork[p] = NothingCollected /\ PoolInv(poolWork[p]) /\ CountedSteps[p] = 0
  <2>1. poolWork[p] = NothingCollected
    BY DEF DedicatedInit
  <2>2. Answers(NothingCollected)
    BY NothingAnswered DEF NothingCollected
  <2> QED
    BY <2>1, <2>2 DEF NothingCollected, PoolInv, Waiting, CountedSteps, LeftOut
<1>2. Total(CountedSteps, DedPools) = 0
  <2>1. PoolCount \in Nat
    BY DedicatedAssumption
  <2> QED
    BY <1>1, <2>1, FinitePools, TotalConst
<1> QED
  BY <1>1, <1>2 DEF PartsInv, DedicatedInit

LEMMA PartsStep == PartsInv /\ [DedicatedNext]_dedVars => PartsInv'
<1> SUFFICES ASSUME PartsInv, [DedicatedNext]_dedVars
             PROVE  PartsInv'
  OBVIOUS
<1>1. CASE UNCHANGED dedVars
  <2>1. CountedSteps' = CountedSteps
    BY <1>1 DEF dedVars, CountedSteps, LeftOut
  <2> QED
    BY <1>1, <2>1 DEF dedVars, PartsInv
<1>2. CASE EndDedicated
  <2>1. CountedSteps' = CountedSteps
    BY <1>2 DEF EndDedicated, CountedSteps, LeftOut
  <2> QED
    BY <1>2, <2>1 DEF EndDedicated, PartsInv
<1>3. ASSUME NEW p \in DedPools,
             \/ TakePool(p) \/ NotOnline(p) \/ SignIn(p) \/ SignInRefused(p)
             \/ SignInDirect(p) \/ SignInDirectRefused(p) \/ Collect(p) \/ Advise(p) \/ RollUpCode(p)
      PROVE  PartsInv'
  <2>1. CASE TakePool(p)
    BY <2>1, TakePoolParts
  <2>2. CASE NotOnline(p)
    BY <2>2, LeaveOutParts DEF NotOnline, Waiting, Reasons
  <2>3. CASE SignIn(p)
    BY <2>3, OpenToParts DEF SignIn, Reachable, Waiting
  <2>4. CASE SignInRefused(p)
    BY <2>4, LeaveOutParts, OpenToParts DEF SignInRefused, Reachable, Waiting, Reasons
  <2>5. CASE SignInDirect(p)
    BY <2>5, OpenToParts DEF SignInDirect, Waiting
  <2>6. CASE SignInDirectRefused(p)
    BY <2>6, LeaveOutParts DEF SignInDirectRefused, Waiting, Reasons
  <2>7. CASE Collect(p) \/ Advise(p) \/ RollUpCode(p)
    BY <2>7, CollectParts, AdviseParts, RollUpCodeParts
  <2> QED
    BY <1>3, <2>1, <2>2, <2>3, <2>4, <2>5, <2>6, <2>7
<1> QED
  BY <1>1, <1>2, <1>3 DEF DedicatedNext

\* What the invariant says of the report and of the bar.
LEMMA PartsTell == PartsInv => EveryPartAnswered
<1> SUFFICES ASSUME PartsInv
             PROVE  EveryPartAnswered
  OBVIOUS
<1>1. poolSteps = MapThenSumSet(LAMBDA p : IF LeftOut(p) THEN StepsPerPool ELSE poolWork[p].part, DedPools)
  BY CountedTotal DEF PartsInv
<1>2. ASSUME dedicatedStage = "done"
      PROVE  poolSteps = 15 * PoolCount
  <2>1. \A p \in DedPools : CountedSteps[p] = 15
    BY <1>2, PartsAre DEF PartsInv, PoolInv, CountedSteps, LeftOut
  <2>2. Total(CountedSteps, DedPools) = 15 * Cardinality(DedPools)
    BY <2>1, FinitePools, TotalConst
  <2> QED
    BY <2>2, FinitePools DEF PartsInv
<1>3. ASSUME NEW p \in DedPools
      PROVE  IF LeftOut(p) THEN /\ Len(poolWork[p].errors) = 1 /\ poolWork[p].collected = {}
                                /\ poolWork[p].advice = {} /\ poolWork[p].verdicts = {}
             ELSE Answers(poolWork[p])
  BY DEF PartsInv, PoolInv, LeftOut
<1> QED
  BY <1>1, <1>2, <1>3 DEF EveryPartAnswered, Answers

(* Whatever fails, and in whatever order the workers come to it, the report   *)
(* answers for every part of every pool and the bar ends exactly full, for any *)
(* number of pools and workers (DedicatedPools, collectors/runner.py).         *)
THEOREM PartsAnswered == DedicatedSpec => []EveryPartAnswered
<1>1. DedicatedInit => PartsInv
  BY PartsInit
<1>2. PartsInv /\ [DedicatedNext]_dedVars => PartsInv'
  BY PartsStep
<1>3. PartsInv => EveryPartAnswered
  BY PartsTell
<1> QED
  BY <1>1, <1>2, <1>3, PTL DEF DedicatedSpec

(***************************************************************************)
(* What is advised, and what is said of code objects.                      *)
(***************************************************************************)
LEMMA CutsOf ==
    ASSUME NEW candidates, NEW top \in Highest(candidates)
    PROVE  /\ top \subseteq candidates /\ Cardinality(top) <= 3
           /\ \A c \in top, d \in candidates \ top : ~Outranks(d, c)
<1>1. CASE Cardinality(candidates) <= 3
  BY <1>1 DEF Highest, TopN
<1>2. CASE ~(Cardinality(candidates) <= 3)
  BY <1>2 DEF Highest, TopN
<1> QED
  BY <1>1, <1>2

Scored(table, indexes, objects, r) ==
    ScoreOne(r, FirstKeys(indexes, table), UniqueKeys(indexes, table), FilterUsage(objects, table, r.column))
LEMMA ScoreInt == \A table, indexes, objects, r : Scored(table, indexes, objects, r) \in Int
<1> SUFFICES ASSUME NEW table, NEW indexes, NEW objects, NEW r
             PROVE  Scored(table, indexes, objects, r) \in Int
  OBVIOUS
<1>1. Selectivity(r) \in Int
  BY DEF Selectivity
<1>2. \A hits : FilterBoost(hits) \in Int
  BY DEF FilterBoost
<1>3. \A b, n : n \in Int => If(b, n) \in Int
  BY DEF If
<1> DEFINE first == FirstKeys(indexes, table)
           unique == UniqueKeys(indexes, table)
           hits == FilterUsage(objects, table, r.column)
<1> HIDE DEF first, unique, hits
<1>4. ScoreOne(r, first, unique, hits) \in Int
  <2>1. /\ If(r.column \in first, 20) \in Int /\ If(r.column \in unique, 15) \in Int /\ If(~r.nullable, 5) \in Int
        /\ If(r.plain, 5) \in Int /\ If(r.rows > 0 /\ r.frequent > 0 /\ 100 * r.frequent < 5 * r.rows, 10) \in Int
        /\ If(r.distinct \in 1..59, 40) \in Int /\ If(2 * r.nulls > r.rows /\ r.rows > 0, 30) \in Int
        /\ If(r.wide, 10) \in Int
    BY <1>3
  <2>2. FilterBoost(hits) \in Int
    BY <1>2
  <2> QED
    BY <1>1, <2>1, <2>2 DEF ScoreOne
<1> QED
  BY <1>4 DEF Scored, first, unique, hits

StatsOf(table, indexes, columns, objects) ==
    {[table |-> table, column |-> r.column, row |-> r.row, basis |-> "stats", score |-> Scored(table, indexes, objects, r)] :
       r \in {c \in columns : c.table = table}}

LEMMA CandidatesAre ==
    ASSUME NEW table, NEW indexes, NEW columns, NEW objects
    PROVE  LET stats == {c \in StatsOf(table, indexes, columns, objects) : c.score > 0}
               cs == Candidates(table, indexes, columns, objects)
           IN /\ stats # {} => cs = stats
              /\ \A c \in cs : /\ c.table = table /\ c.score \in Int /\ c.score > 0
                               /\ c.basis = "stats" => c \in stats
                               /\ c \in stats => \E r \in columns : r.table = table
<1> DEFINE stats == {c \in StatsOf(table, indexes, columns, objects) : c.score > 0}
           leading == {[table |-> table, column |-> c, row |-> 0, basis |-> "index",
                        score |-> 20 + If(FilterUsage(objects, table, c) >= 3, 10)] : c \in FirstKeys(indexes, table)}
<1>1. Candidates(table, indexes, columns, objects) = IF stats = {} THEN leading ELSE stats
  BY DEF Candidates, StatsOf, Scored
<1>2. \A c \in stats : c.table = table /\ c.score \in Int /\ c.score > 0 /\ \E r \in columns : r.table = table
  <2>1. \A c \in StatsOf(table, indexes, columns, objects) : c.table = table /\ c.score \in Int /\ \E r \in columns : r.table = table
    BY ScoreInt DEF StatsOf
  <2> QED
    BY <2>1
<1>3. \A c \in leading : c.table = table /\ c.score \in Int /\ c.score > 0 /\ c.basis = "index"
  <2>1. \A b : If(b, 10) \in {0, 10}
    BY DEF If
  <2> QED
    BY <2>1
<1> HIDE DEF stats, leading
<1>4. /\ stats # {} => Candidates(table, indexes, columns, objects) = stats
      /\ \A c \in Candidates(table, indexes, columns, objects) :
           /\ c.table = table /\ c.score \in Int /\ c.score > 0
           /\ c.basis = "stats" => c \in stats
           /\ c \in stats => \E r \in columns : r.table = table
  BY <1>1, <1>2, <1>3
<1> QED
  BY <1>4 DEF stats

\* Of each table that is worth a key, the advice is one cut of its candidates.
LEMMA AdviceCuts ==
    ASSUME NEW worth, \A t, u \in worth : t.name = u.name => t = u,
           NEW indexes, NEW columns, NEW objects, NEW advice \in AdviceOn(worth, indexes, columns, objects)
    PROVE  /\ \A t \in worth : {c \in advice : c.table = t.name} \in Highest(Candidates(t.name, indexes, columns, objects))
           /\ \A c \in advice : \E t \in worth : c \in Candidates(t.name, indexes, columns, objects)
<1> DEFINE cuts == [t \in worth |-> Highest(Candidates(t.name, indexes, columns, objects))]
<1>1. PICK cut \in [worth -> UNION {cuts[t] : t \in worth}] :
        (\A t \in worth : cut[t] \in cuts[t]) /\ advice = UNION {cut[t] : t \in worth}
  BY DEF AdviceOn
<1>2. \A t \in worth : cut[t] \in Highest(Candidates(t.name, indexes, columns, objects))
  BY <1>1
<1>3. \A t \in worth : \A c \in cut[t] : c \in Candidates(t.name, indexes, columns, objects) /\ c.table = t.name
  BY <1>2, CutsOf, CandidatesAre
<1>4. \A t \in worth : {c \in advice : c.table = t.name} = cut[t]
  <2> SUFFICES ASSUME NEW t \in worth PROVE \A c : (c \in advice /\ c.table = t.name) <=> c \in cut[t]
    OBVIOUS
  <2>1. \A c : c \in advice <=> \E u \in worth : c \in cut[u]
    BY <1>1
  <2> QED
    BY <1>3, <2>1
<1>5. \A t \in worth : {c \in advice : c.table = t.name} \in Highest(Candidates(t.name, indexes, columns, objects))
  <2> SUFFICES ASSUME NEW t \in worth
               PROVE  {c \in advice : c.table = t.name} \in Highest(Candidates(t.name, indexes, columns, objects))
    OBVIOUS
  <2>1. {c \in advice : c.table = t.name} = cut[t]
    BY <1>4
  <2> QED
    BY <1>2, <2>1, Zenon
<1>6. \A c \in advice : \E t \in worth : c \in Candidates(t.name, indexes, columns, objects)
  <2> SUFFICES ASSUME NEW c \in advice
               PROVE  \E t \in worth : c \in Candidates(t.name, indexes, columns, objects)
    OBVIOUS
  <2>1. PICK t \in worth : c \in cut[t]
    BY <1>1
  <2> QED
    BY <1>3, <2>1, Zenon
<1> QED
  BY <1>5, <1>6, Zenon

\* What the advice on a set of tables keeps to.
LEMMA AdviceKeeps ==
    ASSUME NEW tables, \A t, u \in tables : t.name = u.name => t = u,
           \A t \in tables : t.distribution \in {"HASH", "ROUND_ROBIN", "REPLICATE", "none"} /\ t.rows \in Nat,
           NEW indexes, NEW columns, NEW objects, NEW w, w.advice \in ScoreColumns(tables, indexes, columns, objects)
    PROVE  /\ \A c \in w.advice : \E t \in tables : c.table = t.name
           /\ \A c \in w.advice : c.score > 0 /\ (c.basis = "stats" => columns # {})
           /\ \A t \in tables :
                /\ NoKey(t) => Advised(w, t.name) = {}
                /\ Cardinality(Advised(w, t.name)) <= 3
                /\ \A c \in Advised(w, t.name), r \in columns :
                     c.basis = "stats" /\ r.table = t.name /\ r.row \notin {d.row : d \in Advised(w, t.name)} =>
                       c.score >= Scored(t.name, indexes, objects, r)
<1> DEFINE worth == {s \in tables : ~Skipped(s)}
           Can(name) == Candidates(name, indexes, columns, objects)
           Of(name) == {c \in w.advice : c.table = name}
<1>1. w.advice \in AdviceOn(worth, indexes, columns, objects)
  BY DEF ScoreColumns
<1>2. worth \subseteq tables
  OBVIOUS
<1>3. \A t, u \in worth : t.name = u.name => t = u
  BY <1>2
<1>4. \A t \in tables : NoKey(t) => t \notin worth
  BY DEF Skipped, NoKey
<1> HIDE DEF worth
<1>5. /\ \A t \in worth : Of(t.name) \in Highest(Can(t.name))
      /\ \A c \in w.advice : \E t \in worth : c \in Can(t.name)
  BY <1>1, <1>3, AdviceCuts
<1>6. ASSUME NEW c \in w.advice
      PROVE  /\ \E t \in worth : c.table = t.name
             /\ c.score > 0 /\ (c.basis = "stats" => columns # {})
  <2>1. PICK t \in worth : c \in Can(t.name)
    BY <1>5
  <2> QED
    BY <2>1, CandidatesAre
<1>7. \A t \in tables : t \notin worth => Of(t.name) = {}
  <2> SUFFICES ASSUME NEW t \in tables, t \notin worth, NEW c \in w.advice, c.table = t.name
               PROVE  FALSE
    OBVIOUS
  <2> QED
    BY <1>2, <1>6
<1>8. ASSUME NEW t \in tables
      PROVE  /\ NoKey(t) => Of(t.name) = {}
             /\ Cardinality(Of(t.name)) <= 3
             /\ \A c \in Of(t.name), r \in columns :
                  c.basis = "stats" /\ r.table = t.name /\ r.row \notin {d.row : d \in Of(t.name)} =>
                    c.score >= Scored(t.name, indexes, objects, r)
  <2>1. CASE t \notin worth
    <3>1. Of(t.name) = {}
      BY <1>7, <2>1
    <3> HIDE DEF Of
    <3> QED
      BY <3>1, FS_EmptySet
  <2>2. CASE t \in worth
    <3> DEFINE top == Of(t.name)
    <3> HIDE DEF Of
    <3>1. top \in Highest(Can(t.name))
      BY <1>5, <2>2
    <3>2. top \subseteq Can(t.name) /\ Cardinality(top) <= 3 /\ \A c \in top, d \in Can(t.name) \ top : ~Outranks(d, c)
      BY <3>1, CutsOf
    <3>3. ASSUME NEW c \in top, NEW r \in columns, c.basis = "stats", r.table = t.name, r.row \notin {d.row : d \in top}
          PROVE  c.score >= Scored(t.name, indexes, objects, r)
      <4> DEFINE stats == {k \in StatsOf(t.name, indexes, columns, objects) : k.score > 0}
                 k == [table |-> t.name, column |-> r.column, row |-> r.row, basis |-> "stats",
                       score |-> Scored(t.name, indexes, objects, r)]
      <4>1. Scored(t.name, indexes, objects, r) \in Int
        BY ScoreInt
      <4>2. c \in stats /\ c.score \in Int /\ c.score > 0
        BY <3>2, <3>3, CandidatesAre
      <4>3. CASE Scored(t.name, indexes, objects, r) <= 0
        BY <4>1, <4>2, <4>3
      <4>4. CASE Scored(t.name, indexes, objects, r) > 0
        <5>1. k \in stats
          BY <3>3, <4>4 DEF StatsOf
        <5>2. k \in Can(t.name)
          <6>1. stats # {} => Can(t.name) = stats
            BY CandidatesAre
          <6> QED
            BY <5>1, <6>1
        <5>3. k \notin top
          BY <3>3
        <5>4. ~Outranks(k, c)
          BY <3>2, <5>2, <5>3
        <5> QED
          BY <4>1, <4>2, <5>4 DEF Outranks
      <4> QED
        BY <4>1, <4>3, <4>4
    <3> QED
      BY <1>4, <2>2, <3>2, <3>3
  <2> QED
    BY <2>1, <2>2
<1> QED
  BY <1>2, <1>6, <1>8 DEF Advised

\* What is said of a set of code objects.
Verdict(gaps, o) ==
    [name |-> o.name, id |-> o.id, gaps |-> Cardinality({g \in gaps : g.id = o.id}),
     verdict |-> ClassifyCompatibility({g.severity : g \in {h \in gaps : h.id = o.id}})]
LEMMA VerdictsSay ==
    ASSUME NEW objects, IsFiniteSet(objects), \A o, q \in objects : o.name = q.name => o = q,
           \A o \in objects : \A f \in o.findings : f.severity \in {"info", "warning", "blocker"}
    PROVE  LET verdicts == StampCompatibility(objects, BuildGaps(objects))
               summary == SummarizeCodeObjects(verdicts)
           IN /\ Cardinality(verdicts) = Cardinality(objects)
              /\ summary.compatible <= Cardinality({o \in objects : \A f \in Scanned(o) : f.severity = "info"})
              /\ \A o \in objects : \A f \in Scanned(o) :
                   /\ f.severity = "blocker" => o.id \in summary.incompatible
                   /\ f.severity = "warning" => o.id \in summary.incompatible \cup summary.needs_review
<1> DEFINE gaps == BuildGaps(objects)
           verdicts == StampCompatibility(objects, gaps)
           of == [o \in objects |-> Verdict(gaps, o)]
           severe(o) == {g.severity : g \in {h \in gaps : h.id = o.id}}
           harmless == {o \in objects : \A f \in Scanned(o) : f.severity = "info"}
           fine == {v \in verdicts : v.verdict = "compatible"}
<1>1. \A o \in objects : \A f \in Scanned(o) : f.severity \in severe(o)
  <2> SUFFICES ASSUME NEW o \in objects, NEW f \in Scanned(o)
               PROVE  f.severity \in severe(o)
    OBVIOUS
  <2> DEFINE gap == [id |-> o.id, object |-> o.name, rule |-> f.rule, severity |-> f.severity]
  <2>1. gap \in gaps
    BY DEF BuildGaps
  <2>2. gap.id = o.id /\ gap.severity = f.severity
    OBVIOUS
  <2> HIDE DEF gap, gaps
  <2> QED
    BY <2>1, <2>2
<1>2. /\ \A o \in objects : of[o] \in verdicts
      /\ \A v \in verdicts : \E o \in objects : v = of[o]
  <2> HIDE DEF gaps
  <2> QED
    BY DEF StampCompatibility, Verdict
<1>3. \A o \in objects : of[o].name = o.name /\ of[o].id = o.id /\ of[o].verdict = ClassifyCompatibility(severe(o))
  <2> HIDE DEF gaps
  <2> QED
    BY DEF Verdict
<1> HIDE DEF of, verdicts, severe, gaps
<1>4. Cardinality(verdicts) = Cardinality(objects)
  <2>1. of \in Bijection(objects, verdicts)
    <3>1. of \in [objects -> verdicts]
      <4>1. of = [o \in objects |-> of[o]]
        BY Zenon DEF of
      <4> QED
        BY <1>2, <4>1, Zenon
    <3>2. \A o, q \in objects : of[o] = of[q] => o = q
      BY <1>3
    <3>3. \A v \in verdicts : \E o \in objects : of[o] = v
      BY <1>2
    <3> QED
      BY <3>1, <3>2, <3>3 DEF Bijection, Injection, Surjection, IsInjective
  <2> QED
    BY <2>1, FS_Bijection DEF ExistsBijection
<1>5. Cardinality(fine) <= Cardinality(harmless)
  <2>1. \A v \in fine : \E o \in harmless : v = of[o]
    <3> SUFFICES ASSUME NEW v \in fine
                 PROVE  \E o \in harmless : v = of[o]
      OBVIOUS
    <3>1. PICK o \in objects : v = of[o]
      BY <1>2
    <3>2. "blocker" \notin severe(o) /\ "warning" \notin severe(o)
      BY <1>3, <3>1 DEF ClassifyCompatibility
    <3>3. \A f \in Scanned(o) : f.severity = "info"
      BY <1>1, <3>2 DEF Scanned
    <3> QED
      BY <3>1, <3>3
  <2>2. IsFiniteSet(harmless)
    BY FS_Subset
  <2> DEFINE image == {of[o] : o \in harmless}
  <2>3. fine \subseteq image
    BY <2>1
  <2> HIDE DEF harmless, fine
  <2>4. IsFiniteSet(image) /\ Cardinality(image) <= Cardinality(harmless)
    BY <2>2, FiniteImage
  <2> HIDE DEF image
  <2>5. Cardinality(fine) <= Cardinality(image) /\ IsFiniteSet(fine)
    BY <2>3, <2>4, FS_Subset
  <2> QED
    BY <2>2, <2>4, <2>5, FS_CardinalityType
<1>6. ASSUME NEW o \in objects, NEW f \in Scanned(o)
      PROVE  /\ f.severity = "blocker" => o.id \in {v.id : v \in {w \in verdicts : w.verdict = "incompatible"}}
             /\ f.severity = "warning" => o.id \in {v.id : v \in {w \in verdicts : w.verdict = "incompatible"}}
                                                  \cup {v.id : v \in {w \in verdicts : w.verdict = "needs_review"}}
  <2>1. of[o] \in verdicts /\ of[o].id = o.id /\ of[o].verdict = ClassifyCompatibility(severe(o)) /\ f.severity \in severe(o)
    BY <1>1, <1>2, <1>3
  <2> QED
    BY <2>1 DEF ClassifyCompatibility
<1>7. /\ SummarizeCodeObjects(verdicts).compatible = Cardinality(fine)
      /\ SummarizeCodeObjects(verdicts).incompatible = {v.id : v \in {w \in verdicts : w.verdict = "incompatible"}}
      /\ SummarizeCodeObjects(verdicts).needs_review = {v.id : v \in {w \in verdicts : w.verdict = "needs_review"}}
  BY DEF SummarizeCodeObjects
<1>8. /\ Cardinality(verdicts) = Cardinality(objects)
      /\ SummarizeCodeObjects(verdicts).compatible <= Cardinality(harmless)
      /\ \A o \in objects : \A f \in Scanned(o) :
           /\ f.severity = "blocker" => o.id \in SummarizeCodeObjects(verdicts).incompatible
           /\ f.severity = "warning" => o.id \in SummarizeCodeObjects(verdicts).incompatible \cup SummarizeCodeObjects(verdicts).needs_review
  BY <1>4, <1>5, <1>6, <1>7
<1> QED
  BY <1>8 DEF verdicts, gaps

\* What a part left in the analysis, and what follows for a pool from it.
Given(w, part, rows) == IF part \in w.collected THEN rows ELSE {}
AdviceOf(w) ==
    ScoreColumns(Given(w, "tables", w.database.tables), Given(w, "indexes", w.database.indexes),
                 Given(w, "column_stats", w.database.columns), Given(w, "code_objects", w.database.objects))
CodeObjectsOf(w) == Given(w, "code_objects", w.database.objects)
VerdictsOf(w) == StampCompatibility(CodeObjectsOf(w), BuildGaps(CodeObjectsOf(w)))
Held(w) ==
    /\ w.phase # "queued" => w.database \in Databases
    /\ w.part < 14 => w.advice = {}
    /\ w.advice # {} => w.advice \in AdviceOf(w)
    /\ "tsql_surface_gap" \in w.collected => w.part = 15 /\ w.verdicts = VerdictsOf(w)
AdviceInv == PartsInv /\ \A p \in DedPools : Held(poolWork[p])

LEMMA HeldMoves ==
    ASSUME AdviceInv, PartsInv', NEW p \in DedPools, NEW v, Work(p, v), Held(v)
    PROVE  AdviceInv'
<1>1. poolWork' = [poolWork EXCEPT ![p] = v] /\ \A q \in DedPools : Held(poolWork[q])
  BY DEF Work, AdviceInv
<1>2. DOMAIN poolWork = DedPools
  BY DEF AdviceInv, PartsInv
<1>3. poolWork'[p] = v /\ \A q \in DedPools \ {p} : poolWork'[q] = poolWork[q]
  BY <1>1, <1>2
<1>4. \A q \in DedPools : Held(poolWork'[q])
  BY <1>1, <1>3, Zenon
<1> QED
  BY <1>4 DEF AdviceInv, Held

\* The parts the advice and the verdicts rest on are collected before them.
LEMMA SameRows ==
    ASSUME NEW w, NEW v, v.database = w.database, NEW part \in {"top_consumed_objects", "distribution_advisor", "tsql_surface_gap"},
           v.collected = w.collected \/ v.collected = w.collected \cup {part}
    PROVE  AdviceOf(v) = AdviceOf(w) /\ VerdictsOf(v) = VerdictsOf(w)
<1>1. \A x \in {"tables", "indexes", "column_stats", "code_objects"} : \A rows : Given(v, x, rows) = Given(w, x, rows)
  BY DEF Given
<1>2. /\ Given(v, "tables", v.database.tables) = Given(w, "tables", w.database.tables)
      /\ Given(v, "indexes", v.database.indexes) = Given(w, "indexes", w.database.indexes)
      /\ Given(v, "column_stats", v.database.columns) = Given(w, "column_stats", w.database.columns)
      /\ Given(v, "code_objects", v.database.objects) = Given(w, "code_objects", w.database.objects)
  BY <1>1
<1> QED
  BY <1>2, Zenon DEF AdviceOf, CodeObjectsOf, VerdictsOf

\* A pool that waits holds nothing yet, whatever becomes of it.
LEMMA HeldWaiting ==
    ASSUME NEW w, PoolInv(w), Held(w), w.phase \in Waiting, NEW v,
           v.part = w.part /\ v.collected = w.collected /\ v.advice = w.advice,
           v.phase # "queued" => v.database \in Databases
    PROVE  Held(v)
BY DEF PoolInv, Held

\* One of the collectors, or the capture of the workload.
LEMMA HeldCollect ==
    ASSUME AdviceInv, NEW p \in DedPools, Collect(p), PartsInv'
    PROVE  AdviceInv'
<1> DEFINE w == poolWork[p]
           n == w.part + 1
           after == [w EXCEPT !.part = n, !.phase = IF n = Len(Parts) THEN "done" ELSE @]
           kept == [after EXCEPT !.collected = @ \cup {Parts[after.part]}]
           failed == [after EXCEPT !.errors = Append(@, Parts[n])]
<1>1. w.phase = "collecting" /\ n \in 1..13 /\ (Work(p, kept) \/ Work(p, failed))
  BY DEF Collect, RunPart
<1>2. PoolInv(w) /\ Held(w)
  BY DEF AdviceInv, PartsInv
<1>3. /\ kept.part = n /\ kept.database = w.database /\ kept.advice = w.advice
      /\ kept.collected = w.collected \cup {Parts[n]}
      /\ failed.part = n /\ failed.database = w.database /\ failed.advice = w.advice
      /\ failed.collected = w.collected
  BY <1>2 DEF PoolInv, NothingCollected
<1>4. Parts[n] # "tsql_surface_gap"
  <2>1. n \in 1..15 /\ 15 \in 1..15 /\ n # 15 /\ Parts[15] = "tsql_surface_gap"
    BY <1>1, PartsAre DEF Computed
  <2> QED
    BY <2>1, PartsDiffer
<1>5. w.part < 14 /\ n < 14 /\ w.part # 15
  BY <1>1, <1>2 DEF PoolInv
<1> HIDE DEF kept, failed
<1>6. Held(kept) /\ Held(failed)
  BY <1>1, <1>2, <1>3, <1>4, <1>5 DEF Held
<1> QED
  BY <1>1, <1>6, HeldMoves

LEMMA HeldAdvise ==
    ASSUME AdviceInv, NEW p \in DedPools, Advise(p), PartsInv'
    PROVE  AdviceInv'
<1> DEFINE work == poolWork[p]
           n == work.part + 1
           after == [work EXCEPT !.part = n, !.phase = IF n = Len(Parts) THEN "done" ELSE @]
           failed == [after EXCEPT !.errors = Append(@, Parts[n])]
           held == work.database
           may == ScoreColumns(RowsOf(p, "tables", held.tables), RowsOf(p, "indexes", held.indexes),
                               RowsOf(p, "column_stats", held.columns), RowsOf(p, "code_objects", held.objects))
<1>0. PICK advice \in may : RunPart(p, LAMBDA w : [w EXCEPT !.collected = @ \cup {"distribution_advisor"}, !.advice = advice])
  <2> HIDE DEF may
  <2> QED
    BY DEF Advise, may
<1>1. advice \in AdviceOf(work)
  BY <1>0 DEF RowsOf, AdviceOf, Given
<1> DEFINE kept == [after EXCEPT !.collected = @ \cup {"distribution_advisor"}, !.advice = advice]
<1>2. work.phase = "collecting" /\ n = 14 /\ (Work(p, kept) \/ Work(p, failed))
  <2>1. work.phase = "collecting" /\ n = 14
    BY DEF Advise
  <2>2. Work(p, kept) \/ Work(p, failed)
    <3> HIDE DEF may
    <3> QED
      BY <1>0 DEF RunPart
  <2> QED
    BY <2>1, <2>2
<1>3. PoolInv(work) /\ Held(work)
  BY DEF AdviceInv, PartsInv
<1>4. /\ kept.part = n /\ kept.database = work.database /\ kept.advice = advice
      /\ kept.collected = work.collected \cup {"distribution_advisor"}
      /\ failed.part = n /\ failed.database = work.database /\ failed.advice = work.advice
      /\ failed.collected = work.collected
  BY <1>3 DEF PoolInv, NothingCollected
<1> HIDE DEF kept, failed
<1>5. work.part < 14 /\ work.part # 15 /\ n \in Int
  BY <1>2, <1>3 DEF PoolInv
<1>6. Held(kept)
  <2>1. AdviceOf(kept) = AdviceOf(work)
    BY <1>4, SameRows
  <2> QED
    BY <1>1, <1>2, <1>3, <1>4, <1>5, <2>1 DEF Held
<1>7. Held(failed)
  BY <1>2, <1>3, <1>4, <1>5 DEF Held
<1> QED
  BY <1>2, <1>6, <1>7, HeldMoves

LEMMA HeldRollUp ==
    ASSUME AdviceInv, NEW p \in DedPools, RollUpCode(p), PartsInv'
    PROVE  AdviceInv'
<1> DEFINE w == poolWork[p]
           n == w.part + 1
           after == [w EXCEPT !.part = n, !.phase = IF n = Len(Parts) THEN "done" ELSE @]
           gaps == BuildGaps(CodeObjectsOf(w))
           verdicts == VerdictsOf(w)
           kept == [after EXCEPT !.collected = @ \cup {"tsql_surface_gap"}, !.gaps = gaps, !.verdicts = verdicts]
           failed == [after EXCEPT !.errors = Append(@, Parts[n])]
<1>1. w.phase = "collecting" /\ n = 15 /\ (Work(p, kept) \/ Work(p, failed))
  BY DEF RollUpCode, RunPart, RowsOf, CodeObjectsOf, VerdictsOf, Given
<1>2. PoolInv(w) /\ Held(w)
  BY DEF AdviceInv, PartsInv
<1>3. /\ kept.part = n /\ kept.database = w.database /\ kept.advice = w.advice /\ kept.verdicts = verdicts
      /\ kept.collected = w.collected \cup {"tsql_surface_gap"}
      /\ failed.part = n /\ failed.database = w.database /\ failed.advice = w.advice
      /\ failed.collected = w.collected
  <2> HIDE DEF gaps, verdicts
  <2> QED
    BY <1>2 DEF PoolInv, NothingCollected
<1> HIDE DEF kept, failed, gaps
<1>4. /\ AdviceOf(kept) = AdviceOf(w) /\ VerdictsOf(kept) = VerdictsOf(w)
      /\ AdviceOf(failed) = AdviceOf(w)
  BY <1>3, SameRows
<1>5. w.part # 15
  BY <1>1, <1>2 DEF PoolInv
<1>6. Held(kept) /\ Held(failed)
  BY <1>1, <1>2, <1>3, <1>4, <1>5 DEF Held
<1> QED
  BY <1>1, <1>6, HeldMoves

\* A pool that waits goes on, or is left out.
LEMMA HeldOpens ==
    ASSUME AdviceInv, PartsInv', NEW p \in DedPools,
           \/ TakePool(p) \/ NotOnline(p) \/ SignIn(p) \/ SignInRefused(p) \/ SignInDirect(p) \/ SignInDirectRefused(p)
    PROVE  AdviceInv'
<1> DEFINE w == poolWork[p]
           taken(d) == [w EXCEPT !.phase = "listed", !.database = d]
           opened(phase) == [w EXCEPT !.phase = phase]
           left(why) == [w EXCEPT !.phase = "done", !.errors = Append(@, why)]
           Same(v) == v.part = w.part /\ v.collected = w.collected /\ v.advice = w.advice
<1>1. PoolInv(w) /\ Held(w)
  BY DEF AdviceInv, PartsInv
<1>2. /\ \A d : Same(taken(d)) /\ taken(d).database = d
      /\ \A phase : Same(opened(phase)) /\ opened(phase).database = w.database
      /\ \A why : Same(left(why)) /\ left(why).database = w.database
  BY <1>1 DEF PoolInv, NothingCollected
<1>3. /\ w.phase \in Waiting
      /\ \/ \E d \in Databases : Work(p, taken(d))
         \/ w.phase # "queued" /\ \E phase \in {"collecting", "retrying"} : Work(p, opened(phase))
         \/ w.phase # "queued" /\ \E why : Work(p, left(why))
  <2>1. CASE TakePool(p)
    BY <2>1 DEF TakePool, Waiting
  <2>2. CASE NotOnline(p)
    BY <2>2 DEF NotOnline, LeaveOut, Waiting
  <2>3. CASE SignIn(p)
    BY <2>3 DEF SignIn, Reachable, OpenTo, Waiting
  <2>4. CASE SignInRefused(p)
    <3>1. w.phase = "listed" /\ (\/ \E why : LeaveOut(p, why)
                                 \/ \E phase \in {"collecting", "retrying"} : OpenTo(p, phase))
      BY <2>4, Zenon DEF SignInRefused, Reachable
    <3> QED
      BY <3>1 DEF LeaveOut, OpenTo, Waiting
  <2>5. CASE SignInDirect(p)
    BY <2>5 DEF SignInDirect, OpenTo, Waiting
  <2>6. CASE SignInDirectRefused(p)
    BY <2>6 DEF SignInDirectRefused, LeaveOut, Waiting
  <2> QED
    BY <2>1, <2>2, <2>3, <2>4, <2>5, <2>6
<1>4. PICK v : Work(p, v) /\ Same(v) /\ v.database \in Databases
  <2> HIDE DEF taken, opened, left, Same
  <2>1. ASSUME NEW d \in Databases, Work(p, taken(d))
        PROVE  \E v : Work(p, v) /\ Same(v) /\ v.database \in Databases
    BY <1>2, <2>1
  <2>2. w.phase # "queued" => w.database \in Databases
    BY <1>1 DEF Held
  <2>3. ASSUME w.phase # "queued", NEW v \in {opened(phase) : phase \in {"collecting", "retrying"}}, Work(p, v)
        PROVE  \E u : Work(p, u) /\ Same(u) /\ u.database \in Databases
    BY <1>2, <2>2, <2>3
  <2>4. ASSUME w.phase # "queued", NEW why, Work(p, left(why))
        PROVE  \E v : Work(p, v) /\ Same(v) /\ v.database \in Databases
    BY <1>2, <2>2, <2>4
  <2> QED
    BY <1>3, <2>1, <2>3, <2>4
<1>5. Held(v)
  BY <1>1, <1>3, <1>4, HeldWaiting
<1> QED
  BY <1>4, <1>5, HeldMoves

LEMMA AdviceStep == AdviceInv /\ [DedicatedNext]_dedVars => AdviceInv'
<1> SUFFICES ASSUME AdviceInv, [DedicatedNext]_dedVars
             PROVE  AdviceInv'
  OBVIOUS
<1>1. PartsInv'
  BY PartsStep DEF AdviceInv
<1>2. CASE UNCHANGED dedVars \/ EndDedicated
  <2>1. poolWork' = poolWork
    BY <1>2 DEF dedVars, EndDedicated
  <2> QED
    BY <1>1, <2>1 DEF AdviceInv
<1>3. ASSUME NEW p \in DedPools,
             \/ TakePool(p) \/ NotOnline(p) \/ SignIn(p) \/ SignInRefused(p)
             \/ SignInDirect(p) \/ SignInDirectRefused(p) \/ Collect(p) \/ Advise(p) \/ RollUpCode(p)
      PROVE  AdviceInv'
  BY <1>1, <1>3, HeldOpens, HeldCollect, HeldAdvise, HeldRollUp
<1> QED
  BY <1>2, <1>3 DEF DedicatedNext

LEMMA AdviceTell == AdviceInv => AdviceAndVerdictsSound
<1> SUFFICES ASSUME AdviceInv
             PROVE  AdviceAndVerdictsSound
  OBVIOUS
<1>1. ASSUME NEW p \in DedPools
      PROVE  PoolInv(poolWork[p]) /\ Held(poolWork[p])
  BY DEF AdviceInv, PartsInv
<1>2. AdviceSound
  <2> SUFFICES ASSUME NEW p \in DedPools, poolWork[p].advice # {}
               PROVE  AdviceFits(p)
    BY DEF AdviceSound
  <2> DEFINE w == poolWork[p]
             tables == Given(w, "tables", w.database.tables)
             indexes == Given(w, "indexes", w.database.indexes)
             columns == Given(w, "column_stats", w.database.columns)
  <2>1. w.advice \in ScoreColumns(tables, indexes, columns, CodeObjectsOf(w))
    BY <1>1 DEF Held, AdviceOf, CodeObjectsOf
  <2>2. /\ indexes = RowsOf(p, "indexes", w.database.indexes)
        /\ CodeObjectsOf(w) = RowsOf(p, "code_objects", w.database.objects)
    BY DEF RowsOf, Given, CodeObjectsOf
  <2>3. /\ \A x \in tables : "tables" \in w.collected /\ x \in w.database.tables
        /\ \A x \in columns : "column_stats" \in w.collected /\ x \in w.database.columns
        /\ "tables" \in w.collected => tables = w.database.tables
        /\ "column_stats" \in w.collected => columns = w.database.columns
    BY DEF Given
  <2>4. w.database \in Databases
    <3>1. w.phase # "queued"
      BY <1>1 DEF PoolInv, Waiting
    <3> QED
      BY <1>1, <3>1 DEF Held
  <2> HIDE DEF w, tables, indexes, columns
  <2>5. /\ \A t, u \in tables : t.name = u.name => t = u
        /\ \A t \in tables : t.distribution \in {"HASH", "ROUND_ROBIN", "REPLICATE", "none"} /\ t.rows \in Nat
    BY <2>3, <2>4, DedicatedAssumption
  <2>6. /\ \A c \in w.advice : \E t \in tables : c.table = t.name
        /\ \A c \in w.advice : c.score > 0 /\ (c.basis = "stats" => columns # {})
        /\ \A t \in tables :
             /\ NoKey(t) => Advised(w, t.name) = {}
             /\ Cardinality(Advised(w, t.name)) <= 3
             /\ \A c \in Advised(w, t.name), r \in columns :
                  c.basis = "stats" /\ r.table = t.name /\ r.row \notin {d.row : d \in Advised(w, t.name)} =>
                    c.score >= Scored(t.name, indexes, CodeObjectsOf(w), r)
    BY <2>1, <2>5, AdviceKeeps
  <2>7. "tables" \in w.collected
    <3>1. \E c : c \in w.advice
      BY DEF w
    <3> QED
      BY <2>3, <2>6, <3>1
  <2>8. tables = w.database.tables
    BY <2>3, <2>7
  <2>9. ASSUME NEW c \in w.advice
        PROVE  c.score > 0 /\ (c.basis = "stats" => "column_stats" \in w.collected)
    BY <2>3, <2>6
  <2>10. ASSUME NEW t \in tables, NEW c \in Advised(w, t.name), c.basis = "stats", NEW r \in w.database.columns,
                r.table = t.name, r.row \notin {d.row : d \in Advised(w, t.name)}
         PROVE  c.score >= ScoreOne(r, FirstKeys(indexes, t.name), UniqueKeys(indexes, t.name),
                                    FilterUsage(CodeObjectsOf(w), t.name, r.column))
    <3>1. r \in columns
      <4>1. c \in w.advice
        BY DEF Advised
      <4> QED
        BY <2>3, <2>9, <2>10, <4>1
    <3> QED
      BY <2>6, <2>10, <3>1 DEF Scored
  <2>11. \A t \in tables : /\ NoKey(t) => Advised(w, t.name) = {}
                           /\ Cardinality(Advised(w, t.name)) <= 3
    BY <2>6
  <2>12. /\ "tables" \in w.collected
         /\ \A c \in w.advice : c.score > 0 /\ (c.basis = "stats" => "column_stats" \in w.collected)
         /\ \A t \in w.database.tables :
              /\ NoKey(t) => Advised(w, t.name) = {}
              /\ Cardinality(Advised(w, t.name)) <= 3
              /\ \A c \in Advised(w, t.name) : c.basis = "stats" => \A r \in w.database.columns :
                   r.table = t.name /\ r.row \notin {d.row : d \in Advised(w, t.name)} =>
                     c.score >= ScoreOne(r, FirstKeys(indexes, t.name), UniqueKeys(indexes, t.name),
                                         FilterUsage(CodeObjectsOf(w), t.name, r.column))
    BY <2>7, <2>8, <2>9, <2>10, <2>11
  <2> QED
    BY <2>2, <2>12 DEF w, AdviceFits
<1>3. VerdictsSound
  <2> SUFFICES ASSUME NEW p \in DedPools, "tsql_surface_gap" \in poolWork[p].collected
               PROVE  LET objects == RowsOf(p, "code_objects", poolWork[p].database.objects)
                          verdicts == poolWork[p].verdicts
                          summary == SummarizeCodeObjects(verdicts)
                      IN /\ Cardinality(verdicts) = Cardinality(objects)
                         /\ summary.compatible <= Cardinality({o \in objects : \A f \in Scanned(o) : f.severity = "info"})
                         /\ \A o \in objects : \A f \in Scanned(o) :
                              /\ f.severity = "blocker" => o.id \in summary.incompatible
                              /\ f.severity = "warning" => o.id \in summary.incompatible \cup summary.needs_review
    BY Zenon DEF VerdictsSound
  <2> DEFINE w == poolWork[p]
             objects == RowsOf(p, "code_objects", w.database.objects)
  <2>1. w.verdicts = StampCompatibility(objects, BuildGaps(objects))
    <3>1. objects = CodeObjectsOf(w)
      BY DEF RowsOf, Given, CodeObjectsOf
    <3>2. w.verdicts = VerdictsOf(w)
      BY <1>1 DEF Held
    <3> HIDE DEF objects, w
    <3> QED
      BY <3>1, <3>2, Zenon DEF VerdictsOf
  <2>2. w.database \in Databases
    <3>1. w.phase # "queued"
      BY <1>1 DEF PoolInv, Waiting
    <3> QED
      BY <1>1, <3>1 DEF Held
  <2>3. /\ IsFiniteSet(objects) /\ \A o, q \in objects : o.name = q.name => o = q
        /\ \A o \in objects : \A f \in o.findings : f.severity \in {"info", "warning", "blocker"}
    BY <2>2, DedicatedAssumption, FS_EmptySet DEF RowsOf
  <2> HIDE DEF objects
  <2> QED
    BY <2>1, <2>3, VerdictsSay, Zenon DEF objects
<1> QED
  BY <1>2, <1>3 DEF AdviceAndVerdictsSound

(* What is advised keeps to what was collected, and no code object is called  *)
(* better than the worst construct the scan saw in it, whatever the pools     *)
(* hold, whichever parts fail and in whatever order the workers come to them  *)
(* (dedicated_pools/distribution_advisor.py, tsql_surface_gap.py).            *)
THEOREM AdviceIsSound == DedicatedSpec => []AdviceAndVerdictsSound
<1>1. DedicatedInit => AdviceInv
  <2>1. DedicatedInit => PartsInv
    BY PartsInit
  <2>2. ASSUME DedicatedInit, NEW p \in DedPools
        PROVE  Held(poolWork[p])
    BY <2>2 DEF DedicatedInit, NothingCollected, Held
  <2> QED
    BY <2>1, <2>2 DEF AdviceInv
<1>2. AdviceInv /\ [DedicatedNext]_dedVars => AdviceInv'
  BY AdviceStep
<1>3. AdviceInv => AdviceAndVerdictsSound
  BY AdviceTell
<1> QED
  BY <1>1, <1>2, <1>3, PTL DEF DedicatedSpec

(***************************************************************************)
(* The capture.  Entries are what requests were when they were captured.   *)
(***************************************************************************)
Request == [day : Nat, command : Commands, elapsed : Nat, running : BOOLEAN]
NamedIn(command, o) ==
    /\ command # Garbage
    /\ \E k \in DOMAIN command : /\ command[k].name = o[2]
                                 /\ \/ command[k].schema = o[1]
                                    \/ command[k].schema = "none" /\ ~command[k].cte /\ ~command[k].temp
EntriesOf(entries, requests) ==
    /\ \A e \in entries : e.request \in DOMAIN requests
    /\ \A e, f \in entries : e.request = f.request => e = f
    /\ \A e \in entries : /\ e.day = requests[e.request].day
                          /\ e.tables = ParseCommand(requests[e.request].command)
                          /\ e.elapsed \in Nat /\ e.elapsed <= requests[e.request].elapsed

CaptureType ==
    /\ captureDay \in Nat /\ issued \in Seq(Request)
    /\ dmv \subseteq DOMAIN issued /\ stored \subseteq DOMAIN issued /\ reported \subseteq DOMAIN issued

\* The file holds what was stored and is not outdated, and nothing that was not.
FileInv ==
    /\ EntriesOf(Load(workloadFile), issued)
    /\ RequestIds(Load(workloadFile)) \subseteq stored
    /\ \A i \in stored : issued[i].day >= captureDay - TtlDays => i \in RequestIds(Load(workloadFile))

\* What UsageExact says of a row, for the requests that name its object.
Users(requests, captured, o) == {i \in captured : NamedIn(requests[i].command, o)}
RowOf(rows, o) == {r \in rows : r.object = o}
RowSays(requests, users, rows, o) ==
    /\ (rows = {}) = (users = {})
    /\ \A r \in rows :
         /\ r.count = Cardinality(users)
         /\ r.elapsed \in Int /\ r.elapsed <= Total([i \in users |-> requests[i].elapsed], users)
         /\ r.kind = "qualified" => \E i \in users : \E k \in DOMAIN requests[i].command :
              requests[i].command[k].schema = o[1] /\ requests[i].command[k].name = o[2]
RowsSay ==
    consumed # Nothing /\ consumed.total = Cardinality(Within) =>
      \A o \in Objects : RowSays(issued, Users(issued, Within, o), RowOf(consumed.rows, o), o)

CaptureInv == CaptureType /\ FileInv /\ CacheSpansRuns /\ RowsSay

-----------------------------------------------------------------------------
\* What the least number of a set is.
LEMMA MinOf == ASSUME NEW S, \E p \in S : \A q \in S : p <= q PROVE Min(S) \in S
  BY DEF Min

\* A set of numbers that is not empty has a least one.
LEMMA LeastOf == ASSUME NEW S, S \subseteq Nat, S # {} PROVE Min(S) \in S
<1>1. PICK p \in S : \A q \in S : ~(<<q, p>> \in OpToRel(<, Nat))
  BY NatLessThanWellFounded, WFMin
<1>2. ASSUME NEW q \in S PROVE p <= q
  <2>1. q \in Nat /\ p \in Nat
    OBVIOUS
  <2>2. ~(q < p)
    BY <1>1, <2>1, <<q, p>> \in Nat \X Nat DEF OpToRel
  <2> QED
    BY <2>1, <2>2
<1>3. \A q \in S : p <= q
  BY <1>2
<1> QED
  BY <1>3, MinOf, Zenon

\* What a reference may mean.
LEMMA ResolveTo ==
    ASSUME NEW ref, NEW o \in Objects
    PROVE  o \in Resolve(ref) <=> /\ ref.name = o[2]
                                  /\ \/ ref.schema = o[1]
                                     \/ ref.schema = "none" /\ ~ref.cte /\ ~ref.temp
<1>1. o[1] # "none" /\ o = <<o[1], o[2]>>
  BY CaptureAssumption DEF Objects
<1>2. CASE ref.schema = "none" /\ (ref.cte \/ ref.temp)
  BY <1>1, <1>2 DEF Resolve
<1>3. CASE ref.schema # "none"
  <2>1. Resolve(ref) = {p \in Objects : p = <<ref.schema, ref.name>>}
    BY <1>3 DEF Resolve
  <2>2. <<ref.schema, ref.name>>[1] = ref.schema /\ <<ref.schema, ref.name>>[2] = ref.name
    OBVIOUS
  <2> QED
    BY <1>1, <1>3, <2>1, <2>2
<1>4. CASE ref.schema = "none" /\ ~(ref.cte \/ ref.temp)
  BY <1>1, <1>4 DEF Resolve, Owners
<1> QED
  BY <1>2, <1>3, <1>4

\* What a command names, and how.
LEMMA CommandNames ==
    ASSUME NEW c \in Commands, NEW o \in Objects
    PROVE  /\ (\E t \in ParseCommand(c) : t.object = o) <=> NamedIn(c, o)
           /\ \A t \in ParseCommand(c) : (t.object = o /\ t.kind = "qualified") =>
                \E k \in DOMAIN c : c[k].schema = o[1] /\ c[k].name = o[2]
<1>1. CASE c = Garbage
  BY <1>1 DEF ParseCommand, NamedIn
<1>2. CASE c # Garbage
  <2> DEFINE at == {k \in DOMAIN c : o \in Resolve(c[k])}
             kind == MatchKind(c[Min(at)])
  <2>1. \A t : (t \in ParseCommand(c) /\ t.object = o) <=> (at # {} /\ t = [object |-> o, kind |-> kind])
    <3>1. \A p : p \in UNION {Resolve(c[k]) : k \in DOMAIN c} <=> \E k \in DOMAIN c : p \in Resolve(c[k])
      OBVIOUS
    <3>2. ParseCommand(c) = {[object |-> p, kind |-> MatchKind(c[Min({k \in DOMAIN c : p \in Resolve(c[k])})])] :
                               p \in UNION {Resolve(c[k]) : k \in DOMAIN c}}
      BY <1>2 DEF ParseCommand
    <3>3. o \in UNION {Resolve(c[k]) : k \in DOMAIN c} <=> at # {}
      BY <3>1
    <3> DEFINE touched == UNION {Resolve(c[k]) : k \in DOMAIN c}
               met(p) == [object |-> p, kind |-> MatchKind(c[Min({k \in DOMAIN c : p \in Resolve(c[k])})])]
    <3>4. met(o) = [object |-> o, kind |-> kind]
      OBVIOUS
    <3>5. \A p : met(p).object = p
      OBVIOUS
    <3>6. ParseCommand(c) = {met(p) : p \in touched}
      BY <3>2
    <3> HIDE DEF touched, met, at, kind
    <3>7. \A t : t \in ParseCommand(c) <=> \E p \in touched : t = met(p)
      BY <3>6
    <3>8. o \in touched <=> at # {}
      BY <3>3 DEF touched
    <3> QED
      BY <3>4, <3>5, <3>7, <3>8
  <2>2. at # {} <=> NamedIn(c, o)
    BY <1>2, ResolveTo DEF NamedIn
  <2>3. ASSUME at # {}, kind = "qualified"
        PROVE  \E k \in DOMAIN c : c[k].schema = o[1] /\ c[k].name = o[2]
    <3>1. DOMAIN c \subseteq Nat
      BY <1>2, CaptureAssumption
    <3>2. Min(at) \in at
      BY <2>3, <3>1, LeastOf
    <3>3. c[Min(at)].schema # "none"
      BY <2>3 DEF MatchKind
    <3>4. c[Min(at)].name = o[2] /\ c[Min(at)].schema = o[1]
      BY <3>2, <3>3, ResolveTo
    <3> QED
      BY <3>2, <3>4
  <2> HIDE DEF at, kind
  <2>4. [object |-> o, kind |-> kind].object = o /\ [object |-> o, kind |-> kind].kind = kind
    OBVIOUS
  <2> QED
    BY <2>1, <2>2, <2>3, <2>4
<1> QED
  BY <1>1, <1>2

\* Entries are as many as the requests they are of.
LEMMA AsManyEntries ==
    ASSUME NEW entries, \A e, f \in entries : e.request = f.request => e = f,
           NEW ids, ids = RequestIds(entries), IsFiniteSet(ids)
    PROVE  IsFiniteSet(entries) /\ Cardinality(entries) = Cardinality(ids)
<1> DEFINE of == [i \in ids |-> CHOOSE e \in entries : e.request = i]
           id == [e \in entries |-> e.request]
<1>1. \A i \in ids : of[i] \in entries /\ of[i].request = i
  BY DEF RequestIds
<1>2. \A e \in entries : e.request \in ids /\ of[e.request] = e
  BY <1>1 DEF RequestIds
<1>3. \A e \in entries : id[e] = e.request
  OBVIOUS
<1> HIDE DEF of, id
<1>4. entries = {of[i] : i \in ids} /\ ids = {id[e] : e \in entries}
  <2>1. \A e : e \in entries <=> \E i \in ids : e = of[i]
    BY <1>1, <1>2
  <2>2. \A i : i \in ids <=> \E e \in entries : i = id[e]
    BY <1>3 DEF RequestIds
  <2> QED
    BY <2>1, <2>2
<1>5. IsFiniteSet({of[i] : i \in ids}) /\ Cardinality({of[i] : i \in ids}) <= Cardinality(ids)
  BY FiniteImage
<1>6. IsFiniteSet(entries) /\ Cardinality(entries) <= Cardinality(ids)
  BY <1>4, <1>5
<1>7. Cardinality({id[e] : e \in entries}) <= Cardinality(entries)
  BY <1>6, FiniteImage
<1>8. Cardinality(ids) <= Cardinality(entries)
  BY <1>4, <1>7
<1> QED
  BY <1>6, <1>8, FS_CardinalityType

\* What entries, and requests, took, as totals in the sense of SumTheorems.
LEMMA TookTotal ==
    ASSUME NEW S, NEW f, f = [e \in S |-> e.elapsed]
    PROVE  MapThenSumSet(LAMBDA e : e.elapsed, S) = Total(f, S)
<1> DEFINE A(g) == g = [s \in SUBSET S |-> IF s = {} THEN 0 ELSE Pick(s).elapsed + g[s \ {Pick(s)}]]
           B(g) == g = [s \in SUBSET S |-> IF s = {} THEN 0 ELSE f[Pick(s)] + g[s \ {Pick(s)}]]
<1>1. ASSUME NEW g
      PROVE  A(g) <=> B(g)
  BY Picked
<1>2. (CHOOSE g : A(g)) = (CHOOSE g : B(g))
  <2> HIDE DEF A, B
  <2> QED
    BY <1>1
<1>3. MapThenSumSet(LAMBDA e : e.elapsed, S) = (CHOOSE g : A(g))[S]
  BY DEF MapThenSumSet, MapThenFoldSet, Pick
<1>4. Total(f, S) = (CHOOSE g : B(g))[S]
  BY DEF Total, MapThenSumSet, MapThenFoldSet, Pick
<1> QED
  BY <1>2, <1>3, <1>4

LEMMA TakesTotal ==
    ASSUME NEW requests, NEW S, NEW f, f = [i \in S |-> requests[i].elapsed]
    PROVE  MapThenSumSet(LAMBDA i : requests[i].elapsed, S) = Total(f, S)
<1> DEFINE A(g) == g = [s \in SUBSET S |-> IF s = {} THEN 0 ELSE requests[Pick(s)].elapsed + g[s \ {Pick(s)}]]
           B(g) == g = [s \in SUBSET S |-> IF s = {} THEN 0 ELSE f[Pick(s)] + g[s \ {Pick(s)}]]
<1>1. ASSUME NEW g
      PROVE  A(g) <=> B(g)
  BY Picked
<1>2. (CHOOSE g : A(g)) = (CHOOSE g : B(g))
  <2> HIDE DEF A, B
  <2> QED
    BY <1>1
<1>3. MapThenSumSet(LAMBDA i : requests[i].elapsed, S) = (CHOOSE g : A(g))[S]
  BY DEF MapThenSumSet, MapThenFoldSet, Pick
<1>4. Total(f, S) = (CHOOSE g : B(g))[S]
  BY DEF Total, MapThenSumSet, MapThenFoldSet, Pick
<1> QED
  BY <1>2, <1>3, <1>4

Touching(entries, o) == {e \in entries : \E t \in e.tables : t.object = o}
KindsOf(entries, o) == UNION {{t.kind : t \in {u \in e.tables : u.object = o}} : e \in Touching(entries, o)}
RequestRow(entries, o) ==
    [object |-> o, count |-> Cardinality(Touching(entries, o)),
     elapsed |-> MapThenSumSet(LAMBDA e : e.elapsed, Touching(entries, o)), kind |-> WorstKind(KindsOf(entries, o))]

\* The ranking has one row for an object that was touched, none for another.
LEMMA RowsAre ==
    ASSUME NEW entries, NEW o
    PROVE  {r \in RankObjects(entries) : r.object = o} = IF Touching(entries, o) = {} THEN {} ELSE {RequestRow(entries, o)}
<1> DEFINE touched == UNION {{t.object : t \in e.tables} : e \in entries}
<1>1. RankObjects(entries) = {RequestRow(entries, p) : p \in touched}
  BY DEF RankObjects, RequestRow, Touching, KindsOf
<1>2. \A p : RequestRow(entries, p).object = p
  BY DEF RequestRow
<1>3. o \in touched <=> Touching(entries, o) # {}
  BY DEF Touching
<1> HIDE DEF touched
<1>4. \A r : r \in RankObjects(entries) <=> \E p \in touched : r = RequestRow(entries, p)
  BY <1>1
<1> QED
  BY <1>2, <1>3, <1>4

\* A row is about the requests that name its object.
LEMMA RowTrue ==
    ASSUME NEW requests \in Seq(Request), NEW entries, EntriesOf(entries, requests), NEW o \in Objects
    PROVE  RowSays(requests, Users(requests, RequestIds(entries), o), RowOf(RankObjects(entries), o), o)
<1> DEFINE users == Users(requests, RequestIds(entries), o)
           rows == RowOf(RankObjects(entries), o)
<1> DEFINE touching == Touching(entries, o)
           id == [e \in touching |-> e.request]
           took == [e \in touching |-> e.elapsed]
           of == [i \in users |-> CHOOSE e \in touching : e.request = i]
           held == [i \in users |-> of[i].elapsed]
           takes == [i \in users |-> requests[i].elapsed]
<1>0. \A e \in entries : /\ e.request \in DOMAIN requests /\ requests[e.request] \in Request
                          /\ requests[e.request].command \in Commands /\ requests[e.request].elapsed \in Nat
                          /\ e.tables = ParseCommand(requests[e.request].command)
                          /\ e.elapsed \in Nat /\ e.elapsed <= requests[e.request].elapsed
  <2>1. \A i \in DOMAIN requests : requests[i] \in Request
    OBVIOUS
  <2>2. \A q \in Request : q.command \in Commands /\ q.elapsed \in Nat
    BY DEF Request
  <2> QED
    BY <2>1, <2>2 DEF EntriesOf
<1>1. \A e \in entries : e \in touching <=> NamedIn(requests[e.request].command, o)
  BY <1>0, CommandNames DEF Touching
<1>2. users = RequestIds(touching)
  BY <1>1 DEF RequestIds, Touching, Users
<1>3. IsFiniteSet(users)
  <2>1. DOMAIN requests = 1..Len(requests) /\ users \subseteq DOMAIN requests
    BY <1>0 DEF RequestIds, Users
  <2>2. Len(requests) \in Int /\ IsFiniteSet(1..Len(requests))
    BY FS_Interval
  <2> QED
    BY <2>1, <2>2, FS_Subset
<1>4. \A e, f \in touching : e.request = f.request => e = f
  BY DEF Touching, EntriesOf
<1>5. IsFiniteSet(touching) /\ Cardinality(touching) = Cardinality(users)
  BY <1>2, <1>3, <1>4, AsManyEntries
<1>6. (touching = {}) <=> (users = {})
  BY <1>2 DEF RequestIds
<1>7. /\ MapThenSumSet(LAMBDA e : e.elapsed, touching) \in Int
      /\ MapThenSumSet(LAMBDA e : e.elapsed, touching) <= Total(takes, users)
  <2>1. MapThenSumSet(LAMBDA e : e.elapsed, touching) = Total(took, touching)
    BY TookTotal
  <2>3. \A e \in touching : e.request \in users /\ of[e.request] = e
    BY <1>2, <1>4 DEF RequestIds
  <2>4. \A e \in touching : took[e] \in Int /\ held[id[e]] = took[e]
    <3> SUFFICES ASSUME NEW e \in touching PROVE took[e] \in Int /\ held[id[e]] = took[e]
      OBVIOUS
    <3>1. e \in entries /\ e.elapsed \in Int
      BY <1>0 DEF Touching
    <3>2. took[e] = e.elapsed /\ id[e] = e.request
      OBVIOUS
    <3>3. held[e.request] = of[e.request].elapsed
      BY <2>3
    <3> QED
      BY <2>3, <3>1, <3>2, <3>3
  <2>5. users = {id[e] : e \in touching}
    BY <1>2 DEF RequestIds
  <2>6. \A i \in users : \E e \in touching : of[i] = e /\ e.request = i
    BY <1>2 DEF RequestIds
  <2>7. \A i \in users : held[i] \in Int /\ takes[i] \in Int /\ held[i] <= takes[i]
    BY <1>0, <2>6 DEF Touching
  <2>8. \A e, f \in touching : id[e] = id[f] => e = f
    BY <1>4
  <2> HIDE DEF touching, id, took, of, held, takes
  <2>9. Total(held, {id[e] : e \in touching}) = Total(took, touching)
    BY <1>5, <2>4, <2>8, TotalRenamed
  <2>10. Total(held, users) <= Total(takes, users)
    BY <1>3, <2>7, TotalOrder
  <2>11. Total(took, touching) \in Int
    BY <1>5, <2>4, TotalInt
  <2> QED
    BY <2>1, <2>5, <2>9, <2>10, <2>11
<1>8. ASSUME WorstKind(KindsOf(entries, o)) = "qualified"
      PROVE  \E i \in users : \E k \in DOMAIN requests[i].command :
               requests[i].command[k].schema = o[1] /\ requests[i].command[k].name = o[2]
  <2>1. "qualified" \in KindsOf(entries, o)
    BY <1>8 DEF WorstKind
  <2>2. PICK e \in touching : \E t \in e.tables : t.object = o /\ t.kind = "qualified"
    BY <2>1 DEF KindsOf
  <2>3. e.request \in users /\ e \in entries
    BY <1>2 DEF RequestIds, Touching
  <2> QED
    BY <1>0, <2>2, <2>3, CommandNames
<1>9. rows = IF touching = {} THEN {} ELSE {RequestRow(entries, o)}
  BY RowsAre DEF RowOf
<1>10. /\ RequestRow(entries, o).count = Cardinality(touching) /\ RequestRow(entries, o).kind = WorstKind(KindsOf(entries, o))
       /\ RequestRow(entries, o).elapsed = MapThenSumSet(LAMBDA e : e.elapsed, touching)
  BY DEF RequestRow
<1>11. takes = [i \in users |-> requests[i].elapsed]
  OBVIOUS
<1> HIDE DEF touching, users, rows, took, takes
<1>12. (rows = {}) = (users = {})
  BY <1>6, <1>9
<1>13. ASSUME NEW r \in rows
       PROVE  /\ r.count = Cardinality(users)
              /\ r.elapsed \in Int /\ r.elapsed <= Total(takes, users)
              /\ r.kind = "qualified" => \E i \in users : \E k \in DOMAIN requests[i].command :
                   requests[i].command[k].schema = o[1] /\ requests[i].command[k].name = o[2]
  <2>1. r = RequestRow(entries, o)
    BY <1>9
  <2>2. r.elapsed = MapThenSumSet(LAMBDA e : e.elapsed, touching)
    BY <1>10, <2>1
  <2>3. r.elapsed \in Int /\ r.elapsed <= Total(takes, users)
    BY <1>7, <2>2
  <2> QED
    BY <1>5, <1>8, <1>10, <2>1, <2>3
<1>14. RowSays(requests, users, rows, o)
  BY <1>11, <1>12, <1>13 DEF RowSays
<1> QED
  BY <1>14 DEF users, rows

-----------------------------------------------------------------------------
\* What is in the file stays there, and is as long as it was, while requests go on.
Goes(requests, later) ==
    /\ later \in Seq(Request) /\ DOMAIN requests \subseteq DOMAIN later
    /\ \A i \in DOMAIN requests : /\ later[i].day = requests[i].day /\ later[i].command = requests[i].command
                                  /\ later[i].elapsed >= requests[i].elapsed
\* Of what kind requests are.
LEMMA Requests ==
    ASSUME NEW requests \in Seq(Request)
    PROVE  /\ \A i \in DOMAIN requests : /\ requests[i] \in Request /\ requests[i].day \in Nat
                                          /\ requests[i].command \in Commands /\ requests[i].elapsed \in Nat
           /\ IsFiniteSet(DOMAIN requests)
<1>1. \A i \in DOMAIN requests : requests[i] \in Request
  OBVIOUS
<1>2. \A q \in Request : q.day \in Nat /\ q.command \in Commands /\ q.elapsed \in Nat
  BY DEF Request
<1>3. DOMAIN requests = 1..Len(requests) /\ Len(requests) \in Int
  OBVIOUS
<1>4. IsFiniteSet(1..Len(requests))
  BY <1>3, FS_Interval
<1> QED
  BY <1>1, <1>2, <1>3, <1>4

\* Entries stay true of their requests.
LEMMA EntriesGo ==
    ASSUME NEW entries, NEW requests \in Seq(Request), EntriesOf(entries, requests), NEW later, Goes(requests, later)
    PROVE  EntriesOf(entries, later)
<1> SUFFICES ASSUME NEW e \in entries
             PROVE  /\ e.request \in DOMAIN later
                    /\ e.day = later[e.request].day /\ e.tables = ParseCommand(later[e.request].command)
                    /\ e.elapsed \in Nat /\ e.elapsed <= later[e.request].elapsed
  BY DEF EntriesOf
<1>1. /\ e.request \in DOMAIN requests
      /\ e.day = requests[e.request].day /\ e.tables = ParseCommand(requests[e.request].command)
      /\ e.elapsed \in Nat /\ e.elapsed <= requests[e.request].elapsed
  BY DEF EntriesOf
<1>2. e.request \in DOMAIN later /\ later[e.request].elapsed \in Nat /\ requests[e.request].elapsed \in Nat
  BY <1>1, Requests DEF Goes
<1> QED
  BY <1>1, <1>2 DEF Goes

\* Requests that go on change nothing of the latest report but what they take.
LEMMA ReportGoes ==
    ASSUME CaptureType, CacheSpansRuns, RowsSay, Goes(issued, issued'), UNCHANGED <<consumed, reported>>
    PROVE  CacheSpansRuns' /\ RowsSay'
<1>1. \A i \in reported : /\ i \in DOMAIN issued /\ i \in DOMAIN issued' /\ issued'[i].day = issued[i].day
                           /\ issued'[i].command = issued[i].command /\ issued'[i].elapsed >= issued[i].elapsed
                           /\ issued'[i].elapsed \in Nat /\ issued[i].elapsed \in Nat
  BY Requests DEF CaptureType, Goes
<1>2. Within' = Within /\ Within \subseteq reported
  BY <1>1 DEF Within
<1>3. {issued'[i].day : i \in Within'} = {issued[i].day : i \in Within}
  BY <1>1, <1>2
<1>4. CacheSpansRuns'
  BY <1>2, <1>3 DEF CacheSpansRuns
<1>5. ASSUME NEW o \in Objects, RowSays(issued, Users(issued, Within, o), RowOf(consumed.rows, o), o)
      PROVE  RowSays(issued', Users(issued', Within', o), RowOf(consumed'.rows, o), o)
  <2> DEFINE users == Users(issued, Within, o)
             rows == RowOf(consumed.rows, o)
             took == [i \in users |-> issued[i].elapsed]
             takes == [i \in users |-> issued'[i].elapsed]
  <2>1. Users(issued', Within', o) = users /\ users \subseteq Within
    BY <1>1, <1>2 DEF Users
  <2>2. /\ (rows = {}) = (users = {})
        /\ \A r \in rows :
             /\ r.count = Cardinality(users) /\ r.elapsed \in Int /\ r.elapsed <= Total(took, users)
             /\ r.kind = "qualified" => \E i \in users : \E k \in DOMAIN issued[i].command :
                  issued[i].command[k].schema = o[1] /\ issued[i].command[k].name = o[2]
    BY <1>5 DEF RowSays
  <2>3. RowOf(consumed'.rows, o) = rows
    OBVIOUS
  <2>4. \A i \in users : took[i] \in Int /\ takes[i] \in Int /\ took[i] <= takes[i]
    BY <1>1, <1>2, <2>1
  <2>5. IsFiniteSet(users)
    BY <1>1, <1>2, <2>1, Requests, FS_Subset DEF CaptureType
  <2>6. \A i \in users : issued'[i].command = issued[i].command
    BY <1>1, <1>2, <2>1
  <2>7. takes = [i \in users |-> issued'[i].elapsed]
    OBVIOUS
  <2> HIDE DEF users, rows, took, takes
  <2>8. Total(took, users) <= Total(takes, users) /\ Total(took, users) \in Int /\ Total(takes, users) \in Int
    BY <2>4, <2>5, TotalOrder, TotalInt
  <2>9. RowSays(issued', users, rows, o)
    BY <2>2, <2>6, <2>7, <2>8 DEF RowSays
  <2> QED
    BY <2>1, <2>3, <2>9
<1> QED
  BY <1>2, <1>4, <1>5 DEF RowsSay

-----------------------------------------------------------------------------
\* The cache of a run: what was captured by it or before, and is not outdated.
New == {CacheEntry(i) : i \in Returned \ RequestIds(Load(workloadFile))}
Cache == Prune(Merge(Load(workloadFile), New))
Captured == stored \cup Returned

\* The cache of a run holds what was captured by it or before and is not outdated.
LEMMA CacheIs ==
    ASSUME CaptureInv
    PROVE  /\ EntriesOf(Cache, issued)
           /\ RequestIds(Cache) = {i \in Captured : issued[i].day >= captureDay - TtlDays}
           /\ Captured \subseteq DOMAIN issued
<1> DEFINE held == Load(workloadFile)
<1>1. /\ EntriesOf(held, issued) /\ RequestIds(held) \subseteq stored
      /\ \A i \in stored : issued[i].day >= captureDay - TtlDays => i \in RequestIds(held)
  BY DEF CaptureInv, FileInv
<1>2. Captured \subseteq DOMAIN issued /\ Returned \subseteq DOMAIN issued /\ stored \subseteq DOMAIN issued
  BY DEF CaptureInv, CaptureType, Captured, Returned
<1>3. \A i \in DOMAIN issued : issued[i].elapsed \in Nat
  BY Requests DEF CaptureInv, CaptureType
<1>4. \A i : /\ CacheEntry(i).request = i /\ CacheEntry(i).day = issued[i].day
             /\ CacheEntry(i).elapsed = issued[i].elapsed /\ CacheEntry(i).tables = ParseCommand(issued[i].command)
  BY DEF CacheEntry
<1>5. \A e : e \in Cache <=> /\ e.day >= captureDay - TtlDays
                             /\ \/ e \in held
                                \/ \E i \in Returned : i \notin RequestIds(held) /\ e = CacheEntry(i)
  <2>1. \A e : e \in New <=> \E i \in Returned : i \notin RequestIds(held) /\ e = CacheEntry(i)
    BY DEF New
  <2>2. \A e : e \in Cache <=> /\ e.day >= captureDay - TtlDays
                               /\ e \in held \/ (e \in New /\ e.request \notin RequestIds(held))
    BY DEF Cache, Prune, Merge
  <2> HIDE DEF held
  <2> QED
    BY <1>4, <2>1, <2>2
<1> HIDE DEF held
<1>6. \A e \in held : e.request \in RequestIds(held)
  BY DEF RequestIds
<1>7. EntriesOf(Cache, issued)
  <2>1. ASSUME NEW e \in Cache
        PROVE  /\ e.request \in DOMAIN issued
               /\ e.day = issued[e.request].day /\ e.tables = ParseCommand(issued[e.request].command)
               /\ e.elapsed \in Nat /\ e.elapsed <= issued[e.request].elapsed
    <3>1. CASE e \in held
      BY <1>1, <3>1 DEF EntriesOf
    <3>2. CASE \E i \in Returned : e = CacheEntry(i)
      BY <1>2, <1>3, <1>4, <3>2
    <3> QED
      BY <1>5, <3>1, <3>2
  <2>2. ASSUME NEW e \in Cache, NEW f \in Cache, e.request = f.request
        PROVE  e = f
    <3>1. CASE e \in held /\ f \in held
      BY <1>1, <2>2, <3>1 DEF EntriesOf
    <3>2. CASE e \notin held \/ f \notin held
      BY <1>4, <1>5, <1>6, <2>2, <3>2
    <3> QED
      BY <3>1, <3>2
  <2> QED
    BY <2>1, <2>2 DEF EntriesOf
<1>8. ASSUME NEW i
      PROVE  i \in RequestIds(Cache) <=> i \in Captured /\ issued[i].day >= captureDay - TtlDays
  <2>1. i \in RequestIds(Cache) <=> \E e \in Cache : e.request = i
    BY DEF RequestIds
  <2>2. i \in RequestIds(held) <=> \E e \in held : e.request = i
    BY DEF RequestIds
  <2>3. \A e \in held : e.day = issued[e.request].day
    BY <1>1 DEF EntriesOf
  <2>4. ASSUME NEW e \in Cache, e.request = i
        PROVE  i \in Captured /\ issued[i].day >= captureDay - TtlDays
    <3>1. CASE e \in held
      BY <1>1, <1>5, <1>6, <2>3, <2>4, <3>1 DEF Captured
    <3>2. CASE \E j \in Returned : e = CacheEntry(j)
      BY <1>4, <1>5, <2>4, <3>2 DEF Captured
    <3> QED
      BY <1>5, <3>1, <3>2
  <2>5. ASSUME i \in Captured, issued[i].day >= captureDay - TtlDays
        PROVE  \E e \in Cache : e.request = i
    <3>1. CASE i \in RequestIds(held)
      BY <1>5, <2>2, <2>3, <2>5, <3>1
    <3>2. CASE i \notin RequestIds(held)
      <4>1. i \in Returned
        BY <1>1, <2>5, <3>2 DEF Captured
      <4>2. CacheEntry(i) \in Cache
        BY <1>4, <1>5, <2>5, <3>2, <4>1
      <4> QED
        BY <1>4, <4>2
    <3> QED
      BY <3>1, <3>2
  <2> QED
    BY <2>1, <2>4, <2>5
<1> QED
  BY <1>2, <1>7, <1>8

LEMMA LoadSaved == \A entries : Load(Saved(entries)) = entries
  BY DEF Load, Saved

LEMMA CaptureStep == ASSUME CaptureInv, SharedOutput, Capture PROVE CaptureInv'
<1> DEFINE ids == {i \in Captured : issued[i].day >= captureDay - TtlDays}
<1>1. /\ Collected(Cache, New) /\ UNCHANGED <<captureDay, issued, dmv, damaged>>
      /\ \/ workloadFile' = Saved(Cache) /\ stored' = Captured
         \/ UNCHANGED <<workloadFile, stored>>
  BY DEF Capture, FileRead, Cache, New, Captured
<1>2. EntriesOf(Cache, issued) /\ RequestIds(Cache) = ids /\ Captured \subseteq DOMAIN issued
  BY CacheIs
<1>3. reported' = Captured
  BY <1>1 DEF Collected, Captured
<1>4. CaptureType'
  BY <1>1, <1>2, <1>3 DEF CaptureInv, CaptureType
<1>5. FileInv'
  <2>1. CASE workloadFile' = Saved(Cache) /\ stored' = Captured
    <3>1. Load(workloadFile') = Cache
      BY <2>1, LoadSaved
    <3>2. ids \subseteq Captured
      OBVIOUS
    <3> QED
      BY <1>1, <1>2, <2>1, <3>1, <3>2 DEF FileInv
  <2>2. CASE UNCHANGED <<workloadFile, stored>>
    BY <1>1, <2>2 DEF CaptureInv, FileInv
  <2> QED
    BY <1>1, <2>1, <2>2
<1>6. /\ consumed'.rows = RankObjects(Cache) /\ consumed'.total = Cardinality(Cache) /\ consumed'.day = captureDay
      /\ consumed'.oldest = Bound(Cache, Min) /\ consumed'.newest = Bound(Cache, Max)
  BY <1>1 DEF Collected
<1>7. Within' = ids
  BY <1>1, <1>3, <1>6 DEF Within
<1>8. IsFiniteSet(ids) /\ Cardinality(Cache) = Cardinality(ids)
  <2>1. IsFiniteSet(ids)
    BY <1>2, Requests, FS_Subset DEF CaptureInv, CaptureType
  <2>2. \A e, f \in Cache : e.request = f.request => e = f
    BY <1>2 DEF EntriesOf
  <2> HIDE DEF ids
  <2> QED
    BY <1>2, <2>1, <2>2, AsManyEntries
<1>9. {e.day : e \in Cache} = {issued[i].day : i \in ids}
  <2>1. \A e \in Cache : e.day = issued[e.request].day /\ e.request \in ids
    BY <1>2 DEF EntriesOf, RequestIds
  <2>2. \A i \in ids : \E e \in Cache : e.request = i
    BY <1>2 DEF RequestIds
  <2> HIDE DEF ids
  <2> QED
    BY <2>1, <2>2
<1>10. (Cache = {}) <=> (ids = {})
  BY <1>2 DEF RequestIds
<1>11. CacheSpansRuns'
  <2>1. Bound(Cache, Min) = IF ids = {} THEN -1 ELSE Min({issued[i].day : i \in ids})
    BY <1>9, <1>10 DEF Bound
  <2>2. Bound(Cache, Max) = IF ids = {} THEN -1 ELSE Max({issued[i].day : i \in ids})
    BY <1>9, <1>10 DEF Bound
  <2> HIDE DEF ids
  <2> QED
    BY <1>1, <1>6, <1>7, <1>8, <2>1, <2>2 DEF CacheSpansRuns
<1>12. RowsSay'
  <2>1. \A o \in Objects : RowSays(issued, Users(issued, ids, o), RowOf(RankObjects(Cache), o), o)
    BY <1>2, RowTrue DEF CaptureInv, CaptureType
  <2> HIDE DEF ids
  <2> QED
    BY <1>1, <1>6, <1>7, <2>1 DEF RowsSay
<1> QED
  BY <1>4, <1>5, <1>11, <1>12 DEF CaptureInv

\* Steps of the pool, its clock, and hands on the file.
LEMMA GoesOn ==
    ASSUME CaptureInv, Goes(issued, issued'), dmv' \subseteq DOMAIN issued',
           UNCHANGED <<captureDay, workloadFile, consumed, stored, reported>>
    PROVE  CaptureInv'
<1>1. CaptureType'
  BY DEF CaptureInv, CaptureType, Goes
<1>2. CacheSpansRuns' /\ RowsSay'
  BY ReportGoes DEF CaptureInv
<1>3. EntriesOf(Load(workloadFile), issued')
  BY EntriesGo DEF CaptureInv, CaptureType, FileInv
<1>4. FileInv'
  <2>1. \A i \in stored : issued'[i].day = issued[i].day
    BY DEF CaptureInv, CaptureType, Goes
  <2> QED
    BY <1>3, <2>1 DEF CaptureInv, FileInv
<1> QED
  BY <1>1, <1>2, <1>4 DEF CaptureInv

LEMMA SubmitStep == ASSUME CaptureInv, NEW c \in Commands, Submit(c) PROVE CaptureInv'
<1> DEFINE request == [day |-> captureDay, command |-> c, elapsed |-> 1, running |-> TRUE]
           visible == dmv \cup {Len(issued) + 1}
<1>1. issued \in Seq(Request) /\ request \in Request /\ captureDay \in Nat /\ dmv \subseteq DOMAIN issued
  BY DEF CaptureInv, CaptureType, Request
<1>2. issued' = Append(issued, request) /\ UNCHANGED <<captureDay, workloadFile, consumed, stored, reported>>
      /\ dmv' = IF Cardinality(visible) > BufferSize THEN visible \ {Min(visible)} ELSE visible
  BY DEF Submit
<1> HIDE DEF request
<1>3. /\ issued' \in Seq(Request) /\ DOMAIN issued' = 1..(Len(issued) + 1) /\ DOMAIN issued = 1..Len(issued)
      /\ Len(issued) \in Nat /\ \A i \in 1..Len(issued) : issued'[i] = issued[i]
  BY <1>1, <1>2
<1>4. Goes(issued, issued')
  <2>1. \A i \in DOMAIN issued : issued[i].elapsed \in Nat
    BY <1>1, Requests
  <2> QED
    BY <1>3, <2>1 DEF Goes
<1>5. dmv' \subseteq DOMAIN issued'
  BY <1>1, <1>2, <1>3
<1> QED
  BY <1>2, <1>4, <1>5, GoesOn

LEMMA FinishRequestStep == ASSUME CaptureInv, NEW i \in DOMAIN issued, Finish(i) PROVE CaptureInv'
<1> DEFINE at == issued[i]
           request == [at EXCEPT !.running = FALSE, !.elapsed = @ + 2]
<1>1. issued \in Seq(Request) /\ dmv \subseteq DOMAIN issued /\ at \in Request
  BY Requests DEF CaptureInv, CaptureType
<1>2. issued' = [issued EXCEPT ![i] = request] /\ UNCHANGED <<captureDay, dmv, workloadFile, consumed, stored, reported>>
  BY DEF Finish
<1>3. /\ request \in Request /\ request.day = at.day /\ request.command = at.command
      /\ request.elapsed = at.elapsed + 2 /\ at.elapsed \in Nat
  <2> HIDE DEF at
  <2>1. /\ DOMAIN at = {"day", "command", "elapsed", "running"} /\ at = [k \in DOMAIN at |-> at[k]]
        /\ at.day \in Nat /\ at.command \in Commands /\ at.elapsed \in Nat
    BY <1>1 DEF Request
  <2>2. at.elapsed + 2 \in Nat
    BY <2>1
  <2>3. /\ DOMAIN request = DOMAIN at /\ request = [k \in DOMAIN at |-> request[k]] /\ request.day = at.day
        /\ request.command = at.command /\ request.running = FALSE
    BY <2>1
  <2>4. request.elapsed = at.elapsed + 2
    BY <2>1
  <2> HIDE DEF request
  <2> QED
    BY <2>1, <2>2, <2>3, <2>4 DEF Request
<1> HIDE DEF request
<1>4. issued' \in Seq(Request) /\ DOMAIN issued' = DOMAIN issued
      /\ \A j \in DOMAIN issued : issued'[j] = IF j = i THEN request ELSE issued[j]
  BY <1>1, <1>2, <1>3
<1>5. Goes(issued, issued')
  <2>1. \A j \in DOMAIN issued : issued[j].elapsed \in Nat
    BY <1>1, Requests
  <2> QED
    BY <1>3, <1>4, <2>1 DEF Goes
<1> QED
  BY <1>1, <1>2, <1>4, <1>5, GoesOn

LEMMA CaptureStarts == CaptureInit => CaptureInv
<1> SUFFICES ASSUME CaptureInit PROVE CaptureInv
  OBVIOUS
<1>1. captureDay = 0 /\ issued = <<>> /\ dmv = {} /\ workloadFile = NoFile /\ consumed = Nothing /\ reported = {} /\ stored = {}
  BY DEF CaptureInit
<1>2. CaptureType
  BY <1>1 DEF CaptureType
<1>3. Load(workloadFile) = {}
  BY <1>1 DEF Load, NoFile
<1>4. FileInv
  BY <1>1, <1>3 DEF FileInv, EntriesOf, RequestIds
<1> QED
  BY <1>1, <1>2, <1>4 DEF CaptureInv, CacheSpansRuns, RowsSay

LEMMA CaptureSteps == SharedOutput /\ CaptureInv /\ [CaptureNext]_capVars => CaptureInv'
<1> SUFFICES ASSUME SharedOutput, CaptureInv, [CaptureNext]_capVars PROVE CaptureInv'
  OBVIOUS
<1>1. CASE Capture
  BY <1>1, CaptureStep
<1>2. CASE CaptureFails
  <2>1. /\ UNCHANGED <<captureDay, issued, dmv, workloadFile, stored>> /\ consumed' = Nothing /\ reported' = {}
    BY <1>2 DEF CaptureFails
  <2> QED
    BY <2>1 DEF CaptureInv, CaptureType, FileInv, CacheSpansRuns, RowsSay
<1>3. CASE NextDay
  <2>1. UNCHANGED <<issued, dmv, workloadFile, consumed, reported, stored>> /\ captureDay' = captureDay + 1
    BY <1>3 DEF NextDay
  <2>2. Within' = Within /\ CaptureType'
    BY <2>1 DEF Within, CaptureInv, CaptureType
  <2>3. \A i \in stored : issued[i].day \in Nat
    BY Requests DEF CaptureInv, CaptureType
  <2>4. captureDay \in Nat /\ TtlDays \in Nat
    BY CaptureAssumption DEF CaptureInv, CaptureType
  <2>5. FileInv'
    <3>2. \A i \in stored : issued[i].day >= captureDay - TtlDays => i \in RequestIds(Load(workloadFile))
      BY DEF CaptureInv, FileInv
    <3>3. EntriesOf(Load(workloadFile), issued) /\ RequestIds(Load(workloadFile)) \subseteq stored
      BY DEF CaptureInv, FileInv
    <3>4. \A i \in stored : issued[i].day >= captureDay' - TtlDays => i \in RequestIds(Load(workloadFile))
      <4>1. captureDay' = captureDay + 1
        BY <2>1
      <4>2. \A i \in stored : issued[i].day >= captureDay' - TtlDays => issued[i].day >= captureDay - TtlDays
        <5>1. captureDay + 1 \in Int /\ captureDay \in Int /\ TtlDays \in Int
          BY <2>4
        <5> QED
          BY <2>3, <4>1, <5>1
      <4> QED
        BY <3>2, <4>2
    <3> QED
      BY <2>1, <3>3, <3>4 DEF FileInv
  <2>6. CacheSpansRuns' /\ RowsSay'
    BY <2>1, <2>2 DEF CaptureInv, CacheSpansRuns, RowsSay
  <2> QED
    BY <2>2, <2>5, <2>6 DEF CaptureInv
<1>4. CASE Damage
  <2>1. /\ UNCHANGED <<captureDay, issued, dmv, consumed, reported>> /\ stored' = {}
        /\ \E s \in {"missing", "unparseable", "old version", "undecodable"} : workloadFile' = [state |-> s, entries |-> {}]
    BY <1>4 DEF Damage
  <2>2. Load(workloadFile') = {}
    <3>1. \A s : s # "ok" => Load([state |-> s, entries |-> {}]) = {}
      BY DEF Load
    <3>2. PICK s \in {"missing", "unparseable", "old version", "undecodable"} : workloadFile' = [state |-> s, entries |-> {}]
      BY <2>1
    <3> QED
      BY <3>1, <3>2
  <2>3. FileInv'
    BY <2>1, <2>2 DEF FileInv, EntriesOf, RequestIds
  <2>4. Within' = Within /\ CaptureType'
    BY <2>1 DEF Within, CaptureInv, CaptureType
  <2>5. CacheSpansRuns' /\ RowsSay'
    BY <2>1, <2>4 DEF CaptureInv, CacheSpansRuns, RowsSay
  <2> QED
    BY <2>3, <2>4, <2>5 DEF CaptureInv
<1>5. CASE \E c \in Commands : Submit(c)
  BY <1>5, SubmitStep
<1>6. CASE \E i \in DOMAIN issued : Finish(i)
  BY <1>6, FinishRequestStep
<1>7. CASE UNCHANGED capVars
  <2>1. UNCHANGED <<captureDay, issued, dmv, workloadFile, consumed, stored, reported>>
    BY <1>7 DEF capVars
  <2>2. Within' = Within
    BY <2>1 DEF Within
  <2> QED
    BY <2>1, <2>2 DEF CaptureInv, CaptureType, FileInv, CacheSpansRuns, RowsSay
<1> QED
  BY <1>1, <1>2, <1>3, <1>4, <1>5, <1>6, <1>7 DEF CaptureNext

LEMMA CaptureTold == CaptureInv => CaptureTrue
<1> SUFFICES ASSUME CaptureInv, consumed.total = Cardinality(Within), consumed # Nothing, NEW o \in Objects
             PROVE  LET users == {i \in Within : Names(i, o)}
                        row == {r \in consumed.rows : r.object = o}
                    IN /\ (row = {}) = (users = {})
                       /\ \A r \in row :
                            /\ r.count = Cardinality(users)
                            /\ r.elapsed <= MapThenSumSet(LAMBDA i : issued[i].elapsed, users)
                            /\ r.kind = "qualified" => \E i \in users : \E k \in DOMAIN issued[i].command :
                                 issued[i].command[k].schema = o[1] /\ issued[i].command[k].name = o[2]
  BY DEF CaptureTrue, UsageExact, CaptureInv
<1> DEFINE users == {i \in Within : Names(i, o)}
           takes == [i \in users |-> issued[i].elapsed]
<1>1. users = Users(issued, Within, o)
  BY DEF Users, Names, NamedIn
<1>2. RowSays(issued, users, RowOf(consumed.rows, o), o)
  BY <1>1 DEF CaptureInv, RowsSay
<1>3. MapThenSumSet(LAMBDA i : issued[i].elapsed, users) = Total(takes, users)
  BY TakesTotal
<1> HIDE DEF users
<1> QED
  BY <1>2, <1>3 DEF RowSays, RowOf, users

\* Where runs share an output directory, what a run reports of the requests to a
\* pool is about every request of the last TtlDays that it or a run before it
\* captured, each once, ranked by what they name: for any buffer, look-back and
\* time to live, any requests and catalogue, and any damage to the file.
THEOREM CaptureIsTrue == SharedOutput => (CaptureSpec => []CaptureTrue)
<1>1. CASE ~SharedOutput
  BY <1>1
<1>2. CASE SharedOutput
  <2>1. CaptureInv /\ [CaptureNext]_capVars => CaptureInv'
    BY <1>2, CaptureSteps
  <2> QED
    BY <2>1, CaptureStarts, CaptureTold, PTL DEF CaptureSpec
<1> QED
  BY <1>1, <1>2

(***************************************************************************)
(* BigQuery.  Every breakdown of the jobs is a sum by key: what its rows   *)
(* count is a function of the job, and a job has one key.                  *)
(***************************************************************************)
BqJobSet(J) == IsFiniteSet(J) /\ \A j \in J : j.slot \in Int /\ j.bytes \in Int /\ j.age \in Int

SlotsOf(J) == [j \in J |-> Max({0, j.slot})]
BytesOf(J) == [j \in J |-> Max({0, j.bytes})]
OneOf(J) == [j \in J |-> 1]

LEMMA AtLeastZero == ASSUME NEW n \in Int PROVE Max({0, n}) \in Nat /\ Max({0, n}) >= n
<1>1. \E m \in {0, n} : \A y \in {0, n} : m >= y
  OBVIOUS
<1>2. Max({0, n}) \in {0, n} /\ \A y \in {0, n} : Max({0, n}) >= y
  BY <1>1 DEF Max
<1> QED
  BY <1>2

LEMMA SlotTotal == ASSUME NEW J PROVE SlotTime(J) = Total(SlotsOf(J), J)
<1> DEFINE A(g) == g = [s \in SUBSET J |-> IF s = {} THEN 0 ELSE Max({0, Pick(s).slot}) + g[s \ {Pick(s)}]]
           B(g) == g = [s \in SUBSET J |-> IF s = {} THEN 0 ELSE SlotsOf(J)[Pick(s)] + g[s \ {Pick(s)}]]
<1>1. ASSUME NEW g PROVE A(g) = B(g)
  <2>1. \A s \in SUBSET J : s # {} => Max({0, Pick(s).slot}) = SlotsOf(J)[Pick(s)]
    BY Picked DEF SlotsOf
  <2> QED
    BY <2>1
<1>2. (CHOOSE g : A(g)) = (CHOOSE g : B(g))
  <2> HIDE DEF A, B
  <2> QED
    BY <1>1
<1>3. SlotTime(J) = (CHOOSE g : A(g))[J]
  BY DEF SlotTime, Measured, MapThenSumSet, MapThenFoldSet, Pick
<1>4. Total(SlotsOf(J), J) = (CHOOSE g : B(g))[J]
  BY DEF Total, MapThenSumSet, MapThenFoldSet, Pick
<1> QED
  BY <1>2, <1>3, <1>4

LEMMA BytesTotal == ASSUME NEW J PROVE Billed(J) = Total(BytesOf(J), J)
<1> DEFINE A(g) == g = [s \in SUBSET J |-> IF s = {} THEN 0 ELSE Max({0, Pick(s).bytes}) + g[s \ {Pick(s)}]]
           B(g) == g = [s \in SUBSET J |-> IF s = {} THEN 0 ELSE BytesOf(J)[Pick(s)] + g[s \ {Pick(s)}]]
<1>1. ASSUME NEW g PROVE A(g) = B(g)
  <2>1. \A s \in SUBSET J : s # {} => Max({0, Pick(s).bytes}) = BytesOf(J)[Pick(s)]
    BY Picked DEF BytesOf
  <2> QED
    BY <2>1
<1>2. (CHOOSE g : A(g)) = (CHOOSE g : B(g))
  <2> HIDE DEF A, B
  <2> QED
    BY <1>1
<1>3. Billed(J) = (CHOOSE g : A(g))[J]
  BY DEF Billed, Measured, MapThenSumSet, MapThenFoldSet, Pick
<1>4. Total(BytesOf(J), J) = (CHOOSE g : B(g))[J]
  BY DEF Total, MapThenSumSet, MapThenFoldSet, Pick
<1> QED
  BY <1>2, <1>3, <1>4

\* The columns of a breakdown.
RowJobs(rows, K) == [k \in K |-> rows[k].jobs]
RowSlots(rows, K) == [k \in K |-> rows[k].slots]
RowBytes(rows, K) == [k \in K |-> rows[k].bytes]
RowEnded(rows, K) == [k \in K |-> rows[k].succeeded + rows[k].failed]

LEMMA JobsColumn == ASSUME NEW rows, NEW K
    PROVE MapThenSumSet(LAMBDA k : rows[k].jobs, K) = Total(RowJobs(rows, K), K)
<1> DEFINE A(g) == g = [s \in SUBSET K |-> IF s = {} THEN 0 ELSE rows[Pick(s)].jobs + g[s \ {Pick(s)}]]
           B(g) == g = [s \in SUBSET K |-> IF s = {} THEN 0 ELSE RowJobs(rows, K)[Pick(s)] + g[s \ {Pick(s)}]]
<1>1. ASSUME NEW g PROVE A(g) = B(g)
  <2>1. \A s \in SUBSET K : s # {} => rows[Pick(s)].jobs = RowJobs(rows, K)[Pick(s)]
    BY Picked DEF RowJobs
  <2> QED
    BY <2>1
<1>2. (CHOOSE g : A(g)) = (CHOOSE g : B(g))
  <2> HIDE DEF A, B
  <2> QED
    BY <1>1
<1>3. MapThenSumSet(LAMBDA k : rows[k].jobs, K) = (CHOOSE g : A(g))[K]
  BY DEF MapThenSumSet, MapThenFoldSet, Pick
<1>4. Total(RowJobs(rows, K), K) = (CHOOSE g : B(g))[K]
  BY DEF Total, MapThenSumSet, MapThenFoldSet, Pick
<1> QED
  BY <1>2, <1>3, <1>4

LEMMA SlotsColumn == ASSUME NEW rows, NEW K
    PROVE MapThenSumSet(LAMBDA k : rows[k].slots, K) = Total(RowSlots(rows, K), K)
<1> DEFINE A(g) == g = [s \in SUBSET K |-> IF s = {} THEN 0 ELSE rows[Pick(s)].slots + g[s \ {Pick(s)}]]
           B(g) == g = [s \in SUBSET K |-> IF s = {} THEN 0 ELSE RowSlots(rows, K)[Pick(s)] + g[s \ {Pick(s)}]]
<1>1. ASSUME NEW g PROVE A(g) = B(g)
  <2>1. \A s \in SUBSET K : s # {} => rows[Pick(s)].slots = RowSlots(rows, K)[Pick(s)]
    BY Picked DEF RowSlots
  <2> QED
    BY <2>1
<1>2. (CHOOSE g : A(g)) = (CHOOSE g : B(g))
  <2> HIDE DEF A, B
  <2> QED
    BY <1>1
<1>3. MapThenSumSet(LAMBDA k : rows[k].slots, K) = (CHOOSE g : A(g))[K]
  BY DEF MapThenSumSet, MapThenFoldSet, Pick
<1>4. Total(RowSlots(rows, K), K) = (CHOOSE g : B(g))[K]
  BY DEF Total, MapThenSumSet, MapThenFoldSet, Pick
<1> QED
  BY <1>2, <1>3, <1>4

LEMMA BytesColumn == ASSUME NEW rows, NEW K
    PROVE MapThenSumSet(LAMBDA k : rows[k].bytes, K) = Total(RowBytes(rows, K), K)
<1> DEFINE A(g) == g = [s \in SUBSET K |-> IF s = {} THEN 0 ELSE rows[Pick(s)].bytes + g[s \ {Pick(s)}]]
           B(g) == g = [s \in SUBSET K |-> IF s = {} THEN 0 ELSE RowBytes(rows, K)[Pick(s)] + g[s \ {Pick(s)}]]
<1>1. ASSUME NEW g PROVE A(g) = B(g)
  <2>1. \A s \in SUBSET K : s # {} => rows[Pick(s)].bytes = RowBytes(rows, K)[Pick(s)]
    BY Picked DEF RowBytes
  <2> QED
    BY <2>1
<1>2. (CHOOSE g : A(g)) = (CHOOSE g : B(g))
  <2> HIDE DEF A, B
  <2> QED
    BY <1>1
<1>3. MapThenSumSet(LAMBDA k : rows[k].bytes, K) = (CHOOSE g : A(g))[K]
  BY DEF MapThenSumSet, MapThenFoldSet, Pick
<1>4. Total(RowBytes(rows, K), K) = (CHOOSE g : B(g))[K]
  BY DEF Total, MapThenSumSet, MapThenFoldSet, Pick
<1> QED
  BY <1>2, <1>3, <1>4

LEMMA EndedColumn == ASSUME NEW rows, NEW K
    PROVE MapThenSumSet(LAMBDA k : rows[k].succeeded + rows[k].failed, K) = Total(RowEnded(rows, K), K)
<1> DEFINE A(g) == g = [s \in SUBSET K |-> IF s = {} THEN 0 ELSE rows[Pick(s)].succeeded + rows[Pick(s)].failed + g[s \ {Pick(s)}]]
           B(g) == g = [s \in SUBSET K |-> IF s = {} THEN 0 ELSE RowEnded(rows, K)[Pick(s)] + g[s \ {Pick(s)}]]
<1>1. ASSUME NEW g PROVE A(g) = B(g)
  <2>1. \A s \in SUBSET K : s # {} => rows[Pick(s)].succeeded + rows[Pick(s)].failed = RowEnded(rows, K)[Pick(s)]
    BY Picked DEF RowEnded
  <2> QED
    BY <2>1
<1>2. (CHOOSE g : A(g)) = (CHOOSE g : B(g))
  <2> HIDE DEF A, B
  <2> QED
    BY <1>1
<1>3. MapThenSumSet(LAMBDA k : rows[k].succeeded + rows[k].failed, K) = (CHOOSE g : A(g))[K]
  BY DEF MapThenSumSet, MapThenFoldSet, Pick
<1>4. Total(RowEnded(rows, K), K) = (CHOOSE g : B(g))[K]
  BY DEF Total, MapThenSumSet, MapThenFoldSet, Pick
<1> QED
  BY <1>2, <1>3, <1>4

LEMMA TableCountColumn == ASSUME NEW count, NEW K
    PROVE MapThenSumSet(LAMBDA id : count[id], K) = Total(count, K)
BY DEF MapThenSumSet, MapThenFoldSet, Total

LEMMA Ones ==
    ASSUME NEW J, IsFiniteSet(J), NEW T \in SUBSET J
    PROVE  Total(OneOf(J), T) = Cardinality(T)
<1>1. IsFiniteSet(T) /\ \A j \in T : OneOf(J)[j] = 1
  BY FS_Subset DEF OneOf
<1>2. Total(OneOf(J), T) = 1 * Cardinality(T)
  BY <1>1, TotalConst
<1> QED
  BY <1>1, <1>2, FS_CardinalityType

\* Slot time and bytes are numbers that a job never lowers.
LEMMA JobNumbers ==
    ASSUME NEW J, BqJobSet(J)
    PROVE  /\ IsFiniteSet(J)
           /\ \A j \in J : SlotsOf(J)[j] \in Nat /\ SlotsOf(J)[j] >= j.slot /\ BytesOf(J)[j] \in Nat /\ OneOf(J)[j] \in Nat
           /\ \A j \in J : SlotsOf(J)[j] \in Int /\ BytesOf(J)[j] \in Int /\ OneOf(J)[j] \in Int
<1>1. IsFiniteSet(J) /\ \A j \in J : j.slot \in Int /\ j.bytes \in Int
  BY DEF BqJobSet
<1>2. \A j \in J : SlotsOf(J)[j] = Max({0, j.slot}) /\ BytesOf(J)[j] = Max({0, j.bytes}) /\ OneOf(J)[j] = 1
  BY DEF SlotsOf, BytesOf, OneOf
<1>3. ASSUME NEW j \in J
      PROVE  SlotsOf(J)[j] \in Nat /\ SlotsOf(J)[j] >= j.slot /\ BytesOf(J)[j] \in Nat /\ OneOf(J)[j] \in Nat
  <2>1. j.slot \in Int /\ j.bytes \in Int
    BY <1>1
  <2>2. Max({0, j.slot}) \in Nat /\ Max({0, j.slot}) >= j.slot /\ Max({0, j.bytes}) \in Nat
    BY <2>1, AtLeastZero, Zenon
  <2> QED
    BY <1>2, <2>2
<1> QED
  BY <1>1, <1>3

LEMMA PartTotals ==
    ASSUME NEW J, BqJobSet(J), NEW T \in SUBSET J
    PROVE  /\ BqJobSet(T)
           /\ SlotTime(T) = Total(SlotsOf(J), T) /\ Billed(T) = Total(BytesOf(J), T)
           /\ SlotTime(T) \in Nat /\ SlotTime(T) <= SlotTime(J)
<1>1. IsFiniteSet(T) /\ BqJobSet(T)
  BY FS_Subset DEF BqJobSet
<1>2. \A j \in T : SlotsOf(T)[j] = SlotsOf(J)[j] /\ BytesOf(T)[j] = BytesOf(J)[j]
  BY DEF SlotsOf, BytesOf
<1>3. SlotTime(T) = Total(SlotsOf(J), T)
  BY <1>1, <1>2, SlotTotal, TotalSame
<1>4. Billed(T) = Total(BytesOf(J), T)
  BY <1>1, <1>2, BytesTotal, TotalSame
<1>5. SlotTime(J) = Total(SlotsOf(J), J)
  BY SlotTotal
<1>6. Total(SlotsOf(J), T) \in Nat /\ Total(SlotsOf(J), T) <= Total(SlotsOf(J), J)
  <2>1. \A j \in J : SlotsOf(J)[j] \in Nat
    BY JobNumbers
  <2>2. IsFiniteSet(J) /\ \A j \in T : SlotsOf(J)[j] \in Nat
    BY <2>1, JobNumbers
  <2> QED
    BY <1>1, <2>1, <2>2, TotalNat, TotalPart
<1> QED
  BY <1>1, <1>3, <1>4, <1>5, <1>6

\* The rows by key add up.
Sharing(J, key, k) == {j \in J : key[j] = k}
LEMMA KeysCover ==
    ASSUME NEW J, BqJobSet(J), NEW key, NEW K, IsFiniteSet(K), \A j \in J : key[j] \in K, NEW rows,
           \A k \in K : /\ rows[k].jobs = Cardinality(Sharing(J, key, k))
                        /\ rows[k].slots = SlotTime(Sharing(J, key, k))
                        /\ rows[k].bytes = Billed(Sharing(J, key, k))
    PROVE  RowsCover(rows, K, J)
<1>1. \A k : Sharing(J, key, k) \in SUBSET J /\ Sharing(J, key, k) = {j \in J : key[j] = k}
  BY DEF Sharing
<1>2. /\ IsFiniteSet(J) /\ \A j \in J : SlotsOf(J)[j] \in Int /\ BytesOf(J)[j] \in Int /\ OneOf(J)[j] \in Int
  BY JobNumbers
<1>3. ASSUME NEW k \in K
      PROVE  /\ RowJobs(rows, K)[k] = Total(OneOf(J), {j \in J : key[j] = k})
             /\ RowSlots(rows, K)[k] = Total(SlotsOf(J), {j \in J : key[j] = k})
             /\ RowBytes(rows, K)[k] = Total(BytesOf(J), {j \in J : key[j] = k})
  <2>1. /\ RowJobs(rows, K)[k] = rows[k].jobs /\ RowSlots(rows, K)[k] = rows[k].slots
        /\ RowBytes(rows, K)[k] = rows[k].bytes
    BY DEF RowJobs, RowSlots, RowBytes
  <2> DEFINE mine == Sharing(J, key, k)
  <2>2. mine \in SUBSET J /\ mine = {j \in J : key[j] = k}
    BY <1>1
  <2> HIDE DEF mine
  <2>3. Total(OneOf(J), mine) = Cardinality(mine) /\ SlotTime(mine) = Total(SlotsOf(J), mine) /\ Billed(mine) = Total(BytesOf(J), mine)
    BY <1>2, <2>2, Ones, PartTotals
  <2> QED
    BY <2>1, <2>2, <2>3 DEF mine
<1>4. Total(RowJobs(rows, K), K) = Total(OneOf(J), J)
  <2>1. \A k \in K : RowJobs(rows, K)[k] = Total(OneOf(J), {j \in J : key[j] = k})
    BY <1>3
  <2> QED
    BY <1>2, <2>1, TotalByKey
<1>5. Total(RowSlots(rows, K), K) = Total(SlotsOf(J), J)
  <2>1. \A k \in K : RowSlots(rows, K)[k] = Total(SlotsOf(J), {j \in J : key[j] = k})
    BY <1>3
  <2>2. IsFiniteSet(J) /\ \A j \in J : SlotsOf(J)[j] \in Int
    BY <1>2
  <2> QED
    BY <2>1, <2>2, TotalByKey
<1>6. Total(RowBytes(rows, K), K) = Total(BytesOf(J), J)
  <2>1. \A k \in K : RowBytes(rows, K)[k] = Total(BytesOf(J), {j \in J : key[j] = k})
    BY <1>3
  <2>2. IsFiniteSet(J) /\ \A j \in J : BytesOf(J)[j] \in Int
    BY <1>2
  <2> QED
    BY <2>1, <2>2, TotalByKey
<1>7. Total(OneOf(J), J) = Cardinality(J)
  BY <1>2, Ones
<1>8. MapThenSumSet(LAMBDA k : rows[k].jobs, K) = Cardinality(J)
  BY <1>4, <1>7, JobsColumn
<1>9. MapThenSumSet(LAMBDA k : rows[k].slots, K) = SlotTime(J)
  BY <1>5, SlotTotal, SlotsColumn
<1>10. MapThenSumSet(LAMBDA k : rows[k].bytes, K) = Billed(J)
  BY <1>6, BytesTotal, BytesColumn
<1> QED
  BY <1>8, <1>9, <1>10 DEF RowsCover

(***************************************************************************)
(* The breakdowns of a report's jobs.                                      *)
(***************************************************************************)
LabelOf(name) == IF name = "none" THEN "<unknown>" ELSE name
LEMMA BqDimensionsHold == ASSUME BqJobSet(bqJobs) PROVE DimensionsCover
<1> DEFINE userKey == [j \in bqJobs |-> LabelOf(j.user)]
           typeKey == [j \in bqJobs |-> LabelOf(j.type)]
           users == BqByDimension(LAMBDA j : j.user)
           types == BqByDimension(LAMBDA j : j.type)
<1>1. IsFiniteSet(bqJobs)
  BY DEF BqJobSet
<1>2. RowsCover(users, DOMAIN users, bqJobs)
  <2>1. DOMAIN users = {userKey[j] : j \in bqJobs}
    BY DEF BqByDimension, LabelOf
  <2>2. \A k \in DOMAIN users : /\ users[k].jobs = Cardinality(Sharing(bqJobs, userKey, k))
                                /\ users[k].slots = SlotTime(Sharing(bqJobs, userKey, k))
                                /\ users[k].bytes = Billed(Sharing(bqJobs, userKey, k))
    <3>1. ASSUME NEW k \in DOMAIN users
          PROVE users[k] = [jobs |-> Cardinality(Sharing(bqJobs, userKey, k)), slots |-> SlotTime(Sharing(bqJobs, userKey, k)),
                            bytes |-> Billed(Sharing(bqJobs, userKey, k))]
      <4>1. Sharing(bqJobs, userKey, k) = {j \in bqJobs : LabelOf(j.user) = k}
        BY DEF Sharing
      <4>2. users[k] = [jobs |-> Cardinality({j \in bqJobs : LabelOf(j.user) = k}), slots |-> SlotTime({j \in bqJobs : LabelOf(j.user) = k}),
                            bytes |-> Billed({j \in bqJobs : LabelOf(j.user) = k})]
        BY DEF BqByDimension, LabelOf
      <4> QED
        BY <4>1, <4>2
    <3> HIDE DEF userKey, users
    <3>2. ASSUME NEW k \in DOMAIN users
          PROVE /\ users[k].jobs = Cardinality(Sharing(bqJobs, userKey, k))
                /\ users[k].slots = SlotTime(Sharing(bqJobs, userKey, k))
                /\ users[k].bytes = Billed(Sharing(bqJobs, userKey, k))
      BY <3>1
    <3> QED
      BY <3>2
  <2> HIDE DEF userKey, users
  <2>3. IsFiniteSet({userKey[j] : j \in bqJobs})
    BY <1>1, FiniteImage
  <2>4. IsFiniteSet(DOMAIN users) /\ \A j \in bqJobs : userKey[j] \in DOMAIN users
    BY <2>1, <2>3
  <2> QED
    BY <2>2, <2>4, KeysCover
<1>3. RowsCover(types, DOMAIN types, bqJobs)
  <2>1. DOMAIN types = {typeKey[j] : j \in bqJobs}
    BY DEF BqByDimension, LabelOf
  <2>2. \A k \in DOMAIN types : /\ types[k].jobs = Cardinality(Sharing(bqJobs, typeKey, k))
                                /\ types[k].slots = SlotTime(Sharing(bqJobs, typeKey, k))
                                /\ types[k].bytes = Billed(Sharing(bqJobs, typeKey, k))
    <3>1. ASSUME NEW k \in DOMAIN types
          PROVE types[k] = [jobs |-> Cardinality(Sharing(bqJobs, typeKey, k)), slots |-> SlotTime(Sharing(bqJobs, typeKey, k)),
                            bytes |-> Billed(Sharing(bqJobs, typeKey, k))]
      <4>1. Sharing(bqJobs, typeKey, k) = {j \in bqJobs : LabelOf(j.type) = k}
        BY DEF Sharing
      <4>2. types[k] = [jobs |-> Cardinality({j \in bqJobs : LabelOf(j.type) = k}), slots |-> SlotTime({j \in bqJobs : LabelOf(j.type) = k}),
                            bytes |-> Billed({j \in bqJobs : LabelOf(j.type) = k})]
        BY DEF BqByDimension, LabelOf
      <4> QED
        BY <4>1, <4>2
    <3> HIDE DEF typeKey, types
    <3>2. ASSUME NEW k \in DOMAIN types
          PROVE /\ types[k].jobs = Cardinality(Sharing(bqJobs, typeKey, k))
                /\ types[k].slots = SlotTime(Sharing(bqJobs, typeKey, k))
                /\ types[k].bytes = Billed(Sharing(bqJobs, typeKey, k))
      BY <3>1
    <3> QED
      BY <3>2
  <2> HIDE DEF typeKey, types
  <2>3. IsFiniteSet({typeKey[j] : j \in bqJobs})
    BY <1>1, FiniteImage
  <2>4. IsFiniteSet(DOMAIN types) /\ \A j \in bqJobs : typeKey[j] \in DOMAIN types
    BY <2>1, <2>3
  <2> QED
    BY <2>2, <2>4, KeysCover
<1> QED
  BY <1>2, <1>3 DEF DimensionsCover

LEMMA Disjoint ==
    ASSUME NEW S, NEW T, IsFiniteSet(S), IsFiniteSet(T), S \cap T = {}
    PROVE  /\ IsFiniteSet(S \cup T) /\ Cardinality(S \cup T) = Cardinality(S) + Cardinality(T)
           /\ Cardinality(S) \in Nat /\ Cardinality(T) \in Nat
<1>1. IsFiniteSet(S \cup T) /\ Cardinality(S \cup T) = Cardinality(S) + Cardinality(T) - Cardinality(S \cap T)
  BY FS_Union
<1>2. Cardinality(S \cap T) = 0 /\ Cardinality(S) \in Nat /\ Cardinality(T) \in Nat
  BY FS_EmptySet, FS_CardinalityType
<1> QED
  BY <1>1, <1>2

OnDay(day) == {j \in bqJobs : j.age = day}
EndedOn(day, outcome) == {j \in OnDay(day) : j.outcome = outcome}
OtherwiseOn(day) == {j \in OnDay(day) : j.outcome \notin {"succeeded", "failed", "cancelled"}}
Begun == {j \in bqJobs : j.age # Unset}
AgeOf == [j \in bqJobs |-> j.age]

LEMMA DayRows ==
    /\ DOMAIN BqByDay = {AgeOf[j] : j \in Begun}
    /\ \A day \in DOMAIN BqByDay :
         /\ day # Unset
         /\ BqByDay[day].jobs = Cardinality(OnDay(day)) /\ BqByDay[day].slots = SlotTime(OnDay(day))
         /\ BqByDay[day].bytes = Billed(OnDay(day))
         /\ BqByDay[day].succeeded = Cardinality(EndedOn(day, "succeeded"))
         /\ BqByDay[day].failed = Cardinality(EndedOn(day, "failed"))
         /\ BqByDay[day].cancelled = Cardinality(EndedOn(day, "cancelled"))
         /\ BqByDay[day].other = Cardinality(OtherwiseOn(day))
<1> DEFINE DayRow(day) == [jobs |-> Cardinality(OnDay(day)), succeeded |-> Cardinality(EndedOn(day, "succeeded")),
             failed |-> Cardinality(EndedOn(day, "failed")), cancelled |-> Cardinality(EndedOn(day, "cancelled")),
             other |-> Cardinality(OtherwiseOn(day)), slots |-> SlotTime(OnDay(day)), bytes |-> Billed(OnDay(day))]
           D == {j.age : j \in bqJobs} \ {Unset}
<1>1. BqByDay = [day \in D |-> DayRow(day)]
  BY DEF BqByDay, OnDay, EndedOn, OtherwiseOn
<1>2. D = {AgeOf[j] : j \in Begun}
  BY DEF AgeOf, Begun
<1>3. \A day \in D : day # Unset
  OBVIOUS
<1> HIDE DEF D
<1>4. DOMAIN BqByDay = D /\ \A day \in D : BqByDay[day] = DayRow(day)
  BY <1>1
<1>5. ASSUME NEW day \in D
      PROVE  /\ DayRow(day).jobs = Cardinality(OnDay(day)) /\ DayRow(day).slots = SlotTime(OnDay(day))
             /\ DayRow(day).bytes = Billed(OnDay(day))
             /\ DayRow(day).succeeded = Cardinality(EndedOn(day, "succeeded"))
             /\ DayRow(day).failed = Cardinality(EndedOn(day, "failed"))
             /\ DayRow(day).cancelled = Cardinality(EndedOn(day, "cancelled"))
             /\ DayRow(day).other = Cardinality(OtherwiseOn(day))
  OBVIOUS
<1> HIDE DEF DayRow
<1> QED
  BY <1>2, <1>3, <1>4, <1>5

\* A day's jobs are those that ended one way or another.
LEMMA DayParts ==
    ASSUME BqJobSet(bqJobs), NEW day
    PROVE  /\ IsFiniteSet(OnDay(day))
           /\ Cardinality(EndedOn(day, "succeeded")) + Cardinality(EndedOn(day, "failed")) + Cardinality(EndedOn(day, "cancelled"))
                + Cardinality(OtherwiseOn(day)) = Cardinality(OnDay(day))
           /\ Cardinality(EndedOn(day, "succeeded")) + Cardinality(EndedOn(day, "failed")) = Cardinality(BqCompleted(OnDay(day)))
<1> DEFINE S == EndedOn(day, "succeeded")
           F == EndedOn(day, "failed")
           C == EndedOn(day, "cancelled")
           O == OtherwiseOn(day)
<1>1. IsFiniteSet(bqJobs)
  BY DEF BqJobSet
<1>2. IsFiniteSet(OnDay(day))
  BY <1>1, FS_Subset DEF OnDay
<1>3. IsFiniteSet(S) /\ IsFiniteSet(F) /\ IsFiniteSet(C) /\ IsFiniteSet(O)
  BY <1>2, FS_Subset DEF EndedOn, OtherwiseOn
<1>4. S \cap F = {} /\ (S \cup F) \cap C = {} /\ ((S \cup F) \cup C) \cap O = {}
  BY DEF EndedOn, OtherwiseOn
<1>5. S \cup F = BqCompleted(OnDay(day)) /\ ((S \cup F) \cup C) \cup O = OnDay(day)
  BY DEF EndedOn, OtherwiseOn, BqCompleted
<1> HIDE DEF S, F, C, O
<1>6. IsFiniteSet(S \cup F) /\ Cardinality(S \cup F) = Cardinality(S) + Cardinality(F) /\ Cardinality(S) \in Nat /\ Cardinality(F) \in Nat
  BY <1>3, <1>4, Disjoint
<1>7. /\ IsFiniteSet((S \cup F) \cup C) /\ Cardinality((S \cup F) \cup C) = Cardinality(S \cup F) + Cardinality(C)
      /\ Cardinality(C) \in Nat
  BY <1>3, <1>4, <1>6, Disjoint
<1>8. /\ Cardinality(((S \cup F) \cup C) \cup O) = Cardinality((S \cup F) \cup C) + Cardinality(O) /\ Cardinality(O) \in Nat
  BY <1>3, <1>4, <1>7, Disjoint
<1>9. Cardinality(S) + Cardinality(F) + Cardinality(C) + Cardinality(O) = Cardinality(OnDay(day))
  BY <1>5, <1>6, <1>7, <1>8
<1> QED
  BY <1>2, <1>5, <1>6, <1>9 DEF S, F, C, O

LEMMA BqDaysHold == ASSUME BqJobSet(bqJobs) PROVE DaysCover
<1>1. Begun \in SUBSET bqJobs /\ IsFiniteSet(bqJobs) /\ \A j \in Begun : j.age # Unset
  BY DEF Begun, BqJobSet
<1>2. BqJobSet(Begun) /\ IsFiniteSet(Begun)
  BY <1>1, PartTotals DEF BqJobSet
<1>3. \A day \in DOMAIN BqByDay : Sharing(Begun, AgeOf, day) = OnDay(day)
  <2>1. ASSUME NEW day \in DOMAIN BqByDay
        PROVE  Sharing(Begun, AgeOf, day) = OnDay(day)
    <3>1. day # Unset
      BY DayRows
    <3> QED
      BY <3>1 DEF Sharing, OnDay, Begun, AgeOf
  <2> QED
    BY <2>1
<1>4. IsFiniteSet({AgeOf[j] : j \in Begun})
  BY <1>2, FiniteImage
<1>5. IsFiniteSet(DOMAIN BqByDay) /\ \A j \in Begun : AgeOf[j] \in DOMAIN BqByDay
  BY <1>4, DayRows
<1>6. \A day \in DOMAIN BqByDay : /\ BqByDay[day].jobs = Cardinality(Sharing(Begun, AgeOf, day))
                                  /\ BqByDay[day].slots = SlotTime(Sharing(Begun, AgeOf, day))
                                  /\ BqByDay[day].bytes = Billed(Sharing(Begun, AgeOf, day))
  BY <1>3, DayRows
<1>7. RowsCover(BqByDay, DOMAIN BqByDay, Begun)
  BY <1>2, <1>5, <1>6, KeysCover
<1>8. \A d \in DOMAIN BqByDay :
        BqByDay[d].succeeded + BqByDay[d].failed + BqByDay[d].cancelled + BqByDay[d].other = BqByDay[d].jobs
  BY DayRows, DayParts
<1> QED
  BY <1>7, <1>8 DEF DaysCover, Begun

\* A window is what its days are.
Inside(w) == {j \in bqJobs : j.age # Unset /\ j.age <= w}
LEMMA BqWindowsHold == ASSUME BqJobSet(bqJobs), BqWindows \subseteq Nat PROVE WindowsCover
<1>1. SUFFICES ASSUME NEW w \in BqWindows
               PROVE  LET days == {d \in DOMAIN BqByDay : d <= w}
                      IN /\ BqByWindow[w].jobs = MapThenSumSet(LAMBDA k : BqByDay[k].jobs, days)
                         /\ BqByWindow[w].completed =
                              MapThenSumSet(LAMBDA k : BqByDay[k].succeeded + BqByDay[k].failed, days)
                         /\ BqByWindow[w].slots <= MapThenSumSet(LAMBDA k : BqByDay[k].slots, days)
  BY DEF WindowsCover
<1> DEFINE days == {d \in DOMAIN BqByDay : d <= w}
           ended == BqCompleted(Inside(w))
<1>2. /\ BqByWindow[w].jobs = Cardinality(Inside(w)) /\ BqByWindow[w].completed = Cardinality(ended)
      /\ BqByWindow[w].slots = SlotTime(ended)
  <2>1. BqByWindow[w] = [jobs |-> Cardinality(Inside(w)), completed |-> Cardinality(ended),
                         slots |-> SlotTime(ended), bytes |-> Billed(ended)]
    BY DEF BqByWindow, Inside
  <2> HIDE DEF ended
  <2> QED
    BY <2>1
<1>3. Inside(w) \in SUBSET bqJobs /\ ended \in SUBSET Inside(w)
  BY DEF Inside, BqCompleted
<1>4. BqJobSet(Inside(w))
  BY <1>3, PartTotals
<1>5. IsFiniteSet(Inside(w)) /\ IsFiniteSet(ended) /\ SlotTime(ended) <= SlotTime(Inside(w))
  <2> HIDE DEF ended
  <2>1. BqJobSet(ended) /\ SlotTime(ended) <= SlotTime(Inside(w))
    BY <1>3, <1>4, PartTotals
  <2> QED
    BY <1>4, <2>1 DEF BqJobSet
<1>6. \A j \in Inside(w) : j \in Begun /\ AgeOf[j] = j.age /\ j.age <= w /\ j.age # Unset
  BY DEF Inside, Begun, AgeOf
<1>7. IsFiniteSet(days)
  <2>1. IsFiniteSet(Begun)
    <3>1. Begun \in SUBSET bqJobs /\ IsFiniteSet(bqJobs)
      BY DEF Begun, BqJobSet
    <3> QED
      BY <3>1, FS_Subset
  <2>2. IsFiniteSet(DOMAIN BqByDay)
    BY <2>1, FiniteImage, DayRows
  <2> QED
    BY <2>2, FS_Subset
<1>8. \A j \in Inside(w) : AgeOf[j] \in days
  BY <1>6, DayRows
<1>9. \A d \in days : d \in DOMAIN BqByDay /\ Sharing(Inside(w), AgeOf, d) = OnDay(d)
  <2>1. ASSUME NEW d \in days
        PROVE  Sharing(Inside(w), AgeOf, d) = OnDay(d)
    <3>1. d # Unset /\ d <= w
      BY DayRows
    <3> QED
      BY <3>1 DEF Sharing, OnDay, Inside, AgeOf
  <2> QED
    BY <2>1
<1>10. \A d \in days : /\ BqByDay[d].jobs = Cardinality(Sharing(Inside(w), AgeOf, d))
                       /\ BqByDay[d].slots = SlotTime(Sharing(Inside(w), AgeOf, d))
                       /\ BqByDay[d].bytes = Billed(Sharing(Inside(w), AgeOf, d))
  <2> HIDE DEF days
  <2> QED
    BY <1>9, DayRows
<1>11. RowsCover(BqByDay, days, Inside(w))
  <2> HIDE DEF days
  <2> QED
    BY <1>4, <1>7, <1>8, <1>10, KeysCover
<1>12. Cardinality(ended) = Total(RowEnded(BqByDay, days), days)
  <2>1. \A d \in days : RowEnded(BqByDay, days)[d] = Total(OneOf(ended), {j \in ended : AgeOf[j] = d})
    <3>1. ASSUME NEW d \in days
          PROVE  RowEnded(BqByDay, days)[d] = Total(OneOf(ended), {j \in ended : AgeOf[j] = d})
      <4>1. RowEnded(BqByDay, days)[d] = BqByDay[d].succeeded + BqByDay[d].failed
        BY DEF RowEnded
      <4>2. BqByDay[d].succeeded + BqByDay[d].failed = Cardinality(BqCompleted(OnDay(d)))
        <5>1. d \in DOMAIN BqByDay
          BY <1>9
        <5> HIDE DEF days
        <5> QED
          BY <5>1, DayRows, DayParts
      <4>3. BqCompleted(OnDay(d)) = {j \in ended : AgeOf[j] = d}
        <5>1. BqCompleted(Sharing(Inside(w), AgeOf, d)) = {j \in ended : AgeOf[j] = d}
          BY DEF BqCompleted, Sharing
        <5> QED
          BY <1>9, <5>1
      <4>4. Total(OneOf(ended), {j \in ended : AgeOf[j] = d}) = Cardinality({j \in ended : AgeOf[j] = d})
        <5> HIDE DEF ended
        <5>1. {j \in ended : AgeOf[j] = d} \in SUBSET ended
          OBVIOUS
        <5> QED
          BY <1>5, <5>1, Ones
      <4> QED
        BY <4>1, <4>2, <4>3, <4>4
    <3> QED
      BY <3>1
  <2>2. \A j \in ended : AgeOf[j] \in days /\ OneOf(ended)[j] \in Int
    BY <1>3, <1>8 DEF OneOf
  <2> HIDE DEF days, ended
  <2>3. Total(RowEnded(BqByDay, days), days) = Total(OneOf(ended), ended)
    BY <1>5, <1>7, <2>1, <2>2, TotalByKey
  <2>4. Total(OneOf(ended), ended) = Cardinality(ended)
    BY <1>5, Ones
  <2> QED
    BY <2>3, <2>4
<1> HIDE DEF days, ended
<1>13. /\ BqByWindow[w].jobs = MapThenSumSet(LAMBDA k : BqByDay[k].jobs, days)
       /\ BqByWindow[w].slots <= MapThenSumSet(LAMBDA k : BqByDay[k].slots, days)
  BY <1>2, <1>5, <1>11 DEF RowsCover
<1>14. BqByWindow[w].completed = MapThenSumSet(LAMBDA k : BqByDay[k].succeeded + BqByDay[k].failed, days)
  BY <1>2, <1>12, EndedColumn
<1> QED
  BY <1>13, <1>14 DEF days

LEMMA BqTablesHold == ASSUME BqJobSet(bqJobs) PROVE TablesAreUsed
<1>1. SUFFICES ASSUME NEW j \in bqJobs, NEW t \in j.tables
               PROVE  /\ t \in DOMAIN BqTableUsage
                      /\ BqTableUsage[t].slots >= j.slot
                      /\ BqTableUsage[t].inCatalog <=> \E c \in catalog.tables : t = <<c.dataset, c.id>>
  BY DEF TablesAreUsed
<1> DEFINE T == UNION {x.tables : x \in bqJobs}
           users == {x \in bqJobs : t \in x.tables}
           listed == {c \in catalog.tables : <<c.dataset, c.id>> = t}
<1>2. t \in T
  OBVIOUS
<1>3. DOMAIN BqTableUsage = T
  BY DEF BqTableUsage
<1>4. BqTableUsage[t].slots = SlotTime(users) /\ BqTableUsage[t].inCatalog = (listed # {})
  <2> DEFINE UsageRow(u, l) == [count |-> Cardinality(u), slots |-> SlotTime(u), inCatalog |-> l # {},
                           support |-> IF l = {} THEN "unknown" ELSE (CHOOSE c \in l : TRUE).support]
  <2>1. BqTableUsage[t] = UsageRow(users, listed)
    BY <1>2 DEF BqTableUsage
  <2>2. \A u, l : UsageRow(u, l).slots = SlotTime(u) /\ UsageRow(u, l).inCatalog = (l # {})
    OBVIOUS
  <2> HIDE DEF UsageRow, users, listed
  <2> QED
    BY <2>1, <2>2
<1>5. listed # {} <=> \E c \in catalog.tables : t = <<c.dataset, c.id>>
  OBVIOUS
<1>6. users \in SUBSET bqJobs /\ j \in users
  OBVIOUS
<1> HIDE DEF users, listed
<1>7. BqJobSet(users)
  BY <1>6, PartTotals
<1>8. /\ IsFiniteSet(users) /\ SlotsOf(users)[j] >= j.slot /\ SlotsOf(users)[j] \in Nat
      /\ \A x \in users : SlotsOf(users)[x] \in Nat
  BY <1>6, <1>7, JobNumbers
<1>9. SlotTime(users) >= j.slot
  <2>1. IsFiniteSet(users \ {j}) /\ \A x \in users \ {j} : SlotsOf(users)[x] \in Nat
    BY <1>8, FS_Subset
  <2>2. Total(SlotsOf(users), users \ {j}) \in Nat
    BY <2>1, TotalNat
  <2>3. \A x \in users : SlotsOf(users)[x] \in Int
    BY <1>8
  <2>4. Total(SlotsOf(users), users) = SlotsOf(users)[j] + Total(SlotsOf(users), users \ {j})
    BY <1>6, <1>8, <2>3, TotalRemove
  <2>5. j.slot \in Int
    BY DEF BqJobSet
  <2>6. SlotTime(users) = Total(SlotsOf(users), users)
    BY SlotTotal
  <2> QED
    BY <1>8, <2>2, <2>4, <2>5, <2>6
<1> QED
  BY <1>2, <1>3, <1>4, <1>5, <1>9

\* What the keys count adds up to the number of the keyed.
LEMMA SharedTotals ==
    ASSUME NEW f, NEW R, IsFiniteSet(R), \A r \in R : f[r] \in Int,
           NEW key, NEW K, IsFiniteSet(K), \A r \in R : key[r] \in K,
           NEW by, \A k \in K : by[k] = Total(f, Sharing(R, key, k))
    PROVE  Total(by, K) = Total(f, R)
<1>1. \A k \in K : by[k] = Total(f, {x \in R : key[x] = k})
  BY DEF Sharing
<1> QED
  BY <1>1, TotalByKey

LEMMA KeyedCount ==
    ASSUME NEW R, IsFiniteSet(R), NEW key, NEW K, IsFiniteSet(K), \A r \in R : key[r] \in K,
           NEW by, \A k \in K : by[k] = Cardinality(Sharing(R, key, k))
    PROVE  Total(by, K) = Cardinality(R)
<1>1. \A r \in R : OneOf(R)[r] \in Int
  BY DEF OneOf
<1>2. \A k \in K : by[k] = Total(OneOf(R), Sharing(R, key, k))
  <2>1. ASSUME NEW k \in K
        PROVE  by[k] = Total(OneOf(R), Sharing(R, key, k))
    <3>1. Sharing(R, key, k) \in SUBSET R
      BY DEF Sharing
    <3> QED
      BY <3>1, Ones
  <2> QED
    BY <2>1
<1>3. Total(by, K) = Total(OneOf(R), R)
  BY <1>1, <1>2, SharedTotals
<1>4. R \in SUBSET R
  OBVIOUS
<1> QED
  BY <1>3, <1>4, Ones

\* The tables of the datasets, each under the id of its own.
IdsOf(D) == {d.id : d \in D}
RowsSeen(D, unlisted, unread) == UNION {{BqTableRow(d.id, t) : t \in TablesSeen(d, unlisted, unread)} : d \in D}
LEMMA TablesCounted ==
    ASSUME NEW D, IsFiniteSet(D), \A d, e \in D : d.id = e.id => d = e,
           NEW unlisted, NEW unread,
           \A d \in D : IsFiniteSet(d.tables) /\ \A t, u \in d.tables : t.id = u.id => t = u,
           NEW count, \A id \in IdsOf(D) : count[id] = Cardinality(TablesSeen(CHOOSE d \in D : d.id = id, unlisted, unread))
    PROVE  Total(count, IdsOf(D)) = Cardinality(RowsSeen(D, unlisted, unread))
<1> DEFINE Rows(d) == {BqTableRow(d.id, t) : t \in TablesSeen(d, unlisted, unread)}
           rowsOf == [d \in D |-> Rows(d)]
           all == UNION {Rows(d) : d \in D}
           home == [r \in all |-> r.dataset]
           idOf == [d \in D |-> d.id]
<1>0. \A d \in D : /\ IsFiniteSet(TablesSeen(d, unlisted, unread))
                    /\ \A t, u \in TablesSeen(d, unlisted, unread) : t.id = u.id => t = u
  <2>1. \A d \in D : TablesSeen(d, unlisted, unread) \in SUBSET d.tables
    BY DEF TablesSeen
  <2> QED
    BY <2>1, FS_Subset
<1>1. ASSUME NEW d \in D
      PROVE  IsFiniteSet(Rows(d)) /\ Cardinality(Rows(d)) = Cardinality(TablesSeen(d, unlisted, unread))
  <2> DEFINE row == [t \in TablesSeen(d, unlisted, unread) |-> BqTableRow(d.id, t)]
  <2>1. row \in Bijection(TablesSeen(d, unlisted, unread), Rows(d))
    <3>1. \A t, u \in TablesSeen(d, unlisted, unread) : row[t] = row[u] => t = u
      BY <1>0 DEF BqTableRow
    <3>2. \A r \in Rows(d) : \E t \in TablesSeen(d, unlisted, unread) : row[t] = r
      OBVIOUS
    <3>3. row \in [TablesSeen(d, unlisted, unread) -> Rows(d)]
      OBVIOUS
    <3> HIDE DEF row, Rows
    <3> QED
      BY <3>1, <3>2, <3>3 DEF Bijection, Injection, Surjection, IsInjective
  <2>2. IsFiniteSet(TablesSeen(d, unlisted, unread))
    BY <1>0
  <2> HIDE DEF row, Rows
  <2> QED
    BY <2>1, <2>2, FS_Bijection DEF ExistsBijection
<1>2. IsFiniteSet(all)
  <2> DEFINE F == {rowsOf[d] : d \in D}
  <2>1. all = UNION F /\ \A s \in F : IsFiniteSet(s)
    BY <1>1
  <2>2. IsFiniteSet(F)
    <3> HIDE DEF rowsOf
    <3> QED
      BY FiniteImage
  <2> HIDE DEF F, all
  <2> QED
    BY <2>1, <2>2, FS_UNION
<1>3. IsFiniteSet(IdsOf(D))
  <2>1. IdsOf(D) = {idOf[d] : d \in D}
    BY DEF IdsOf
  <2> HIDE DEF idOf
  <2>2. IsFiniteSet({idOf[d] : d \in D})
    BY FiniteImage
  <2> QED
    BY <2>1, <2>2
<1>4. \A r \in all : home[r] \in IdsOf(D)
  BY DEF BqTableRow, IdsOf
<1>5. ASSUME NEW id \in IdsOf(D)
      PROVE  count[id] = Cardinality(Sharing(all, home, id))
  <2>1. PICK d \in D : d.id = id
    BY DEF IdsOf
  <2>2. (CHOOSE e \in D : e.id = id) = d
    BY <2>1
  <2>3. Sharing(all, home, id) = Rows(d)
    BY <2>1 DEF BqTableRow, Sharing
  <2> HIDE DEF Rows, all
  <2> QED
    BY <1>1, <2>2, <2>3
<1>6. \A id \in IdsOf(D) : count[id] = Cardinality(Sharing(all, home, id))
  BY <1>5
<1>7. Total(count, IdsOf(D)) = Cardinality(all)
  <2> HIDE DEF all, home, Rows, rowsOf, idOf
  <2> DEFINE by == count
             R == all
             K == IdsOf(D)
             key == home
  <2>1. IsFiniteSet(R) /\ IsFiniteSet(K) /\ (\A r \in R : key[r] \in K) /\ \A k \in K : by[k] = Cardinality(Sharing(R, key, k))
    BY <1>2, <1>3, <1>4, <1>6
  <2> HIDE DEF by, R, K, key
  <2>2. Total(by, K) = Cardinality(R)
    BY ONLY <2>1, KeyedCount
  <2> QED
    BY <2>2 DEF by, R, K, key
<1> QED
  BY <1>7 DEF RowsSeen

(***************************************************************************)
(* The jobs come from one of two sources, and each keeps the numbers.      *)
(***************************************************************************)
SchemaJobs == {JobFromRow(j) : j \in SchemaRows}
LogJobs == {JobFromEntry(e) : e \in {x \in project.entries : IsJobEntry(x)}}

BqStages == {"datasets", "tables", "routines", "scheduled", "schema", "audit", "rollup", "done"}
Asked ==
    /\ "audit_log" \in sourcesTried => JobsSource # "information_schema"
    /\ bqStage = "schema" => JobsSource # "audit_log"
    /\ bqStage = "audit" => JobsSource # "information_schema"
    /\ bqStage \notin {"rollup", "done"} => bqJobs = {}
    /\ bqStage \in {"rollup", "done"} /\ bqJobs = {} /\ JobsSource = "both" => "audit_log" \in sourcesTried
    /\ IF bqStage = "done"
       THEN bqJobs = {} <=> bqCaveats \cap {"likely_idle", "enable_audit_logs"} # {}
       ELSE bqCaveats \cap {"likely_idle", "enable_audit_logs"} = {}
CatalogInv ==
    /\ DOMAIN catalog = {"datasets", "tables", "routines", "scheduled", "tableCount"}
    /\ catalog.datasets \subseteq {d.id : d \in project.datasets}
    /\ DatasetsAddUp
BqInv ==
    /\ project \in BqProjects /\ bqStage \in BqStages
    /\ bqJobs \subseteq SchemaJobs \cup LogJobs
    /\ Asked /\ CatalogInv

LEMMA RowJobsSound ==
    ASSUME NEW j \in BqJobRows
    PROVE  /\ JobFromRow(j).slot \in Int /\ JobFromRow(j).bytes \in Int /\ JobFromRow(j).age \in Int
           /\ JobFromRow(j).id = j.id /\ JobFromRow(j).entry = "row"
           /\ j.state \notin {"RUNNING", "PENDING"} => JobFromRow(j).outcome # "in_progress"
<1>1. JobFromRow(j) = [entry |-> "row", id |-> j.id, type |-> NormaliseJobType(j.type),
         outcome |-> JobOutcome(j.state, j.error), age |-> j.age, user |-> j.user,
         slot |-> j.slot, bytes |-> j.bytes, duration |-> IF j.age = Unset THEN Unset ELSE j.duration,
         tables |-> j.tables]
  BY DEF JobFromRow, BqJob
<1>2. j.slot \in Int /\ j.bytes \in Int /\ j.age \in Int /\ j.error \in BOOLEAN
  BY DEF BqJobRows
<1>3. j.state \notin {"RUNNING", "PENDING"} => JobOutcome(j.state, j.error) # "in_progress"
  BY <1>2 DEF JobOutcome
<1> QED
  BY <1>1, <1>2, <1>3

LEMMA EntryJobsSound ==
    ASSUME NEW e, IsJobEntry(e), e.job \in BqJobRows, e.job.state \notin {"RUNNING", "PENDING"}
    PROVE  /\ JobFromEntry(e).slot \in Int /\ JobFromEntry(e).bytes \in Int /\ JobFromEntry(e).age \in Int
           /\ JobFromEntry(e).entry # "row" /\ JobFromEntry(e).outcome # "in_progress"
<1> DEFINE Job(entry, j) == [entry |-> entry, id |-> j.id, type |-> NormaliseJobType(e.job.type),
         outcome |-> JobOutcome(j.state, j.error), age |-> j.age, user |-> j.user,
         slot |-> j.slot, bytes |-> j.bytes, duration |-> IF j.age = Unset THEN Unset ELSE j.duration,
         tables |-> j.tables]
<1>1. PICK entry \in {"v1", "v2"}, j \in {e.job, [e.job EXCEPT !.slot = Unset], [e.job EXCEPT !.bytes = Unset]} :
        JobFromEntry(e) = Job(entry, j)
  BY DEF JobFromEntry, BqJob
<1>2. j \in BqJobRows /\ j.state = e.job.state
  BY DEF BqJobRows, Unset
<1>3. j.slot \in Int /\ j.bytes \in Int /\ j.age \in Int /\ j.error \in BOOLEAN
  BY <1>2 DEF BqJobRows
<1>4. JobOutcome(j.state, j.error) # "in_progress"
  BY <1>2, <1>3 DEF JobOutcome
<1>5. /\ JobFromEntry(e).slot = j.slot /\ JobFromEntry(e).bytes = j.bytes /\ JobFromEntry(e).age = j.age
      /\ JobFromEntry(e).entry = entry /\ JobFromEntry(e).outcome = JobOutcome(j.state, j.error)
  BY <1>1
<1> QED
  BY <1>3, <1>4, <1>5

LEMMA BqJobsSound ==
    ASSUME project \in BqProjects, bqJobs \subseteq SchemaJobs \cup LogJobs
    PROVE  /\ BqJobSet(bqJobs)
           /\ \A i, j \in bqJobs : i.id = j.id /\ i.entry = "row" /\ j.entry = "row" => i = j
           /\ \A j \in bqJobs : j.outcome # "in_progress"
<1> DEFINE entries == {x \in project.entries : IsJobEntry(x)}
<1>1. BqProject(project)
  BY BigQueryAssumption
<1>2. /\ IsFiniteSet(project.jobs) /\ IsFiniteSet(project.entries) /\ project.jobs \subseteq BqJobRows
      /\ \A i, j \in project.jobs : i.region = j.region /\ i.id = j.id /\ i.id # "none" => i = j
      /\ \A e \in project.entries : e.job \in BqJobRows /\ e.job.state \notin {"RUNNING", "PENDING"}
  BY <1>1 DEF BqProject
<1>3. SchemaRows \in SUBSET project.jobs
  BY DEF SchemaRows
<1>4. IsFiniteSet(SchemaRows) /\ IsFiniteSet(entries)
  BY <1>2, <1>3, FS_Subset
<1>5. IsFiniteSet(SchemaJobs)
  <2> DEFINE f == [j \in SchemaRows |-> JobFromRow(j)]
  <2>1. SchemaJobs = {f[j] : j \in SchemaRows}
    BY DEF SchemaJobs
  <2> HIDE DEF f
  <2>2. IsFiniteSet({f[j] : j \in SchemaRows})
    BY <1>4, FiniteImage
  <2> QED
    BY <2>1, <2>2
<1>6. IsFiniteSet(LogJobs)
  <2> DEFINE f == [e \in entries |-> JobFromEntry(e)]
  <2>1. LogJobs = {f[e] : e \in entries}
    BY DEF LogJobs
  <2> HIDE DEF f, entries
  <2>2. IsFiniteSet({f[e] : e \in entries})
    BY <1>4, FiniteImage
  <2> QED
    BY <2>1, <2>2
<1>7. IsFiniteSet(bqJobs)
  <2>1. IsFiniteSet(SchemaJobs \cup LogJobs)
    BY <1>5, <1>6, FS_Union
  <2> QED
    BY <2>1, FS_Subset
<1>8. ASSUME NEW b \in SchemaJobs
      PROVE  /\ b.slot \in Int /\ b.bytes \in Int /\ b.age \in Int /\ b.outcome # "in_progress"
             /\ \E j \in SchemaRows : b = JobFromRow(j) /\ b.id = j.id
  <2>1. PICK j \in SchemaRows : b = JobFromRow(j)
    BY DEF SchemaJobs
  <2>2. j \in BqJobRows /\ j.state \notin {"RUNNING", "PENDING"}
    BY <1>2, <1>3 DEF SchemaRows
  <2> QED
    BY <2>1, <2>2, RowJobsSound
<1>9. ASSUME NEW b \in LogJobs
      PROVE  /\ b.slot \in Int /\ b.bytes \in Int /\ b.age \in Int /\ b.outcome # "in_progress" /\ b.entry # "row"
  <2>1. PICK e \in entries : b = JobFromEntry(e)
    BY DEF LogJobs
  <2>2. e.job \in BqJobRows /\ e.job.state \notin {"RUNNING", "PENDING"} /\ IsJobEntry(e)
    BY <1>2
  <2> QED
    BY <2>1, <2>2, EntryJobsSound
<1>10. \A b \in bqJobs : b.slot \in Int /\ b.bytes \in Int /\ b.age \in Int /\ b.outcome # "in_progress"
  BY <1>8, <1>9
<1>11. ASSUME NEW i \in bqJobs, NEW j \in bqJobs, i.id = j.id, i.entry = "row", j.entry = "row"
       PROVE  i = j
  <2>1. i \in SchemaJobs /\ j \in SchemaJobs
    BY <1>9, <1>11
  <2>2. PICK x \in SchemaRows : i = JobFromRow(x) /\ i.id = x.id
    BY <1>8, <2>1
  <2>3. PICK y \in SchemaRows : j = JobFromRow(y) /\ j.id = y.id
    BY <1>8, <2>1
  <2>4. x.region = y.region /\ x.id = y.id /\ x.id # "none" /\ x \in project.jobs /\ y \in project.jobs
    BY <1>11, <2>2, <2>3 DEF SchemaRows
  <2> QED
    BY <1>2, <2>2, <2>3, <2>4
<1> QED
  BY <1>7, <1>10, <1>11 DEF BqJobSet

LEMMA BqTell == BqInv => BigQueryJobsAgree
<1> SUFFICES ASSUME BqInv
             PROVE  BigQueryJobsAgree
  OBVIOUS
<1>1. BqJobSet(bqJobs) /\ BqWindows \subseteq Nat
  BY BqJobsSound, BigQueryAssumption DEF BqInv
<1>2. ViewsAgree
  BY <1>1, BqDimensionsHold, BqDaysHold, BqWindowsHold, BqTablesHold DEF ViewsAgree, BqInv, CatalogInv
<1>3. EmptyJobsMeanNoSourceHadThem
  <2>1. /\ \A i, j \in bqJobs : i.id = j.id /\ i.entry = "row" /\ j.entry = "row" => i = j
        /\ \A j \in bqJobs : j.outcome # "in_progress"
    BY BqJobsSound DEF BqInv
  <2> QED
    BY <2>1 DEF EmptyJobsMeanNoSourceHadThem, BqInv, Asked
<1> QED
  BY <1>2, <1>3 DEF BigQueryJobsAgree

LEMMA BqStarts == BigQueryInit => BqInv
<1> SUFFICES ASSUME BigQueryInit
             PROVE  BqInv
  OBVIOUS
<1>1. /\ DOMAIN catalog = {"datasets", "tables", "routines", "scheduled", "tableCount"} /\ catalog.datasets = {}
      /\ bqStage = "datasets" /\ bqJobs = {} /\ sourcesTried = {} /\ bqCaveats = {} /\ project \in BqProjects
  BY DEF BigQueryInit
<1>2. CatalogInv
  BY <1>1 DEF CatalogInv, DatasetsAddUp
<1>3. Asked
  BY <1>1 DEF Asked
<1> QED
  BY <1>1, <1>2, <1>3 DEF BqInv, BqStages

LEMMA ListDatasetsStep == ASSUME BqInv, NEW unread \in SUBSET project.datasets, NEW broken \in BOOLEAN, ListDatasets(unread, broken)
                          PROVE  BqInv'
<1> DEFINE ids == IF broken THEN {} ELSE {d.id : d \in project.datasets \ unread}
<1>1. /\ catalog' = [catalog EXCEPT !.datasets = ids] /\ bqStage = "datasets" /\ bqStage' = "tables"
      /\ project' = project /\ bqJobs' = bqJobs /\ sourcesTried' = sourcesTried /\ bqCaveats' = bqCaveats
  BY DEF ListDatasets
<1>2. ids \subseteq {d.id : d \in project.datasets}
  OBVIOUS
<1> HIDE DEF ids
<1>3. DOMAIN catalog' = DOMAIN catalog /\ catalog'.datasets = ids
  BY <1>1 DEF BqInv, CatalogInv
<1>4. CatalogInv'
  BY <1>1, <1>2, <1>3 DEF BqInv, CatalogInv, DatasetsAddUp
<1>5. JobsSource' = JobsSource /\ SchemaJobs' = SchemaJobs /\ LogJobs' = LogJobs
  BY <1>1 DEF JobsSource, SchemaJobs, LogJobs, SchemaRows, Region
<1>6. Asked'
  BY <1>1, <1>5 DEF BqInv, Asked
<1> QED
  BY <1>1, <1>4, <1>5, <1>6 DEF BqInv, BqStages

LEMMA ListTablesStep == ASSUME BqInv, NEW unlisted \in SUBSET project.datasets, NEW unread, ListTables(unlisted, unread)
                        PROVE  BqInv'
<1> DEFINE D == Enumerated
           tables == RowsSeen(D, unlisted, unread)
           count == [id \in catalog.datasets |-> Cardinality(TablesSeen(CHOOSE d \in D : d.id = id, unlisted, unread))]
<1>1. BqProject(project)
  BY BigQueryAssumption DEF BqInv
<1>2. /\ IsFiniteSet(project.datasets) /\ \A d, e \in project.datasets : d.id = e.id => d = e
      /\ \A d \in project.datasets : IsFiniteSet(d.tables) /\ \A t, u \in d.tables : t.id = u.id => t = u
  BY <1>1 DEF BqProject
<1>3. D \in SUBSET project.datasets /\ IsFiniteSet(D)
  BY <1>2, FS_Subset DEF Enumerated
<1>4. catalog.datasets = IdsOf(D)
  BY DEF IdsOf, Enumerated, BqInv, CatalogInv
<1>5. /\ catalog' = [catalog EXCEPT !.tables = tables, !.tableCount = count] /\ bqStage = "tables" /\ bqStage' = "routines"
      /\ project' = project /\ bqJobs' = bqJobs /\ sourcesTried' = sourcesTried /\ bqCaveats' = bqCaveats
  BY DEF ListTables, RowsSeen
<1>6. /\ DOMAIN count = IdsOf(D)
      /\ \A id \in IdsOf(D) : count[id] = Cardinality(TablesSeen(CHOOSE d \in D : d.id = id, unlisted, unread))
  BY <1>4
<1>7. /\ \A d, e \in D : d.id = e.id => d = e
      /\ \A d \in D : IsFiniteSet(d.tables) /\ \A t, u \in d.tables : t.id = u.id => t = u
  BY <1>2, <1>3
<1> HIDE DEF D, count
<1>8. Total(count, IdsOf(D)) = Cardinality(tables)
  BY <1>3, <1>6, <1>7, TablesCounted
<1> HIDE DEF tables
<1>9. /\ DOMAIN catalog' = DOMAIN catalog /\ catalog'.datasets = catalog.datasets
      /\ catalog'.tables = tables /\ catalog'.tableCount = count
  BY <1>5 DEF BqInv, CatalogInv
<1>10. DatasetsAddUp'
  BY <1>6, <1>8, <1>9 DEF DatasetsAddUp, MapThenSumSet, MapThenFoldSet, Total
<1>11. CatalogInv'
  BY <1>5, <1>9, <1>10 DEF BqInv, CatalogInv
<1>12. JobsSource' = JobsSource /\ SchemaJobs' = SchemaJobs /\ LogJobs' = LogJobs
  BY <1>5 DEF JobsSource, SchemaJobs, LogJobs, SchemaRows, Region
<1>13. Asked'
  BY <1>5, <1>12 DEF BqInv, Asked
<1> QED
  BY <1>5, <1>11, <1>12, <1>13 DEF BqInv, BqStages

\* A later listing leaves the tables and their numbers alone.
LEMMA CatalogKept ==
    ASSUME BqInv, project' = project, bqStage \notin {"datasets", "tables"}, DOMAIN catalog' = DOMAIN catalog,
           catalog'.datasets = catalog.datasets, catalog'.tables = catalog.tables, catalog'.tableCount = catalog.tableCount
    PROVE  CatalogInv'
<1>1. DatasetsAddUp'
  BY DEF DatasetsAddUp, BqInv, CatalogInv, MapThenSumSet, MapThenFoldSet, BqStages
<1> QED
  BY <1>1 DEF CatalogInv, BqInv

LEMMA SourcesKept == ASSUME project' = project PROVE JobsSource' = JobsSource /\ SchemaJobs' = SchemaJobs /\ LogJobs' = LogJobs
  BY DEF JobsSource, SchemaJobs, LogJobs, SchemaRows, Region

LEMMA ListRoutinesStep == ASSUME BqInv, NEW unlisted, ListRoutines(unlisted) PROVE BqInv'
<1> DEFINE routines == UNION {{BqRoutineRow(d.id, r) : r \in d.routines} : d \in Enumerated \ unlisted}
<1>1. /\ catalog' = [catalog EXCEPT !.routines = routines] /\ bqStage = "routines" /\ bqStage' = "scheduled"
      /\ project' = project /\ bqJobs' = bqJobs /\ sourcesTried' = sourcesTried /\ bqCaveats' = bqCaveats
  BY DEF ListRoutines
<1> HIDE DEF routines
<1>2. /\ DOMAIN catalog' = DOMAIN catalog /\ catalog'.datasets = catalog.datasets
      /\ catalog'.tables = catalog.tables /\ catalog'.tableCount = catalog.tableCount
  BY <1>1 DEF BqInv, CatalogInv
<1>3. CatalogInv'
  BY <1>1, <1>2, CatalogKept
<1>4. Asked'
  BY <1>1, SourcesKept DEF BqInv, Asked
<1> QED
  BY <1>1, <1>3, <1>4, SourcesKept DEF BqInv, BqStages

LEMMA ScheduledQueriesStep == ASSUME BqInv, NEW refused, ScheduledQueries(refused) PROVE BqInv'
<1> DEFINE queries == {q \in project.transfers : /\ project.hasDts /\ q.source = "scheduled_query"
                                                 /\ q.location \in BqLocations \ refused}
<1>1. /\ catalog' = [catalog EXCEPT !.scheduled = queries] /\ bqStage = "scheduled"
      /\ bqStage' = IF JobsSource = "audit_log" THEN "audit" ELSE "schema"
      /\ bqCaveats' = bqCaveats \cup (IF project.hasDts THEN {} ELSE {"no_transfer_client"})
      /\ project' = project /\ bqJobs' = bqJobs /\ sourcesTried' = sourcesTried
  BY DEF ScheduledQueries
<1> HIDE DEF queries
<1>2. /\ DOMAIN catalog' = DOMAIN catalog /\ catalog'.datasets = catalog.datasets
      /\ catalog'.tables = catalog.tables /\ catalog'.tableCount = catalog.tableCount
  BY <1>1 DEF BqInv, CatalogInv
<1>3. CatalogInv'
  BY <1>1, <1>2, CatalogKept
<1>4. Asked'
  BY <1>1, SourcesKept DEF BqInv, Asked
<1> QED
  BY <1>1, <1>3, <1>4, SourcesKept DEF BqInv, BqStages

\* A source that is asked leaves the catalogue alone.
LEMMA CatalogStays ==
    ASSUME BqInv, project' = project, catalog' = catalog, bqStage \notin {"datasets", "tables"}
    PROVE  CatalogInv'
BY CatalogKept

LEMMA JobsFromSchemaStep == ASSUME BqInv, NEW how, JobsFromSchema(how) PROVE BqInv'
<1>1. /\ bqStage = "schema" /\ sourcesTried' = sourcesTried \cup {"information_schema"}
      /\ bqJobs' = IF how = "ok" THEN SchemaJobs ELSE {}
      /\ bqStage' = IF bqJobs' = {} /\ JobsSource = "both" THEN "audit" ELSE "rollup"
      /\ project' = project /\ catalog' = catalog /\ bqCaveats' = bqCaveats
  BY DEF JobsFromSchema, SchemaJobs, NeedsAuditLog
<1>2. CatalogInv'
  BY <1>1, CatalogStays
<1>3. Asked'
  BY <1>1, SourcesKept DEF BqInv, Asked
<1>4. bqJobs' \subseteq (SchemaJobs \cup LogJobs)'
  BY <1>1, SourcesKept
<1> QED
  BY <1>1, <1>2, <1>3, <1>4 DEF BqInv, BqStages

LEMMA JobsFromAuditLogStep == ASSUME BqInv, NEW how, NEW unparsed, JobsFromAuditLog(how, unparsed) PROVE BqInv'
<1> DEFINE found == {JobFromEntry(e) : e \in {x \in project.entries \ unparsed : IsJobEntry(x) /\ x.job.created <= BqLookback}}
<1>1. /\ bqStage = "audit" /\ bqStage' = "rollup" /\ sourcesTried' = sourcesTried \cup {"audit_log"}
      /\ bqJobs' = IF how = "ok" THEN found ELSE {}
      /\ project' = project /\ catalog' = catalog /\ bqCaveats' = bqCaveats
  BY DEF JobsFromAuditLog
<1>2. found \subseteq LogJobs
  BY DEF LogJobs
<1> HIDE DEF found
<1>3. CatalogInv'
  BY <1>1, CatalogStays
<1>4. Asked'
  BY <1>1, SourcesKept DEF BqInv, Asked
<1>5. bqJobs' \subseteq (SchemaJobs \cup LogJobs)'
  BY <1>1, <1>2, SourcesKept
<1> QED
  BY <1>1, <1>3, <1>4, <1>5 DEF BqInv, BqStages

LEMMA RollUpStep == ASSUME BqInv, RollUp PROVE BqInv'
<1>1. /\ bqStage = "rollup" /\ bqStage' = "done" /\ sourcesTried' = sourcesTried
      /\ project' = project /\ catalog' = catalog /\ bqJobs' = bqJobs
      /\ bqCaveats' = bqCaveats \cup
           (IF bqJobs = {} THEN {IF sourcesTried = {"information_schema"} THEN "likely_idle" ELSE "enable_audit_logs"}
            ELSE IF \E j \in bqJobs : j.slot # Unset THEN {"slot_to_cu"} ELSE {})
  BY DEF RollUp
<1>2. CatalogInv'
  BY <1>1, CatalogStays
<1>3. Asked'
  <2>1. bqCaveats \cap {"likely_idle", "enable_audit_logs"} = {}
    BY <1>1 DEF BqInv, Asked
  <2>2. bqJobs = {} <=> bqCaveats' \cap {"likely_idle", "enable_audit_logs"} # {}
    <3>1. CASE bqJobs = {}
      BY <1>1, <3>1
    <3>2. CASE bqJobs # {}
      <4>1. bqCaveats' \subseteq bqCaveats \cup {"slot_to_cu"}
        BY <1>1, <3>2
      <4> QED
        BY <2>1, <3>2, <4>1
    <3> QED
      BY <3>1, <3>2
  <2> QED
    BY <1>1, <2>2, SourcesKept DEF BqInv, Asked
<1> QED
  BY <1>1, <1>2, <1>3, SourcesKept DEF BqInv, BqStages

LEMMA BqStep == BqInv /\ [BigQueryNext]_bqVars => BqInv'
<1> SUFFICES ASSUME BqInv, [BigQueryNext]_bqVars
             PROVE  BqInv'
  OBVIOUS
<1>1. CASE UNCHANGED bqVars
  <2>1. /\ project' = project /\ catalog' = catalog /\ bqJobs' = bqJobs /\ sourcesTried' = sourcesTried
        /\ bqCaveats' = bqCaveats /\ bqStage' = bqStage
    BY <1>1 DEF bqVars
  <2>2. CatalogInv'
    BY <2>1 DEF BqInv, CatalogInv, DatasetsAddUp, MapThenSumSet, MapThenFoldSet
  <2>3. Asked'
    BY <2>1, SourcesKept DEF BqInv, Asked
  <2> QED
    BY <2>1, <2>2, <2>3, SourcesKept DEF BqInv
<1>2. ASSUME NEW unread \in SUBSET project.datasets, NEW broken \in BOOLEAN, ListDatasets(unread, broken)
      PROVE  BqInv'
  BY <1>2, ListDatasetsStep
<1>3. ASSUME NEW unlisted \in SUBSET project.datasets, ListRoutines(unlisted)
      PROVE  BqInv'
  BY <1>3, ListRoutinesStep
<1>4. ASSUME NEW unlisted \in SUBSET project.datasets, NEW unread, ListTables(unlisted, unread)
      PROVE  BqInv'
  BY <1>4, ListTablesStep
<1>5. ASSUME NEW refused \in SUBSET BqLocations, ScheduledQueries(refused)
      PROVE  BqInv'
  BY <1>5, ScheduledQueriesStep
<1>6. ASSUME NEW how \in {"ok", "refused", "broken"}, JobsFromSchema(how)
      PROVE  BqInv'
  BY <1>6, JobsFromSchemaStep
<1>7. ASSUME NEW how \in {"ok", "refused", "broken"}, NEW unparsed \in SUBSET project.entries, JobsFromAuditLog(how, unparsed)
      PROVE  BqInv'
  BY <1>7, JobsFromAuditLogStep
<1>8. CASE RollUp
  BY <1>8, RollUpStep
<1> QED
  BY <1>1, <1>2, <1>3, <1>4, <1>5, <1>6, <1>7, <1>8 DEF BigQueryNext

\* Every roll-up of the jobs of a project is of the same jobs, whatever is refused on
\* the way, and the jobs are none only where each source to be asked gave none
\* (bigquery_workloads/analyzer.py, run; run_stats.py).
THEOREM BigQueryAgrees == BigQuerySpec => []BigQueryJobsAgree
<1>1. BigQueryInit => BqInv
  BY BqStarts
<1>2. BqInv /\ [BigQueryNext]_bqVars => BqInv'
  BY BqStep
<1>3. BqInv => BigQueryJobsAgree
  BY BqTell
<1> QED
  BY <1>1, <1>2, <1>3, PTL DEF BigQuerySpec

(***************************************************************************)
(* The credits of a Snowflake job, and the sums of them.                   *)
(***************************************************************************)
CreditsIn(J) == [j \in J |-> j.credits]
CreditsAsked(Q) == [q \in Q |-> JobCredits(q)]
RowCredits(rows) == [k \in DOMAIN rows |-> rows[k].credits]

LEMMA CreditsTotal == ASSUME NEW J PROVE CreditsOf(J) = Total(CreditsIn(J), J)
<1> DEFINE A(g) == g = [s \in SUBSET J |-> IF s = {} THEN 0 ELSE Pick(s).credits + g[s \ {Pick(s)}]]
           B(g) == g = [s \in SUBSET J |-> IF s = {} THEN 0 ELSE CreditsIn(J)[Pick(s)] + g[s \ {Pick(s)}]]
<1>1. ASSUME NEW g PROVE A(g) = B(g)
  <2>1. \A s \in SUBSET J : s # {} => Pick(s).credits = CreditsIn(J)[Pick(s)]
    BY Picked DEF CreditsIn
  <2> QED
    BY <2>1
<1>2. (CHOOSE g : A(g)) = (CHOOSE g : B(g))
  <2> HIDE DEF A, B
  <2> QED
    BY <1>1
<1>3. CreditsOf(J) = (CHOOSE g : A(g))[J]
  BY DEF CreditsOf, MapThenSumSet, MapThenFoldSet, Pick
<1>4. Total(CreditsIn(J), J) = (CHOOSE g : B(g))[J]
  BY DEF Total, MapThenSumSet, MapThenFoldSet, Pick
<1> QED
  BY <1>2, <1>3, <1>4

LEMMA AskedTotal == ASSUME NEW Q PROVE MapThenSumSet(JobCredits, Q) = Total(CreditsAsked(Q), Q)
<1> DEFINE A(g) == g = [s \in SUBSET Q |-> IF s = {} THEN 0 ELSE JobCredits(Pick(s)) + g[s \ {Pick(s)}]]
           B(g) == g = [s \in SUBSET Q |-> IF s = {} THEN 0 ELSE CreditsAsked(Q)[Pick(s)] + g[s \ {Pick(s)}]]
<1>1. ASSUME NEW g PROVE A(g) = B(g)
  <2>1. \A s \in SUBSET Q : s # {} => JobCredits(Pick(s)) = CreditsAsked(Q)[Pick(s)]
    BY Picked DEF CreditsAsked
  <2> QED
    BY <2>1
<1>2. (CHOOSE g : A(g)) = (CHOOSE g : B(g))
  <2> HIDE DEF A, B
  <2> QED
    BY <1>1
<1>3. MapThenSumSet(JobCredits, Q) = (CHOOSE g : A(g))[Q]
  BY DEF MapThenSumSet, MapThenFoldSet, Pick
<1>4. Total(CreditsAsked(Q), Q) = (CHOOSE g : B(g))[Q]
  BY DEF Total, MapThenSumSet, MapThenFoldSet, Pick
<1> QED
  BY <1>2, <1>3, <1>4

LEMMA RowsTotal == ASSUME NEW rows PROVE CreditsOfRows(rows) = Total(RowCredits(rows), DOMAIN rows)
<1> DEFINE K == DOMAIN rows
           A(g) == g = [s \in SUBSET K |-> IF s = {} THEN 0 ELSE rows[Pick(s)].credits + g[s \ {Pick(s)}]]
           B(g) == g = [s \in SUBSET K |-> IF s = {} THEN 0 ELSE RowCredits(rows)[Pick(s)] + g[s \ {Pick(s)}]]
<1>1. ASSUME NEW g PROVE A(g) = B(g)
  <2>1. \A s \in SUBSET K : s # {} => rows[Pick(s)].credits = RowCredits(rows)[Pick(s)]
    BY Picked DEF RowCredits
  <2> QED
    BY <2>1
<1>2. (CHOOSE g : A(g)) = (CHOOSE g : B(g))
  <2> HIDE DEF A, B
  <2> QED
    BY <1>1
<1>3. CreditsOfRows(rows) = (CHOOSE g : A(g))[K]
  BY DEF CreditsOfRows, MapThenSumSet, MapThenFoldSet, Pick
<1>4. Total(RowCredits(rows), K) = (CHOOSE g : B(g))[K]
  BY DEF Total, MapThenSumSet, MapThenFoldSet, Pick
<1> QED
  BY <1>2, <1>3, <1>4

\* What an account says of a query.
LEMMA JobFacts ==
    ASSUME NEW a \in SfAccounts, NEW q \in a.jobs
    PROVE  /\ q.id \in Int /\ q.age \in Int /\ JobCredits(q) \in Nat
           /\ SfJob(q).id = q.id /\ SfJob(q).age = q.age /\ SfJob(q).outcome = SfOutcome(q.status)
           /\ SfJob(q).warehouse = q.warehouse /\ SfJob(q).credits = JobCredits(q)
<1>1. q.id \in Int /\ q.age \in Int /\ q.execution \in Nat \cup {NoTimestamp} /\ q.elapsed \in Nat \cup {NoTimestamp}
  BY SnowflakeAssumption DEF SfAccount
<1>2. \A size \in SfSizes : Halves[size] \in Nat
  BY DEF SfSizes, Halves
<1>3. DOMAIN Halves = SfSizes
  BY DEF Halves
<1>4. JobCredits(q) \in Nat
  <2> DEFINE ms == IF q.execution # NoTimestamp THEN q.execution ELSE q.elapsed
             size == NormaliseSize(q.size)
  <2>1. JobCredits(q) = IF size \in DOMAIN Halves /\ ms # NoTimestamp THEN Halves[size] * ms ELSE 0
    BY DEF JobCredits
  <2>2. ms # NoTimestamp => ms \in Nat
    BY <1>1
  <2>3. \A m, n \in Nat : m * n \in Nat
    OBVIOUS
  <2> HIDE DEF ms, size
  <2> QED
    BY <1>2, <1>3, <2>1, <2>2, <2>3
<1> QED
  BY <1>1, <1>4 DEF SfJob

\* The rows of the history are one per query.
SfJobsOf(Q) == {SfJob(q) : q \in Q}
LEMMA JobsOfQueries ==
    ASSUME NEW a \in SfAccounts, NEW Q \in SUBSET a.jobs
    PROVE  /\ IsFiniteSet(Q) /\ IsFiniteSet(SfJobsOf(Q)) /\ Cardinality(SfJobsOf(Q)) = Cardinality(Q)
           /\ CreditsOf(SfJobsOf(Q)) = MapThenSumSet(JobCredits, Q)
<1> DEFINE row == [q \in Q |-> SfJob(q)]
<1>1. IsFiniteSet(a.jobs) /\ IsFiniteSet(Q)
  <2>1. IsFiniteSet(a.jobs)
    BY SnowflakeAssumption DEF SfAccount
  <2> QED
    BY <2>1, FS_Subset
<1>2. \A q, r \in Q : row[q] = row[r] => q = r
  <2>1. \A q, r \in a.jobs : q.id = r.id => q = r
    BY SnowflakeAssumption DEF SfAccount
  <2>2. \A q \in Q : row[q].id = q.id
    BY JobFacts
  <2> HIDE DEF row
  <2> QED
    BY <2>1, <2>2
<1>3. SfJobsOf(Q) = {row[q] : q \in Q}
  BY DEF SfJobsOf
<1>4. row \in Bijection(Q, SfJobsOf(Q))
  <2>1. row \in [Q -> SfJobsOf(Q)] /\ \A j \in SfJobsOf(Q) : \E q \in Q : row[q] = j
    BY DEF SfJobsOf
  <2> HIDE DEF row
  <2> QED
    BY <1>2, <2>1 DEF Bijection, Injection, Surjection, IsInjective
<1>5. IsFiniteSet(SfJobsOf(Q)) /\ Cardinality(SfJobsOf(Q)) = Cardinality(Q)
  <2> HIDE DEF row
  <2> QED
    BY <1>1, <1>4, FS_Bijection DEF ExistsBijection
<1>6. Total(CreditsIn(SfJobsOf(Q)), {row[q] : q \in Q}) = Total(CreditsAsked(Q), Q)
  <2> DEFINE h == CreditsIn(SfJobsOf(Q))
             f == CreditsAsked(Q)
  <2>1. \A q \in Q : f[q] \in Int /\ h[row[q]] = f[q]
    <3>1. ASSUME NEW q \in Q
          PROVE  f[q] \in Int /\ h[row[q]] = f[q]
      <4>1. f[q] = JobCredits(q) /\ JobCredits(q) \in Nat
        BY JobFacts DEF CreditsAsked
      <4>2. row[q] \in SfJobsOf(Q) /\ row[q].credits = JobCredits(q)
        BY JobFacts DEF SfJobsOf
      <4> HIDE DEF row
      <4>3. h[row[q]] = row[q].credits
        BY <4>2 DEF CreditsIn
      <4> QED
        BY <4>1, <4>2, <4>3
    <3> QED
      BY <3>1
  <2> HIDE DEF row, h, f
  <2>2. Total(h, {row[q] : q \in Q}) = Total(f, Q)
    BY <1>1, <1>2, <2>1, TotalRenamed
  <2> QED
    BY <2>2 DEF h, f
<1>7. Total(CreditsIn(SfJobsOf(Q)), SfJobsOf(Q)) = Total(CreditsAsked(Q), Q)
  BY <1>3, <1>6
<1> QED
  BY <1>1, <1>5, <1>7, CreditsTotal, AskedTotal

\* A history below the limit has every query of the look-back: of those it would
\* lack one is the newest, and it has all that are newer, which are too many.
LEMMA LookbackNat == SfLookback \in Nat
<1>1. SfLookbackEnv \in Int
  BY SnowflakeAssumption
<1>2. \E n \in 1..365 : n = SfLookbackEnv \/ (SfLookbackEnv < 1 /\ n = 1) \/ (SfLookbackEnv > 365 /\ n = 365)
  BY <1>1
<1>3. (CHOOSE n \in 1..365 : n = SfLookbackEnv \/ (SfLookbackEnv < 1 /\ n = 1) \/ (SfLookbackEnv > 365 /\ n = 365)) \in Nat
  BY <1>2
<1> QED
  BY <1>3 DEF SfLookback

Kept == {x \in InLookback : Cardinality(NewerThan(x)) < SfJobLimit}
LEMMA HistoryIsKept == QueryHistory = SfJobsOf(Kept) /\ Kept \subseteq InLookback /\ InLookback \subseteq account.jobs
BY DEF QueryHistory, SfJobsOf, Kept, InLookback

LEMMA Newer ==
    ASSUME account \in SfAccounts, NEW x \in InLookback
    PROVE  /\ NewerThan(x) \subseteq InLookback /\ x \notin NewerThan(x)
           /\ \A y \in NewerThan(x) : NewerThan(y) \subseteq NewerThan(x)
<1>1. \A q \in InLookback : q.age \in Int /\ q.id \in Int
  BY JobFacts, HistoryIsKept
<1> QED
  BY <1>1 DEF NewerThan

LEMMA BelowTheLimit ==
    ASSUME account \in SfAccounts, Cardinality(Kept) < SfJobLimit
    PROVE  Kept = InLookback
<1>1. IsFiniteSet(InLookback)
  BY JobsOfQueries, HistoryIsKept
<1> DEFINE T == {NewerThan(x) : x \in InLookback \ Kept}
<1>2. SUFFICES ASSUME InLookback \ Kept # {}
               PROVE  FALSE
  BY HistoryIsKept
<1>3. T \subseteq SUBSET InLookback /\ T # {}
  BY <1>2, Newer
<1>4. PICK s \in T : \A t \in T : t \subseteq s => t = s
  <2> HIDE DEF T
  <2> QED
    BY <1>1, <1>3, Smallest
<1>5. PICK x \in InLookback \ Kept : s = NewerThan(x)
  BY <1>4
<1>6. s \subseteq Kept
  <2>1. SUFFICES ASSUME NEW y \in s, y \notin Kept
                 PROVE  FALSE
    OBVIOUS
  <2>2. y \in InLookback /\ NewerThan(y) \in T /\ NewerThan(y) \subseteq s
    BY <1>5, <2>1, Newer
  <2>3. NewerThan(y) = s
    BY <1>4, <2>2
  <2> QED
    BY <2>1, <2>2, <2>3, Newer
<1>7. IsFiniteSet(Kept) /\ IsFiniteSet(s) /\ Cardinality(s) <= Cardinality(Kept)
  BY <1>1, <1>6, HistoryIsKept, FS_Subset
<1>8. Cardinality(s) >= SfJobLimit
  <2>1. Cardinality(s) \in Nat /\ SfJobLimit \in Nat
    BY <1>7, FS_CardinalityType, SnowflakeAssumption
  <2>2. ~ (Cardinality(NewerThan(x)) < SfJobLimit)
    BY <1>5 DEF Kept
  <2> QED
    BY <1>5, <2>1, <2>2
<1>9. Cardinality(s) \in Nat /\ Cardinality(Kept) \in Nat /\ SfJobLimit \in Nat
  BY <1>7, FS_CardinalityType, SnowflakeAssumption
<1> QED
  BY <1>7, <1>8, <1>9

\* The completed jobs of a window are those of the queries that ended in it.
Ends(status) == status \in {"SUCCESS", "FAIL", "FAILED_WITH_ERROR", "FAILED_WITH_INCIDENT", "INCIDENT"}
LEMMA Outcomes == ASSUME NEW status PROVE (SfOutcome(status) \in {"succeeded", "failed"}) <=> Ends(status)
BY DEF SfOutcome, Ends

LEMMA WindowJobs ==
    ASSUME account \in SfAccounts, sfJobs = SfJobsOf(InLookback), NEW w \in Nat, w <= SfLookback
    PROVE  CompletedJobs(InSfWindow(w)) = SfJobsOf(EndedIn(w)) /\ EndedIn(w) \subseteq account.jobs
<1>1. \A q \in account.jobs : q.age \in Int
  BY JobFacts
<1>2. EndedIn(w) = {q \in InLookback : q.age <= w /\ Ends(q.status)}
  BY <1>1, LookbackNat DEF EndedIn, Ends, InLookback
<1>3. ASSUME NEW q \in InLookback
      PROVE  SfJob(q) \in CompletedJobs(InSfWindow(w)) <=> q.age <= w /\ Ends(q.status)
  <2>1. SfJob(q) \in sfJobs /\ q \in account.jobs
    BY HistoryIsKept DEF SfJobsOf
  <2>2. SfJob(q).age = q.age /\ SfJob(q).outcome = SfOutcome(q.status)
    BY <2>1, JobFacts
  <2> QED
    BY <2>1, <2>2, Outcomes DEF CompletedJobs, InSfWindow
<1>4. CompletedJobs(InSfWindow(w)) \subseteq sfJobs
  BY DEF CompletedJobs, InSfWindow
<1>5. CompletedJobs(InSfWindow(w)) = {SfJob(q) : q \in {p \in InLookback : p.age <= w /\ Ends(p.status)}}
  BY <1>3, <1>4 DEF SfJobsOf
<1> QED
  BY <1>2, <1>5, HistoryIsKept DEF SfJobsOf

\* The jobs of a report are some of those of the account.
SfJobSet(J) == IsFiniteSet(J) /\ \A j \in J : j.credits \in Nat /\ j.age \in Int
LEMMA SfJobsSound ==
    ASSUME account \in SfAccounts, sfJobs \in {{}, QueryHistory}
    PROVE  SfJobSet(sfJobs)
<1>1. ASSUME NEW Q \in SUBSET account.jobs
      PROVE  SfJobSet(SfJobsOf(Q))
  <2>1. IsFiniteSet(SfJobsOf(Q))
    BY JobsOfQueries
  <2>2. ASSUME NEW j \in SfJobsOf(Q)
        PROVE  j.credits \in Nat /\ j.age \in Int
    <3>1. PICK q \in Q : j = SfJob(q)
      BY DEF SfJobsOf
    <3> QED
      BY <3>1, JobFacts
  <2> QED
    BY <2>1, <2>2 DEF SfJobSet
<1>2. SfJobsOf({}) = {}
  BY DEF SfJobsOf
<1>3. {} \in SUBSET account.jobs /\ Kept \in SUBSET account.jobs
  BY HistoryIsKept
<1>4. SfJobSet(SfJobsOf({})) /\ SfJobSet(SfJobsOf(Kept))
  BY <1>1, <1>3
<1> QED
  BY <1>2, <1>4, HistoryIsKept

LEMMA SfPart ==
    ASSUME NEW J, SfJobSet(J), NEW S \in SUBSET J
    PROVE  /\ IsFiniteSet(S) /\ IsFiniteSet(J) /\ SfJobSet(S)
           /\ CreditsOf(S) = Total(CreditsIn(J), S) /\ CreditsOf(S) \in Nat /\ CreditsOf(S) <= CreditsOf(J)
           /\ \A j \in J : CreditsIn(J)[j] \in Nat /\ CreditsIn(J)[j] \in Int
<1>1. IsFiniteSet(S) /\ IsFiniteSet(J) /\ SfJobSet(S)
  BY FS_Subset DEF SfJobSet
<1>2. /\ \A j \in J : CreditsIn(J)[j] \in Nat /\ CreditsIn(J)[j] \in Int
      /\ \A j \in S : CreditsIn(S)[j] = CreditsIn(J)[j] /\ CreditsIn(J)[j] \in Nat
  BY DEF CreditsIn, SfJobSet
<1>3. CreditsOf(S) = Total(CreditsIn(J), S)
  <2>1. Total(CreditsIn(S), S) = Total(CreditsIn(J), S)
    <3>1. \A j \in S : CreditsIn(S)[j] = CreditsIn(J)[j]
      BY <1>2
    <3> QED
      BY <1>1, <3>1, TotalSame
  <2> QED
    BY <2>1, CreditsTotal
<1>4. Total(CreditsIn(J), S) \in Nat
  <2>1. \A j \in S : CreditsIn(J)[j] \in Nat
    BY <1>2
  <2> QED
    BY <1>1, <2>1, TotalNat
<1>5. Total(CreditsIn(J), S) <= Total(CreditsIn(J), J)
  <2>1. \A j \in J : CreditsIn(J)[j] \in Nat
    BY <1>2
  <2> QED
    BY <1>1, <2>1, TotalPart
<1> QED
  BY <1>1, <1>2, <1>3, <1>4, <1>5, CreditsTotal

LEMMA CreditsByKey ==
    ASSUME NEW J, SfJobSet(J), NEW key, NEW rows, DOMAIN rows = {key[j] : j \in J},
           \A k \in DOMAIN rows : rows[k].credits = CreditsOf(Sharing(J, key, k))
    PROVE  CreditsOfRows(rows) = CreditsOf(J)
<1> DEFINE K == DOMAIN rows
           by == RowCredits(rows)
           f == CreditsIn(J)
<1>1. IsFiniteSet(J) /\ IsFiniteSet(K) /\ (\A j \in J : key[j] \in K)
  BY FiniteImage DEF SfJobSet
<1>2. \A j \in J : f[j] \in Int
  BY SfPart
<1>3. ASSUME NEW k \in K
      PROVE  by[k] = Total(f, Sharing(J, key, k))
  <2>1. Sharing(J, key, k) \in SUBSET J
    BY DEF Sharing
  <2> QED
    BY <2>1, SfPart DEF RowCredits
<1>4. Total(by, K) = Total(f, J)
  <2>1. \A k \in K : by[k] = Total(f, Sharing(J, key, k))
    BY <1>3
  <2> HIDE DEF K, by, f
  <2> QED
    BY <1>1, <1>2, <2>1, SharedTotals
<1> QED
  BY <1>4, RowsTotal, CreditsTotal

LEMMA DaysSplit == ASSUME SfJobSet(sfJobs) PROVE CreditsOfRows(JobsByDay) = CreditsOf(sfJobs)
<1> DEFINE age == [j \in sfJobs |-> j.age]
<1>1. DOMAIN JobsByDay = {age[j] : j \in sfJobs}
  BY DEF JobsByDay
<1>2. ASSUME NEW d \in DOMAIN JobsByDay
      PROVE  JobsByDay[d].credits = CreditsOf(Sharing(sfJobs, age, d))
  <2>1. Sharing(sfJobs, age, d) = {j \in sfJobs : j.age = d}
    BY DEF Sharing
  <2>2. JobsByDay[d].credits = CreditsOf({j \in sfJobs : j.age = d})
    BY DEF JobsByDay
  <2> QED
    BY <2>1, <2>2
<1> HIDE DEF age
<1> QED
  BY <1>1, <1>2, CreditsByKey

LEMMA DimensionSplit == ASSUME SfJobSet(sfJobs), NEW dimension PROVE CreditsOfRows(JobsByDimension(dimension)) = CreditsOf(sfJobs)
<1> DEFINE key == [j \in sfJobs |-> JobKey(j, dimension)]
           rows == JobsByDimension(dimension)
<1>1. DOMAIN rows = {key[j] : j \in sfJobs}
  BY DEF JobsByDimension
<1>2. ASSUME NEW k \in DOMAIN rows
      PROVE  rows[k].credits = CreditsOf(Sharing(sfJobs, key, k))
  <2>1. Sharing(sfJobs, key, k) = {j \in sfJobs : JobKey(j, dimension) = k}
    BY DEF Sharing
  <2>2. rows[k].credits = CreditsOf({j \in sfJobs : JobKey(j, dimension) = k})
    BY DEF JobsByDimension
  <2> QED
    BY <2>1, <2>2
<1> HIDE DEF key, rows
<1>3. CreditsOfRows(rows) = CreditsOf(sfJobs)
  BY <1>1, <1>2, CreditsByKey
<1> QED
  BY <1>3 DEF rows

\* A query without a warehouse has no row, and costs no less than nothing.
LEMMA WarehousesSplit ==
    ASSUME SfJobSet(sfJobs), NEW w
    PROVE  MapThenSumSet(LAMBDA wh : WarehousesByWindow(w)[wh], DOMAIN WarehousesByWindow(w)) <= CreditsOf(InSfWindow(w))
<1> DEFINE J == InSfWindow(w)
           U == {j \in J : j.warehouse # "none"}
           key == [j \in U |-> j.warehouse]
           by == WarehousesByWindow(w)
           K == DOMAIN by
           f == CreditsIn(J)
<1>1. SfJobSet(J)
  BY SfPart DEF InSfWindow
<1>2. IsFiniteSet(U) /\ (\A j \in U : f[j] \in Int) /\ Total(f, U) <= CreditsOf(J)
  <2>1. U \in SUBSET J
    OBVIOUS
  <2> HIDE DEF U, J
  <2> QED
    BY <1>1, <2>1, SfPart
<1>3. K = {key[j] : j \in U}
  BY DEF WarehousesByWindow
<1>4. IsFiniteSet(K) /\ \A j \in U : key[j] \in K
  <2> HIDE DEF U, key, by
  <2> QED
    BY <1>2, <1>3, FiniteImage
<1>5. ASSUME NEW k \in K
      PROVE  by[k] = Total(f, Sharing(U, key, k))
  <2>1. Sharing(U, key, k) = {j \in InSfWindow(w) : j.warehouse = k} /\ Sharing(U, key, k) \in SUBSET J
    BY DEF Sharing, WarehousesByWindow
  <2>2. by[k] = CreditsOf({j \in InSfWindow(w) : j.warehouse = k})
    BY DEF WarehousesByWindow
  <2> HIDE DEF by, J, U, key
  <2> QED
    BY <1>1, <2>1, <2>2, SfPart
<1>6. Total(by, K) = Total(f, U)
  <2>1. \A k \in K : by[k] = Total(f, Sharing(U, key, k))
    BY <1>5
  <2>2. \A j \in U : f[j] \in Int
    BY <1>2
  <2> HIDE DEF K, by, f, U, key
  <2> QED
    BY <1>2, <1>4, <2>1, <2>2, SharedTotals
<1>7. MapThenSumSet(LAMBDA wh : WarehousesByWindow(w)[wh], DOMAIN WarehousesByWindow(w)) = Total(by, K)
  BY DEF Total, MapThenSumSet, MapThenFoldSet
<1> QED
  BY <1>2, <1>6, <1>7

LEMMA WindowsWhole ==
    ASSUME account \in SfAccounts, sfJobs = QueryHistory, Cardinality(sfJobs) < SfJobLimit,
           NEW w \in SfWindows, w <= SfLookback
    PROVE  /\ JobsByWindow(w).succeeded + JobsByWindow(w).failed = Cardinality(EndedIn(w))
           /\ JobsByWindow(w).credits = MapThenSumSet(JobCredits, EndedIn(w))
<1> DEFINE ended == CompletedJobs(InSfWindow(w))
           good == {j \in InSfWindow(w) : j.outcome = "succeeded"}
<1>1. Kept = InLookback
  <2>1. Cardinality(sfJobs) = Cardinality(Kept)
    BY HistoryIsKept, JobsOfQueries
  <2> QED
    BY <2>1, BelowTheLimit
<1>2. sfJobs = SfJobsOf(InLookback)
  BY <1>1, HistoryIsKept
<1>3. ended = SfJobsOf(EndedIn(w)) /\ EndedIn(w) \in SUBSET account.jobs
  BY <1>2, WindowJobs DEF SfWindows
<1>4. Cardinality(ended) = Cardinality(EndedIn(w)) /\ CreditsOf(ended) = MapThenSumSet(JobCredits, EndedIn(w))
  BY <1>3, JobsOfQueries
<1>5. Cardinality(ended) \in Nat /\ Cardinality(good) \in Nat
  <2>1. IsFiniteSet(ended) /\ IsFiniteSet(good)
    <3>1. SfJobSet(sfJobs)
      BY SfJobsSound
    <3>2. ended \in SUBSET sfJobs /\ good \in SUBSET sfJobs
      BY DEF CompletedJobs, InSfWindow
    <3> HIDE DEF ended, good
    <3> QED
      BY <3>1, <3>2, SfPart
  <2> QED
    BY <2>1, FS_CardinalityType
<1>6. JobsByWindow(w).succeeded = Cardinality(good) /\ JobsByWindow(w).failed = Cardinality(ended) - Cardinality(good)
      /\ JobsByWindow(w).credits = CreditsOf(ended)
  BY DEF JobsByWindow
<1> HIDE DEF ended, good
<1> QED
  BY <1>4, <1>5, <1>6

JobHistory ==
    sfStage \in {"usage", "finalise", "reported"} /\ grants.imported /\ <<"lost", "jobs">> \notin sfErrors
      => sfJobs = QueryHistory
LEMMA HistoryTold ==
    ASSUME account \in SfAccounts, sfJobs \in {{}, QueryHistory}, JobHistory
    PROVE  WindowWithinReachIsWhole
<1>1. SfJobSet(sfJobs)
  BY SfJobsSound
<1>2. \A dimension \in {"warehouse", "query_type", "status"} : CreditsOfRows(JobsByDimension(dimension)) = CreditsOfRows(JobsByDay)
  BY <1>1, DaysSplit, DimensionSplit
<1>3. SUFFICES ASSUME sfStage = "reported", grants.imported, <<"lost", "jobs">> \notin sfErrors, Cardinality(sfJobs) < SfJobLimit,
                      NEW w \in {v \in SfWindows : v <= SfLookback}
               PROVE  /\ JobsByWindow(w).succeeded + JobsByWindow(w).failed = Cardinality(EndedIn(w))
                      /\ JobsByWindow(w).credits = MapThenSumSet(JobCredits, EndedIn(w))
                      /\ MapThenSumSet(LAMBDA wh : WarehousesByWindow(w)[wh], DOMAIN WarehousesByWindow(w))
                           <= CreditsOf(InSfWindow(w))
  BY <1>2 DEF WindowWithinReachIsWhole
<1>4. sfJobs = QueryHistory
  BY <1>3 DEF JobHistory
<1>5. w \in SfWindows /\ w <= SfLookback
  BY <1>3
<1> QED
  BY <1>1, <1>3, <1>4, <1>5, WindowsWhole, WarehousesSplit

(***************************************************************************)
(* The inventory.  A row tells its object and how SHOW listed it.          *)
(***************************************************************************)
Supports == {"supported", "partial", "unsupported", "unknown"}
FamilyOf(kind) ==
    CASE kind \in {"EXTERNAL_TABLE", "DYNAMIC_TABLE", "ICEBERG_TABLE", "TEMPORARY", "TRANSIENT", "TABLE", "UNKNOWN"} -> "tables"
      [] kind \in {"VIEW", "MATERIALIZED_VIEW"} -> "views"
      [] kind = "FUNCTION" -> "functions" [] kind = "PROCEDURE" -> "procedures"
      [] kind = "STAGE" -> "stages" [] kind = "STREAM" -> "streams" [] kind = "TASK" -> "tasks" [] kind = "PIPE" -> "pipes"

LEMMA TableRowSays ==
    ASSUME NEW o
    PROVE  /\ TableRow(o).db = o.db /\ TableRow(o).schema = o.schema /\ TableRow(o).name = o.name
           /\ FamilyOf(TableRow(o).kind) = "tables" /\ TableRow(o).support \in Supports
<1>1. ShowTableKind(o) \in {"EXTERNAL_TABLE", "DYNAMIC_TABLE", "ICEBERG_TABLE", "TEMPORARY", "TRANSIENT", "TABLE", "UNKNOWN"}
  <2>1. \A k \in DOMAIN SpelledKinds : SpelledKinds[k] \in {"EXTERNAL_TABLE", "DYNAMIC_TABLE", "ICEBERG_TABLE"}
    BY DEF SpelledKinds
  <2> QED
    BY <2>1 DEF ShowTableKind
<1>2. ClassifyTable(ShowTableKind(o)) \in Supports
  BY DEF ClassifyTable, TableSupport, Supports
<1>3. /\ TableRow(o).db = o.db /\ TableRow(o).schema = o.schema /\ TableRow(o).name = o.name
      /\ TableRow(o).kind = ShowTableKind(o) /\ TableRow(o).support = ClassifyTable(ShowTableKind(o))
  BY DEF TableRow, Row
<1>4. FamilyOf(ShowTableKind(o)) = "tables"
  BY <1>1 DEF FamilyOf
<1> QED
  BY <1>2, <1>3, <1>4

LEMMA ViewRowSays ==
    ASSUME NEW o
    PROVE  /\ ViewRow(o).db = o.db /\ ViewRow(o).schema = o.schema /\ ViewRow(o).name = o.name
           /\ FamilyOf(ViewRow(o).kind) = "views" /\ ViewRow(o).support \in Supports
<1> DEFINE kind == IF "materialized" \in o.flags THEN "MATERIALIZED_VIEW" ELSE "VIEW"
<1>1. kind \in {"MATERIALIZED_VIEW", "VIEW"}
  OBVIOUS
<1>2. ClassifyTable(kind) \in Supports
  BY DEF ClassifyTable, TableSupport, Supports
<1>3. ViewRow(o) = Row(o, kind, "none", ClassifyTable(kind))
  BY DEF ViewRow
<1> HIDE DEF kind
<1>4. /\ ViewRow(o).db = o.db /\ ViewRow(o).schema = o.schema /\ ViewRow(o).name = o.name
      /\ ViewRow(o).kind = kind /\ ViewRow(o).support = ClassifyTable(kind)
  BY <1>3 DEF Row
<1>5. FamilyOf(kind) = "views"
  BY <1>1 DEF FamilyOf
<1> QED
  BY <1>2, <1>4, <1>5

LEMMA RoutineRowSays ==
    ASSUME NEW o, NEW kind \in {"FUNCTION", "PROCEDURE"}
    PROVE  /\ RoutineRow(o, kind).db = o.db /\ RoutineRow(o, kind).schema = o.schema /\ RoutineRow(o, kind).name = o.name
           /\ RoutineRow(o, kind).kind = kind /\ RoutineRow(o, kind).support \in Supports
<1> DEFINE language == IF o.kind = "" THEN "SQL" ELSE o.kind
           known == IF language \in SfLanguages THEN language ELSE "UNKNOWN"
<1>1. ClassifyRoutine(kind, language) \in Supports
  BY DEF ClassifyRoutine, RoutineSupport, Supports
<1>2. RoutineRow(o, kind) = Row(o, kind, known, ClassifyRoutine(kind, language))
  BY DEF RoutineRow
<1> HIDE DEF language, known
<1> QED
  BY <1>1, <1>2 DEF Row

LEMMA ObjectRowSays ==
    ASSUME NEW o, NEW kind \in {"STAGE", "STREAM", "TASK", "PIPE"}
    PROVE  /\ ObjectRow(o, kind).db = o.db /\ ObjectRow(o, kind).schema = o.schema /\ ObjectRow(o, kind).name = o.name
           /\ ObjectRow(o, kind).kind = kind /\ ObjectRow(o, kind).support \in Supports
BY DEF ObjectRow, Row, ObjectKindSupport, Supports

LEMMA SfRowSays ==
    ASSUME NEW o, o.family \in SfFamilies
    PROVE  /\ ShowRow(o).db = o.db /\ ShowRow(o).schema = o.schema /\ ShowRow(o).name = o.name
           /\ FamilyOf(ShowRow(o).kind) = o.family /\ ShowRow(o).support \in Supports
<1>1. CASE o.family = "tables"
  <2>1. ShowRow(o) = TableRow(o)
    BY <1>1 DEF ShowRow
  <2> QED
    BY <1>1, <2>1, TableRowSays
<1>2. CASE o.family = "views"
  <2>1. ShowRow(o) = ViewRow(o)
    BY <1>2 DEF ShowRow
  <2> QED
    BY <1>2, <2>1, ViewRowSays
<1>3. CASE o.family = "functions"
  <2>1. ShowRow(o) = RoutineRow(o, "FUNCTION") /\ FamilyOf("FUNCTION") = "functions"
    BY <1>3 DEF ShowRow, FamilyOf
  <2> QED
    BY <1>3, <2>1, RoutineRowSays
<1>4. CASE o.family = "procedures"
  <2>1. ShowRow(o) = RoutineRow(o, "PROCEDURE") /\ FamilyOf("PROCEDURE") = "procedures"
    BY <1>4 DEF ShowRow, FamilyOf
  <2> QED
    BY <1>4, <2>1, RoutineRowSays
<1>5. CASE o.family = "stages"
  <2>1. ShowRow(o) = ObjectRow(o, "STAGE") /\ FamilyOf("STAGE") = "stages"
    BY <1>5 DEF ShowRow, FamilyOf
  <2> QED
    BY <1>5, <2>1, ObjectRowSays
<1>6. CASE o.family = "streams"
  <2>1. ShowRow(o) = ObjectRow(o, "STREAM") /\ FamilyOf("STREAM") = "streams"
    BY <1>6 DEF ShowRow, FamilyOf
  <2> QED
    BY <1>6, <2>1, ObjectRowSays
<1>7. CASE o.family = "tasks"
  <2>1. ShowRow(o) = ObjectRow(o, "TASK") /\ FamilyOf("TASK") = "tasks"
    BY <1>7 DEF ShowRow, FamilyOf
  <2> QED
    BY <1>7, <2>1, ObjectRowSays
<1>8. CASE o.family = "pipes"
  <2>1. ShowRow(o) = ObjectRow(o, "PIPE") /\ FamilyOf("PIPE") = "pipes"
    BY <1>8 DEF ShowRow, FamilyOf
  <2> QED
    BY <1>8, <2>1, ObjectRowSays
<1> QED
  BY <1>1, <1>2, <1>3, <1>4, <1>5, <1>6, <1>7, <1>8 DEF SfFamilies

\* What SHOW can give: the databases it lists, and the objects of those it may use.
ShownDatabases == {d \in account.databases : d.name \in grants.shown}
InReach == {o \in UserObjects : o.db \in grants.used}
ShownRows(families) == {ShowRow(o) : o \in {x \in InReach : x.family \in families}}
SchemasOf(db) == IF grants.system \/ db \notin SystemDatabases THEN SchemasShown(db) ELSE {}
CountedRow(d) == [name |-> d.name, share |-> d.origin, schemas |-> Cardinality(SchemasOf(d.name))]
GrantsSound == grants.shown \subseteq {d.name : d \in account.databases} /\ grants.used \subseteq grants.shown

LEMMA AccountSound ==
    ASSUME account \in SfAccounts
    PROVE  /\ IsFiniteSet(account.databases) /\ IsFiniteSet(account.objects)
           /\ \A d, e \in account.databases : d.name = e.name => d = e
           /\ \A o \in account.objects : o.family \in SfFamilies
           /\ \A o, p \in account.objects : o.db = p.db /\ o.schema = p.schema /\ o.name = p.name /\ o.family = p.family => o = p
BY SnowflakeAssumption DEF SfAccount

LEMMA RowsCounted ==
    ASSUME account \in SfAccounts, NEW families
    PROVE  /\ IsFiniteSet(ShownRows(families)) /\ \A r \in ShownRows(families) : r.support \in Supports
           /\ Cardinality(ShownRows(families)) = Cardinality({o \in UserObjects : o.db \in grants.used /\ o.family \in families})
<1> DEFINE Q == {x \in InReach : x.family \in families}
           row == [o \in Q |-> ShowRow(o)]
<1>1. Q \in SUBSET account.objects
  BY DEF InReach, UserObjects
<1>2. IsFiniteSet(Q)
  BY <1>1, AccountSound, FS_Subset
<1>3. \A o \in Q : o.family \in SfFamilies
  BY <1>1, AccountSound
<1>4. \A o, p \in Q : row[o] = row[p] => o = p
  <2>1. SUFFICES ASSUME NEW o \in Q, NEW p \in Q, ShowRow(o) = ShowRow(p)
                 PROVE  o = p
    OBVIOUS
  <2>2. o.db = p.db /\ o.schema = p.schema /\ o.name = p.name /\ o.family = p.family
    BY <1>3, <2>1, SfRowSays
  <2> QED
    BY <1>1, <2>2, AccountSound
<1>5. row \in [Q -> ShownRows(families)] /\ \A r \in ShownRows(families) : \E o \in Q : row[o] = r
  BY DEF ShownRows
<1>6. row \in Bijection(Q, ShownRows(families))
  <2> HIDE DEF row, Q
  <2> QED
    BY <1>4, <1>5 DEF Bijection, Injection, Surjection, IsInjective
<1>7. IsFiniteSet(ShownRows(families)) /\ Cardinality(ShownRows(families)) = Cardinality(Q)
  <2> HIDE DEF row, Q
  <2> QED
    BY <1>2, <1>6, FS_Bijection DEF ExistsBijection
<1>8. \A r \in ShownRows(families) : r.support \in Supports
  BY <1>3, SfRowSays DEF ShownRows
<1>9. Q = {o \in UserObjects : o.db \in grants.used /\ o.family \in families}
  BY DEF InReach
<1> QED
  BY <1>7, <1>8, <1>9

\* The databases count the schemas listed in them.
SchemaCounts(D) == [d \in D |-> d.schemas]
LEMMA SchemaColumn == ASSUME NEW D PROVE MapThenSumSet(LAMBDA d : d.schemas, D) = Total(SchemaCounts(D), D)
<1> DEFINE A(g) == g = [s \in SUBSET D |-> IF s = {} THEN 0 ELSE Pick(s).schemas + g[s \ {Pick(s)}]]
           B(g) == g = [s \in SUBSET D |-> IF s = {} THEN 0 ELSE SchemaCounts(D)[Pick(s)] + g[s \ {Pick(s)}]]
<1>1. ASSUME NEW g PROVE A(g) = B(g)
  <2>1. \A s \in SUBSET D : s # {} => Pick(s).schemas = SchemaCounts(D)[Pick(s)]
    BY Picked DEF SchemaCounts
  <2> QED
    BY <2>1
<1>2. (CHOOSE g : A(g)) = (CHOOSE g : B(g))
  <2> HIDE DEF A, B
  <2> QED
    BY <1>1
<1>3. MapThenSumSet(LAMBDA d : d.schemas, D) = (CHOOSE g : A(g))[D]
  BY DEF MapThenSumSet, MapThenFoldSet, Pick
<1>4. Total(SchemaCounts(D), D) = (CHOOSE g : B(g))[D]
  BY DEF Total, MapThenSumSet, MapThenFoldSet, Pick
<1> QED
  BY <1>2, <1>3, <1>4

Listed == {<<o.db, o.schema>> : o \in InReach}
CountedRows == {CountedRow(d) : d \in ShownDatabases}
LEMMA SchemasCounted ==
    ASSUME account \in SfAccounts, GrantsSound
    PROVE  Total(SchemaCounts(CountedRows), CountedRows) = Cardinality(Listed)
<1> DEFINE home == [s \in Listed |-> CHOOSE r \in CountedRows : r.name = s[1]]
           by == SchemaCounts(CountedRows)
           rowOf == [d \in ShownDatabases |-> CountedRow(d)]
           pair == [o \in InReach |-> <<o.db, o.schema>>]
<1>1. \A r, t \in CountedRows : r.name = t.name => r = t
  BY AccountSound DEF CountedRows, CountedRow, ShownDatabases
<1>2. IsFiniteSet(CountedRows)
  <2>1. IsFiniteSet(ShownDatabases) /\ CountedRows = {rowOf[d] : d \in ShownDatabases}
    BY AccountSound, FS_Subset DEF ShownDatabases, CountedRows
  <2> HIDE DEF rowOf
  <2> QED
    BY <2>1, FiniteImage
<1>3. IsFiniteSet(Listed)
  <2>1. IsFiniteSet(InReach) /\ Listed = {pair[o] : o \in InReach}
    BY AccountSound, FS_Subset DEF InReach, UserObjects, Listed
  <2> HIDE DEF pair
  <2> QED
    BY <2>1, FiniteImage
<1>4. ASSUME NEW s \in Listed
      PROVE  home[s] \in CountedRows /\ home[s].name = s[1]
  <2>1. s[1] \in grants.used
    BY DEF Listed, InReach
  <2>2. PICK d \in ShownDatabases : d.name = s[1]
    BY <2>1 DEF GrantsSound, ShownDatabases
  <2>3. CountedRow(d) \in CountedRows /\ CountedRow(d).name = s[1]
    BY <2>2 DEF CountedRows, CountedRow
  <2> QED
    BY <2>3
<1>5. ASSUME NEW r \in CountedRows
      PROVE  by[r] = Cardinality(Sharing(Listed, home, r))
  <2>1. PICK d \in ShownDatabases : r = CountedRow(d)
    BY DEF CountedRows
  <2>2. r.name = d.name /\ r.schemas = Cardinality(SchemasOf(d.name))
    BY <2>1 DEF CountedRow
  <2>3. \A s \in Listed : home[s] = r <=> s[1] = d.name
    BY <1>1, <1>4, <2>2
  <2>4. Sharing(Listed, home, r) = {s \in Listed : s[1] = d.name}
    <3> HIDE DEF home
    <3> QED
      BY <2>3 DEF Sharing
  <2>5. {s \in Listed : s[1] = d.name} = SchemasOf(d.name)
    BY DEF Listed, InReach, UserObjects, SchemasOf, SchemasShown
  <2> QED
    BY <2>2, <2>4, <2>5 DEF SchemaCounts
<1>6. (\A s \in Listed : home[s] \in CountedRows) /\ \A r \in CountedRows : by[r] = Cardinality(Sharing(Listed, home, r))
  BY <1>4, <1>5
<1> HIDE DEF home, by
<1>7. Total(by, CountedRows) = Cardinality(Listed)
  BY <1>2, <1>3, <1>6, KeyedCount
<1> QED
  BY <1>7 DEF by

\* The code objects of a report are the rows of four families, by support.
CodeFamilies == {"tables", "views", "functions", "procedures"}
LEMMA CodeObjectsCounted ==
    ASSUME account \in SfAccounts, sfReport.tables \cup sfReport.routines = ShownRows(CodeFamilies)
    PROVE  /\ CodeObjectSummary.total
                = Cardinality({o \in UserObjects : o.db \in grants.used /\ o.family \in CodeFamilies})
           /\ MapThenSumSet(LAMBDA k : CodeObjectSummary.support[k], DOMAIN CodeObjectSummary.support)
                = CodeObjectSummary.total
<1> DEFINE R == ShownRows(CodeFamilies)
           key == [o \in R |-> o.support]
           by == CodeObjectSummary.support
<1>1. CodeObjectSummary.total = Cardinality(R) /\ DOMAIN by = Supports
  <2>1. CodeObjectSummary = [total |-> Cardinality(R), support |-> [s \in Supports |-> Cardinality({o \in R : o.support = s})]]
    BY DEF CodeObjectSummary, Supports
  <2> HIDE DEF R
  <2> QED
    BY <2>1
<1>2. IsFiniteSet(R) /\ \A o \in R : key[o] \in Supports
  BY RowsCounted
<1>3. IsFiniteSet(Supports)
  <2>1. IsFiniteSet({"supported"}) /\ IsFiniteSet({"partial"}) /\ IsFiniteSet({"unsupported"}) /\ IsFiniteSet({"unknown"})
    BY FS_Singleton
  <2>2. IsFiniteSet({"supported"} \cup {"partial"}) /\ IsFiniteSet({"unsupported"} \cup {"unknown"})
    BY <2>1, FS_Union
  <2>3. IsFiniteSet(({"supported"} \cup {"partial"}) \cup ({"unsupported"} \cup {"unknown"}))
    BY <2>2, FS_Union
  <2>4. Supports = ({"supported"} \cup {"partial"}) \cup ({"unsupported"} \cup {"unknown"})
    BY DEF Supports
  <2> QED
    BY <2>3, <2>4
<1>4. ASSUME NEW s \in Supports
      PROVE  by[s] = Cardinality(Sharing(R, key, s))
  <2>1. by[s] = Cardinality({o \in R : o.support = s})
    BY DEF CodeObjectSummary, Supports
  <2>2. Sharing(R, key, s) = {o \in R : o.support = s}
    BY DEF Sharing
  <2> QED
    BY <2>1, <2>2
<1>5. Total(by, Supports) = Cardinality(R)
  <2>1. \A s \in Supports : by[s] = Cardinality(Sharing(R, key, s))
    BY <1>4
  <2> HIDE DEF R, key, by
  <2> QED
    BY <1>2, <1>3, <2>1, KeyedCount
<1>6. MapThenSumSet(LAMBDA k : CodeObjectSummary.support[k], DOMAIN CodeObjectSummary.support) = Total(by, DOMAIN by)
  BY DEF Total, MapThenSumSet, MapThenFoldSet
<1>7. Cardinality(R) = Cardinality({o \in UserObjects : o.db \in grants.used /\ o.family \in CodeFamilies})
  BY RowsCounted
<1> QED
  BY <1>1, <1>5, <1>6, <1>7

\* At each stage, what a report without an error and without the fallback holds.
Clean == sfErrors = {} /\ "latency" \notin caveats
TableFamilies == {"tables", "views"}
RoutineFamilies == {"functions", "procedures"}
OtherFamilies == {"stages", "streams", "tasks", "pipes"}
Inventory ==
    Clean =>
      /\ sfStage = "schemas" => sfReport.databases = {DatabaseRow(d) : d \in ShownDatabases}
      /\ sfStage \notin {"warehouses", "databases", "schemas"} =>
           sfReport.databases = CountedRows /\ sfReport.schemas = Listed
      /\ sfStage \notin {"warehouses", "databases", "schemas", "objects"} =>
           /\ sfReport.tables = ShownRows(TableFamilies) /\ sfReport.routines = ShownRows(RoutineFamilies)
           /\ sfReport.others = ShownRows(OtherFamilies)
      /\ sfStage \notin {"warehouses", "databases", "schemas", "objects", "fallback"} => sfReport.tables # {}

LEMMA InventoryTold ==
    ASSUME account \in SfAccounts, GrantsSound, Inventory
    PROVE  CleanReportIsExact
<1>1. SUFFICES ASSUME sfStage = "reported", sfErrors = {}, caveats \cap {"latency", "privilege"} = {}
               PROVE  /\ sfReport.tables # {}
                      /\ sfReport.tables \cup sfReport.routines \cup sfReport.others
                           = {ShowRow(o) : o \in {x \in UserObjects : x.db \in grants.used}}
                      /\ {d.name : d \in sfReport.databases} = grants.shown
                      /\ MapThenSumSet(LAMBDA d : d.schemas, sfReport.databases) = Cardinality(sfReport.schemas)
                      /\ CodeObjectSummary.total
                           = Cardinality({o \in UserObjects : o.db \in grants.used /\ o.family \in CodeFamilies})
                      /\ MapThenSumSet(LAMBDA k : CodeObjectSummary.support[k], DOMAIN CodeObjectSummary.support)
                           = CodeObjectSummary.total
  BY DEF CleanReportIsExact, CodeFamilies
<1>2. Clean
  BY <1>1 DEF Clean
<1>3. /\ sfReport.databases = CountedRows /\ sfReport.schemas = Listed
      /\ sfReport.tables = ShownRows(TableFamilies) /\ sfReport.routines = ShownRows(RoutineFamilies)
      /\ sfReport.others = ShownRows(OtherFamilies) /\ sfReport.tables # {}
  BY <1>1, <1>2 DEF Inventory
<1>4. ShownRows(TableFamilies) \cup ShownRows(RoutineFamilies) = ShownRows(CodeFamilies)
  BY DEF ShownRows, TableFamilies, RoutineFamilies, CodeFamilies
<1>5. ShownRows(CodeFamilies) \cup ShownRows(OtherFamilies) = {ShowRow(o) : o \in InReach}
  <2>1. \A o \in InReach : o.family \in CodeFamilies \cup OtherFamilies
    BY AccountSound DEF InReach, UserObjects, CodeFamilies, OtherFamilies, SfFamilies
  <2> QED
    BY <2>1 DEF ShownRows
<1>6. sfReport.tables \cup sfReport.routines \cup sfReport.others = {ShowRow(o) : o \in {x \in UserObjects : x.db \in grants.used}}
  <2>1. ShownRows(TableFamilies) \cup ShownRows(RoutineFamilies) \cup ShownRows(OtherFamilies) = {ShowRow(o) : o \in InReach}
    BY <1>4, <1>5
  <2> QED
    BY <1>3, <2>1 DEF InReach
<1>7. {d.name : d \in sfReport.databases} = grants.shown
  <2>1. {d.name : d \in CountedRows} = {d.name : d \in ShownDatabases}
    <3>1. \A d \in ShownDatabases : CountedRow(d).name = d.name
      BY DEF CountedRow
    <3> QED
      BY <3>1 DEF CountedRows
  <2>2. {d.name : d \in ShownDatabases} = grants.shown
    BY DEF ShownDatabases, GrantsSound
  <2> QED
    BY <1>3, <2>1, <2>2
<1>8. MapThenSumSet(LAMBDA d : d.schemas, sfReport.databases) = Cardinality(sfReport.schemas)
  BY <1>3, SchemaColumn, SchemasCounted
<1>9. sfReport.tables \cup sfReport.routines = ShownRows(CodeFamilies)
  BY <1>3, <1>4
<1> QED
  BY <1>3, <1>6, <1>7, <1>8, <1>9, CodeObjectsCounted

SfFields == {"warehouses", "databases", "schemas", "tables", "routines", "others", "usage"}
SfStages == {"warehouses", "databases", "schemas", "objects", "fallback", "jobs", "usage", "finalise", "reported"}
SfInv ==
    /\ account \in SfAccounts /\ GrantsSound
    /\ DOMAIN sfReport = SfFields /\ sfStage \in SfStages
    /\ sfJobs \in {{}, QueryHistory} /\ JobHistory
    /\ Inventory

LEMMA SfTell == SfInv => SnowflakeReportHonest
BY InventoryTold, HistoryTold DEF SfInv, SnowflakeReportHonest

LEMMA SfStarts == SnowflakeInit => SfInv
<1> SUFFICES ASSUME SnowflakeInit PROVE SfInv
  OBVIOUS
<1>1. account \in SfAccounts /\ GrantsSound
  BY DEF SnowflakeInit, GrantsSound
<1>2. DOMAIN sfReport = SfFields /\ sfStage = "warehouses" /\ sfJobs = {}
  BY DEF SnowflakeInit, SfFields
<1> QED
  BY <1>1, <1>2 DEF SfInv, SfStages, JobHistory, Inventory

\* What follows from the account and the grants stays as they do.
LEMMA AccountKept ==
    ASSUME account' = account, grants' = grants
    PROVE  /\ QueryHistory' = QueryHistory /\ GrantsSound' = GrantsSound
           /\ ShownDatabases' = ShownDatabases /\ CountedRows' = CountedRows /\ Listed' = Listed
           /\ \A families : ShownRows(families)' = ShownRows(families)
<1>1. InReach' = InReach
  BY DEF InReach, UserObjects
<1>2. ShownDatabases' = ShownDatabases
  BY DEF ShownDatabases
<1>3. \A d : CountedRow(d)' = CountedRow(d)
  BY DEF CountedRow, SchemasOf, SchemasShown
<1> QED
  BY <1>1, <1>2, <1>3 DEF QueryHistory, InLookback, NewerThan, GrantsSound, CountedRows, Listed, ShownRows

\* A step that leaves the jobs alone.
LEMMA JobsKept ==
    ASSUME SfInv, account' = account, grants' = grants, sfJobs' = sfJobs,
           sfStage' \in {"usage", "finalise", "reported"} => sfStage \in {"usage", "finalise", "reported"},
           sfErrors \subseteq sfErrors'
    PROVE  account' \in SfAccounts /\ GrantsSound' /\ sfJobs' \in {{}, QueryHistory'} /\ JobHistory'
<1>1. QueryHistory' = QueryHistory /\ GrantsSound' = GrantsSound
  BY AccountKept
<1> QED
  BY <1>1 DEF SfInv, JobHistory

LEMMA WarehousesStep == ASSUME SfInv, NEW failed \in BOOLEAN, ShowWarehouses(failed) PROVE SfInv'
<1>1. /\ sfStage' = "databases" /\ sfErrors \subseteq sfErrors'
      /\ account' = account /\ grants' = grants /\ sfJobs' = sfJobs
  BY DEF ShowWarehouses
<1>2. DOMAIN sfReport' = SfFields
  BY DEF ShowWarehouses, SfInv
<1>3. account' \in SfAccounts /\ GrantsSound' /\ sfJobs' \in {{}, QueryHistory'} /\ JobHistory'
  BY <1>1, JobsKept
<1>4. Inventory'
  BY <1>1 DEF Inventory
<1> QED
  BY <1>1, <1>2, <1>3, <1>4 DEF SfInv, SfStages

LEMMA DatabasesStep == ASSUME SfInv, NEW failed \in BOOLEAN, ShowDatabases(failed) PROVE SfInv'
<1>1. /\ sfStage' = "schemas" /\ sfErrors \subseteq sfErrors'
      /\ account' = account /\ grants' = grants /\ sfJobs' = sfJobs
  BY DEF ShowDatabases
<1>2. DOMAIN sfReport' = SfFields
  BY DEF ShowDatabases, SfInv
<1>3. account' \in SfAccounts /\ GrantsSound' /\ sfJobs' \in {{}, QueryHistory'} /\ JobHistory'
  BY <1>1, JobsKept
<1>4. ASSUME Clean'
      PROVE  sfReport'.databases = {DatabaseRow(d) : d \in ShownDatabases}
  <2>1. sfErrors' = {}
    BY <1>4 DEF Clean
  <2>2. ~ failed
    BY <2>1 DEF ShowDatabases
  <2>3. "databases" \in DOMAIN sfReport
    BY DEF SfInv, SfFields
  <2> QED
    BY <2>2, <2>3 DEF ShowDatabases, ShownDatabases
<1>5. Inventory'
  BY <1>1, <1>4, AccountKept DEF Inventory
<1> QED
  BY <1>1, <1>2, <1>3, <1>5 DEF SfInv, SfStages

\* SHOW SCHEMAS in the databases it is asked of, with no error.
PlainRows == {DatabaseRow(d) : d \in ShownDatabases}
AskedOf(D) == {d \in D : grants.system \/ d.name \notin SystemDatabases}
SchemasIn(read) == UNION {SchemasShown(d.name) : d \in read}
CountsIn(D, read) == {IF d \in read THEN [d EXCEPT !.schemas = Cardinality(SchemasShown(d.name))] ELSE d : d \in D}
LEMMA SchemasRead ==
    ASSUME GrantsSound
    PROVE  SchemasIn(AskedOf(PlainRows)) = Listed /\ CountsIn(PlainRows, AskedOf(PlainRows)) = CountedRows
<1> DEFINE read == AskedOf(PlainRows)
<1>1. \A d : DatabaseRow(d).name = d.name
  BY DEF DatabaseRow
<1>2. \A d \in ShownDatabases : DatabaseRow(d) \in read <=> (grants.system \/ d.name \notin SystemDatabases)
  BY <1>1 DEF AskedOf, PlainRows
<1>3. SchemasIn(read) = Listed
  <2>1. ASSUME NEW o \in InReach
        PROVE  \E d \in read : <<o.db, o.schema>> \in SchemasShown(d.name)
    <3>1. o \in account.objects /\ o.db \in grants.used /\ (grants.system \/ o.db \notin SystemDatabases)
      BY DEF InReach, UserObjects
    <3>2. PICK d \in ShownDatabases : d.name = o.db
      BY <3>1 DEF GrantsSound, ShownDatabases
    <3>3. DatabaseRow(d) \in read /\ DatabaseRow(d).name = o.db
      BY <1>1, <1>2, <3>1, <3>2
    <3>4. <<o.db, o.schema>> \in SchemasShown(o.db)
      BY <3>1 DEF SchemasShown
    <3> QED
      BY <3>3, <3>4
  <2>2. ASSUME NEW d \in read, NEW s \in SchemasShown(d.name)
        PROVE  s \in Listed
    <3>1. PICK o \in account.objects : s = <<o.db, o.schema>> /\ o.db = d.name /\ d.name \in grants.used
      BY DEF SchemasShown
    <3>2. grants.system \/ o.db \notin SystemDatabases
      BY <3>1 DEF AskedOf
    <3> QED
      BY <3>1, <3>2 DEF Listed, InReach, UserObjects
  <2> HIDE DEF read
  <2> QED
    BY <2>1, <2>2 DEF Listed, SchemasIn
<1>4. ASSUME NEW d \in ShownDatabases
      PROVE  (IF DatabaseRow(d) \in read THEN [DatabaseRow(d) EXCEPT !.schemas = Cardinality(SchemasShown(DatabaseRow(d).name))]
              ELSE DatabaseRow(d)) = CountedRow(d)
  <2>1. CASE DatabaseRow(d) \in read
    <3>1. SchemasOf(d.name) = SchemasShown(d.name)
      BY <1>2, <2>1 DEF SchemasOf
    <3> QED
      BY <1>1, <2>1, <3>1 DEF CountedRow, DatabaseRow
  <2>2. CASE DatabaseRow(d) \notin read
    <3>1. SchemasOf(d.name) = {} /\ Cardinality({}) = 0
      BY <1>2, <2>2, FS_EmptySet DEF SchemasOf
    <3> QED
      BY <2>2, <3>1 DEF CountedRow, DatabaseRow
  <2> QED
    BY <2>1, <2>2
<1>5. CountsIn(PlainRows, read) = CountedRows
  <2> DEFINE F(d) == IF d \in read THEN [d EXCEPT !.schemas = Cardinality(SchemasShown(d.name))] ELSE d
  <2>1. \A d \in ShownDatabases : F(DatabaseRow(d)) = CountedRow(d)
    BY <1>4
  <2> HIDE DEF F
  <2>2. {F(d) : d \in PlainRows} = {CountedRow(d) : d \in ShownDatabases}
    BY <2>1 DEF PlainRows
  <2>3. CountsIn(PlainRows, read) = {F(d) : d \in PlainRows}
    BY DEF CountsIn, F
  <2> QED
    BY <2>2, <2>3 DEF CountedRows
<1> QED
  BY <1>3, <1>5

LEMMA SchemasStep == ASSUME SfInv, NEW bad, ShowSchemas(bad) PROVE SfInv'
<1>1. /\ sfStage = "schemas" /\ sfStage' = "objects" /\ sfErrors \subseteq sfErrors'
      /\ account' = account /\ grants' = grants /\ sfJobs' = sfJobs /\ caveats' = caveats
  BY DEF ShowSchemas
<1>2. DOMAIN sfReport' = SfFields
  BY DEF ShowSchemas, SfInv
<1>3. account' \in SfAccounts /\ GrantsSound' /\ sfJobs' \in {{}, QueryHistory'} /\ JobHistory'
  BY <1>1, JobsKept
<1>4. ASSUME Clean'
      PROVE  sfReport'.databases = CountedRows /\ sfReport'.schemas = Listed
  <2> DEFINE D == sfReport.databases
             asked == {d \in D : grants.system \/ d.name \notin SystemDatabases}
             read == {d \in asked : d.name \notin bad}
  <2>1. sfErrors' = {} /\ Clean
    BY <1>1, <1>4 DEF Clean
  <2>2. bad = {}
    BY <2>1 DEF ShowSchemas
  <2>3. read = asked
    BY <2>2
  <2>4. D = PlainRows
    BY <1>1, <2>1 DEF SfInv, Inventory, PlainRows
  <2>5. sfReport' = [sfReport EXCEPT !.schemas = SchemasIn(read), !.databases = CountsIn(@, read)]
    BY DEF ShowSchemas, SchemasIn, CountsIn
  <2>6. "databases" \in DOMAIN sfReport /\ "schemas" \in DOMAIN sfReport
    BY DEF SfInv, SfFields
  <2>7. sfReport'.schemas = SchemasIn(read) /\ sfReport'.databases = CountsIn(D, read)
    <3> HIDE DEF read
    <3> QED
      BY <2>5, <2>6
  <2>8. read = AskedOf(PlainRows) /\ GrantsSound
    <3>1. asked = AskedOf(D)
      BY DEF AskedOf
    <3> QED
      BY <2>3, <2>4, <3>1 DEF SfInv
  <2> HIDE DEF D, read, asked
  <2> QED
    BY <2>4, <2>7, <2>8, SchemasRead
<1>5. Inventory'
  BY <1>1, <1>4, AccountKept DEF Inventory
<1> QED
  BY <1>1, <1>2, <1>3, <1>5 DEF SfInv, SfStages

LEMMA ObjectsStep == ASSUME SfInv, NEW bad, CollectSchemaObjects(bad) PROVE SfInv'
<1>1. /\ sfStage = "objects" /\ sfStage' = "fallback" /\ sfErrors' = sfErrors \cup bad
      /\ account' = account /\ grants' = grants /\ sfJobs' = sfJobs /\ caveats' = caveats
  BY DEF CollectSchemaObjects
<1> DEFINE listed(families) == {ShowRow(o) : o \in {x \in account.objects :
        /\ x.family \in families /\ <<x.db, x.schema>> \in sfReport.schemas
        /\ <<x.db, x.schema, x.family>> \notin bad}}
<1>2. sfReport' = [sfReport EXCEPT !.tables = listed(TableFamilies), !.routines = listed(RoutineFamilies), !.others = listed(OtherFamilies)]
  BY DEF CollectSchemaObjects, TableFamilies, RoutineFamilies, OtherFamilies
<1>3. DOMAIN sfReport = SfFields /\ DOMAIN sfReport' = SfFields
  BY <1>2 DEF SfInv
<1>4. account' \in SfAccounts /\ GrantsSound' /\ sfJobs' \in {{}, QueryHistory'} /\ JobHistory'
  BY <1>1, JobsKept
<1>5. ASSUME Clean'
      PROVE  /\ sfReport'.databases = CountedRows /\ sfReport'.schemas = Listed
             /\ sfReport'.tables = ShownRows(TableFamilies) /\ sfReport'.routines = ShownRows(RoutineFamilies)
             /\ sfReport'.others = ShownRows(OtherFamilies)
  <2>1. Clean /\ bad = {}
    BY <1>1, <1>5 DEF Clean
  <2>2. sfReport.databases = CountedRows /\ sfReport.schemas = Listed
    BY <1>1, <2>1 DEF SfInv, Inventory
  <2>3. ASSUME NEW families
        PROVE  listed(families) = ShownRows(families)
    <3>1. \A x \in account.objects : <<x.db, x.schema>> \in Listed <=> x \in InReach
      BY DEF Listed, InReach, UserObjects
    <3>2. InReach \subseteq account.objects
      BY DEF InReach, UserObjects
    <3>3. {x \in account.objects : /\ x.family \in families /\ <<x.db, x.schema>> \in sfReport.schemas
             /\ <<x.db, x.schema, x.family>> \notin bad} = {x \in InReach : x.family \in families}
      BY <2>1, <2>2, <3>1, <3>2
    <3> QED
      BY <3>3 DEF ShownRows
  <2>4. /\ sfReport'.tables = listed(TableFamilies) /\ sfReport'.routines = listed(RoutineFamilies)
        /\ sfReport'.others = listed(OtherFamilies)
        /\ sfReport'.databases = sfReport.databases /\ sfReport'.schemas = sfReport.schemas
    <3> HIDE DEF listed
    <3> QED
      BY <1>2, <1>3 DEF SfFields
  <2> HIDE DEF listed
  <2> QED
    BY <2>2, <2>3, <2>4
<1>6. Inventory'
  BY <1>1, <1>5, AccountKept DEF Inventory
<1> QED
  BY <1>1, <1>3, <1>4, <1>6 DEF SfInv, SfStages

LEMMA SkipStep == ASSUME SfInv, SkipFallback PROVE SfInv'
<1>1. /\ sfStage = "fallback" /\ sfStage' = "jobs" /\ sfErrors' = sfErrors /\ sfReport' = sfReport
      /\ account' = account /\ grants' = grants /\ sfJobs' = sfJobs /\ caveats' = caveats
  BY DEF SkipFallback
<1>2. sfReport.tables # {}
  BY DEF SkipFallback, NeedsFallback
<1>3. account' \in SfAccounts /\ GrantsSound' /\ sfJobs' \in {{}, QueryHistory'} /\ JobHistory'
  BY <1>1, JobsKept
<1>4. Inventory'
  BY <1>1, <1>2, AccountKept DEF Inventory, Clean, SfInv
<1> QED
  BY <1>1, <1>3, <1>4 DEF SfInv, SfStages

LEMMA FallbackStep == ASSUME SfInv, NEW lost, UseFallback(lost) PROVE SfInv'
<1>1. /\ sfStage = "fallback" /\ sfStage' = "jobs" /\ sfErrors \subseteq sfErrors'
      /\ account' = account /\ grants' = grants /\ sfJobs' = sfJobs /\ "latency" \in caveats'
  BY DEF UseFallback
<1>2. DOMAIN sfReport' = SfFields
  BY DEF UseFallback, SfInv
<1>3. account' \in SfAccounts /\ GrantsSound' /\ sfJobs' \in {{}, QueryHistory'} /\ JobHistory'
  BY <1>1, JobsKept
<1>4. Inventory'
  BY <1>1 DEF Inventory, Clean
<1> QED
  BY <1>1, <1>2, <1>3, <1>4 DEF SfInv, SfStages

\* The later stages leave the inventory alone.
LEMMA InventoryKept ==
    ASSUME SfInv, account' = account, grants' = grants,
           sfStage \in {"jobs", "usage", "finalise", "reported"}, sfStage' \in {"jobs", "usage", "finalise", "reported"},
           sfErrors \subseteq sfErrors', caveats \subseteq caveats',
           sfReport'.databases = sfReport.databases, sfReport'.schemas = sfReport.schemas, sfReport'.tables = sfReport.tables,
           sfReport'.routines = sfReport.routines, sfReport'.others = sfReport.others
    PROVE  Inventory'
<1>1. Clean' => Clean
  BY DEF Clean
<1> QED
  BY <1>1, AccountKept DEF Inventory, SfInv

LEMMA JobsStep == ASSUME SfInv, NEW failed \in BOOLEAN, CollectJobs(failed) PROVE SfInv'
<1>1. /\ sfStage = "jobs" /\ sfStage' \in {"usage", "finalise"} /\ sfErrors \subseteq sfErrors' /\ caveats \subseteq caveats'
      /\ account' = account /\ grants' = grants /\ sfReport' = sfReport
  BY DEF CollectJobs
<1>2. sfJobs' \in {{}, QueryHistory}
  BY DEF CollectJobs
<1>3. grants.imported /\ <<"lost", "jobs">> \notin sfErrors' => sfJobs' = QueryHistory
  BY DEF CollectJobs
<1>4. Inventory'
  BY <1>1, InventoryKept
<1> QED
  BY <1>1, <1>2, <1>3, <1>4, AccountKept DEF SfInv, SfStages, JobHistory

LEMMA UsageStep == ASSUME SfInv, NEW failed \in BOOLEAN, CollectTableUsage(failed) PROVE SfInv'
<1> DEFINE access == IF failed THEN <<>> ELSE AccessHistory
<1>1. /\ sfStage = "usage" /\ sfStage' = "finalise" /\ sfErrors' = sfErrors /\ caveats \subseteq caveats'
      /\ account' = account /\ grants' = grants /\ sfJobs' = sfJobs
      /\ sfReport' = [sfReport EXCEPT !.usage = TableUsage(access)]
  BY DEF CollectTableUsage
<1> HIDE DEF access
<1>2. DOMAIN sfReport = SfFields
  BY DEF SfInv
<1>3. /\ DOMAIN sfReport' = SfFields
      /\ sfReport'.databases = sfReport.databases /\ sfReport'.schemas = sfReport.schemas /\ sfReport'.tables = sfReport.tables
      /\ sfReport'.routines = sfReport.routines /\ sfReport'.others = sfReport.others
  BY <1>1, <1>2 DEF SfFields
<1>4. Inventory'
  BY <1>1, <1>3, InventoryKept
<1>5. account' \in SfAccounts /\ GrantsSound' /\ sfJobs' \in {{}, QueryHistory'} /\ JobHistory'
  BY <1>1, JobsKept
<1> QED
  BY <1>1, <1>3, <1>4, <1>5 DEF SfInv, SfStages

LEMMA FinaliseStep == ASSUME SfInv, Finalise PROVE SfInv'
<1>1. /\ sfStage = "finalise" /\ sfStage' = "reported" /\ sfErrors' = sfErrors /\ caveats \subseteq caveats'
      /\ account' = account /\ grants' = grants /\ sfJobs' = sfJobs /\ sfReport' = sfReport
  BY DEF Finalise
<1>2. Inventory'
  BY <1>1, InventoryKept
<1>3. account' \in SfAccounts /\ GrantsSound' /\ sfJobs' \in {{}, QueryHistory'} /\ JobHistory'
  BY <1>1, JobsKept
<1> QED
  BY <1>1, <1>2, <1>3 DEF SfInv, SfStages

LEMMA SfStutter == ASSUME SfInv, UNCHANGED sfVars PROVE SfInv'
<1>1. /\ account' = account /\ grants' = grants /\ sfReport' = sfReport /\ sfJobs' = sfJobs
      /\ sfErrors' = sfErrors /\ caveats' = caveats /\ sfStage' = sfStage
  BY DEF sfVars
<1>2. account' \in SfAccounts /\ GrantsSound' /\ sfJobs' \in {{}, QueryHistory'} /\ JobHistory'
  BY <1>1, JobsKept
<1>3. Inventory'
  BY <1>1, AccountKept DEF Inventory, Clean, SfInv
<1> QED
  BY <1>1, <1>2, <1>3 DEF SfInv

LEMMA SfStep == SfInv /\ [SnowflakeNext]_sfVars => SfInv'
<1> SUFFICES ASSUME SfInv, [SnowflakeNext]_sfVars PROVE SfInv'
  OBVIOUS
<1>1. CASE UNCHANGED sfVars
  BY <1>1, SfStutter
<1>2. ASSUME NEW failed \in BOOLEAN, ShowWarehouses(failed) \/ ShowDatabases(failed) \/ CollectJobs(failed) \/ CollectTableUsage(failed)
      PROVE  SfInv'
  BY <1>2, WarehousesStep, DatabasesStep, JobsStep, UsageStep
<1>3. ASSUME NEW bad, ShowSchemas(bad) \/ CollectSchemaObjects(bad)
      PROVE  SfInv'
  BY <1>3, SchemasStep, ObjectsStep
<1>4. ASSUME NEW lost, UseFallback(lost)
      PROVE  SfInv'
  BY <1>4, FallbackStep
<1>5. CASE SkipFallback \/ Finalise
  BY <1>5, SkipStep, FinaliseStep
<1>6. CASE SnowflakeNext
  <2>1. CASE \E failed \in BOOLEAN : \/ ShowWarehouses(failed) \/ ShowDatabases(failed)
                                      \/ CollectJobs(failed) \/ CollectTableUsage(failed)
    BY <1>2, <2>1
  <2>2. CASE \/ \E bad \in FailureSets({d.name : d \in sfReport.databases}) : ShowSchemas(bad)
             \/ \E bad \in FailureSets(SchemaStatements) : CollectSchemaObjects(bad)
    BY <1>3, <2>2
  <2>3. CASE \E lost \in FailureSets(AuQueries \cup {"databases"}) : UseFallback(lost)
    BY <1>4, <2>3
  <2> QED
    BY <1>5, <1>6, <2>1, <2>2, <2>3 DEF SnowflakeNext
<1> QED
  BY <1>1, <1>6

\* A Snowflake report with neither an error nor a caveat holds every object of the
\* databases the role may use and is not empty, and where look-back and limit reach
\* the windows count every query that ended in them (snowflake_workloads/analyzer.py, run).
THEOREM SnowflakeIsHonest == SnowflakeSpec => []SnowflakeReportHonest
<1>1. SnowflakeInit => SfInv
  BY SfStarts
<1>2. SfInv /\ [SnowflakeNext]_sfVars => SfInv'
  BY SfStep
<1>3. SfInv => SnowflakeReportHonest
  BY SfTell
<1> QED
  BY <1>1, <1>2, <1>3, PTL DEF SnowflakeSpec

(***************************************************************************)
(* Spark.  A run goes through ticks, and what it uses of a span is its     *)
(* vCores times the ticks of the span it goes through; a record kept by a  *)
(* pool's thread stands for one run the server lists, seen as it was.      *)
(***************************************************************************)
\* The strings, those of the model spelt out for the provers.
Word == STRING \cup {"none", "running", "dead", "succeeded"}
SparkRecord == [pool : PoolNames, kind : Kinds, endpoint : Endpoints, id : Int, app : Word,
                from : Int, to : Int, outcome : {"succeeded", "failed", "in_progress"}, vcores : Nat]

\* Where a run's interval ends for the window, and the ticks it runs through.
Clip(r) == IF r.to = NoTime THEN ObservationEnd ELSE Lower(r.to, ObservationEnd)
Ticks(r, a, b) == {t \in a..(b - 1) : Running(r, t)}

\* The sum of a function over its domain.
LEMMA SparkSumIs == ASSUME NEW f, NEW S, DOMAIN f = S PROVE SparkSum(f) = Total(f, S)
BY Zenon DEF SparkSum, Total

\* A set of numbers has a least one.
LEMMA LeastNumber == ASSUME NEW S, S \subseteq Nat, S # {} PROVE \E n \in S : \A m \in S : n <= m
<1>1. PICK p \in S : \A q \in S : ~(<<q, p>> \in OpToRel(<, Nat))
  BY NatLessThanWellFounded, WFMin
<1>2. ASSUME NEW q \in S PROVE p <= q
  <2>1. q \in Nat /\ p \in Nat
    OBVIOUS
  <2>2. ~(q < p)
    BY <1>1, <2>1, <<q, p>> \in Nat \X Nat DEF OpToRel
  <2> QED
    BY <2>1, <2>2
<1> QED
  BY <1>2

\* A span has finitely many ticks.
LEMMA TicksFinite == ASSUME NEW r, NEW a \in Int, NEW b \in Int
    PROVE IsFiniteSet(Ticks(r, a, b)) /\ Cardinality(Ticks(r, a, b)) \in Nat
<1>1. IsFiniteSet(a..(b - 1))
  BY FS_Interval
<1>2. Ticks(r, a, b) \subseteq a..(b - 1)
  BY DEF Ticks
<1> QED
  BY <1>1, <1>2, FS_Subset, FS_CardinalityType

\* The size of an interval of ticks.
LEMMA IntervalSize == ASSUME NEW a \in Int, NEW b \in Int
    PROVE Cardinality(a..(b - 1)) = IF b <= a THEN 0 ELSE b - a
<1>1. Cardinality(a..(b - 1)) = IF a > b - 1 THEN 0 ELSE b - 1 - a + 1
  BY FS_Interval
<1> QED
  BY <1>1

\* The times of the window, as multiples of the length of a day.
LEMMA Products ==
    /\ DayLength \in Nat \ {0}
    /\ \A x \in Int : x * DayLength \in Int
    /\ \A x, y \in Int : x <= y <=> x * DayLength <= y * DayLength
    /\ \A x, y \in Int : x < y <=> x * DayLength < y * DayLength
    /\ \A x, y \in Int : (x + y) * DayLength = x * DayLength + y * DayLength
    /\ \A x, y \in Int : (x - y) * DayLength = x * DayLength - y * DayLength
<1>1. DayLength \in Nat \ {0}
  BY SparkAssumption
<1>2. \A n \in Nat : n * DayLength \in Nat
  BY <1>1
<1>3. \A x, y \in Int : (x - y) * DayLength = x * DayLength - y * DayLength /\ x * DayLength \in Int
  BY <1>1
<1>4. \A x, y \in Int : (x + y) * DayLength = x * DayLength + y * DayLength
  BY <1>1
<1>5. \A x, y \in Int : x <= y => x * DayLength <= y * DayLength
  <2> TAKE x, y \in Int
  <2> HAVE x <= y
  <2>1. (y - x) * DayLength \in Nat
    BY <1>2
  <2>2. (y - x) * DayLength = y * DayLength - x * DayLength /\ x * DayLength \in Int /\ y * DayLength \in Int
    BY <1>3
  <2> QED
    BY <2>1, <2>2
<1>6. \A x, y \in Int : x < y => x * DayLength < y * DayLength
  <2> TAKE x, y \in Int
  <2> HAVE x < y
  <2>1. (x + 1) * DayLength <= y * DayLength
    BY <1>5
  <2>2. (x + 1) * DayLength = x * DayLength + DayLength
    BY <1>1
  <2> QED
    BY <1>1, <1>3, <2>1, <2>2
<1>7. \A x, y \in Int : (x <= y <=> x * DayLength <= y * DayLength) /\ (x < y <=> x * DayLength < y * DayLength)
  <2> TAKE x, y \in Int
  <2>1. x * DayLength \in Int /\ y * DayLength \in Int
    BY <1>3
  <2> DEFINE m == x * DayLength
             n == y * DayLength
  <2>2. (x <= y => m <= n) /\ (x < y => m < n) /\ (y <= x => n <= m) /\ (y < x => n < m)
    BY <1>5, <1>6
  <2> HIDE DEF m, n
  <2>3. m \in Int /\ n \in Int
    BY <2>1 DEF m, n
  <2>4. (x <= y <=> m <= n) /\ (x < y <=> m < n)
    BY <2>2, <2>3
  <2> QED
    BY <2>4 DEF m, n
<1>8. \A x \in Int : x * DayLength \in Int
  BY <1>3
<1>9. \A x, y \in Int : (x - y) * DayLength = x * DayLength - y * DayLength
  BY <1>3
<1> QED
  BY <1>1, <1>4, <1>7, <1>8, <1>9

\* The day of a tick.
LEMMA DayOfTick == ASSUME NEW t \in Int
    PROVE /\ t \div DayLength \in Int
          /\ DayStart(t \div DayLength) <= t /\ t < DayStart((t \div DayLength) + 1)
          /\ \A d \in Int : DayStart(d) <= t /\ t < DayStart(d + 1) => d = t \div DayLength
<1>1. DayLength \in Nat \ {0}
  BY SparkAssumption
<1>2. t \div DayLength \in Int /\ t % DayLength \in 0..(DayLength - 1)
      /\ t = DayLength * (t \div DayLength) + (t % DayLength)
  BY <1>1
<1> DEFINE q == t \div DayLength
<1> HIDE DEF q
<1>3. q \in Int /\ q * DayLength <= t /\ t < q * DayLength + DayLength
  BY <1>1, <1>2 DEF q
<1>4. (q + 1) * DayLength = q * DayLength + DayLength
  BY <1>1, <1>3
<1>5. ASSUME NEW d \in Int, DayStart(d) <= t, t < DayStart(d + 1)
      PROVE  d = q
  <2>1. d * DayLength < (q + 1) * DayLength /\ q * DayLength < (d + 1) * DayLength
    <3>1. d * DayLength \in Int /\ (d + 1) * DayLength \in Int /\ q * DayLength \in Int
      BY <1>3, Products
    <3> QED
      BY <1>1, <1>3, <1>4, <1>5, <3>1 DEF DayStart
  <2>2. d < q + 1 /\ q < d + 1
    BY <1>3, <2>1, Products
  <2> QED
    BY <1>3, <2>2
<1> QED
  BY <1>3, <1>4, <1>5 DEF DayStart, q

\* The window ends at the midnight before its collection, at a whole number of days.
LEMMA WindowEnds ==
    /\ ObservationEnd \in Int /\ ObservationEnd <= CollectionEnd /\ CollectionEnd \in Int
    /\ \E q \in Int : ObservationEnd = DayStart(q) /\ q = ObservationEnd \div DayLength
    /\ ObservationStart \in Int /\ Days \in Nat \ {0} /\ ObservationStart = ObservationEnd - Days * DayLength
<1>1. CollectionEnd \in Int /\ Days \in Nat \ {0}
  BY SparkAssumption DEF CollectionEnd
<1> DEFINE q == CollectionEnd \div DayLength
<1>2. q \in Int /\ DayStart(q) <= CollectionEnd /\ DayStart(q) \in Int
  BY <1>1, DayOfTick, Products DEF DayStart
<1>3. ObservationEnd = DayStart(q)
  BY DEF ObservationEnd, DayStart
<1>4. DayStart(q) < DayStart(q + 1)
  <2>1. q < q + 1 /\ q + 1 \in Int
    BY <1>2
  <2> HIDE DEF q
  <2> QED
    BY <1>2, <2>1, Products DEF DayStart
<1>5. q = ObservationEnd \div DayLength
  <2> HIDE DEF q
  <2> QED
    BY <1>2, <1>3, <1>4, DayOfTick
<1>6. Days * DayLength \in Int
  BY <1>1, Products
<1> HIDE DEF q
<1> QED
  BY <1>1, <1>2, <1>3, <1>5, <1>6 DEF ObservationStart

\* The usage of a day is the vCores times the ticks of it the run went through.
LEMMA DayUsage ==
    ASSUME NEW r \in SparkRecord, r.from # NoTime, Known(r, ObservationEnd),
           NEW d \in Int, DayStart(d + 1) <= ObservationEnd
    PROVE  IntervalUsage(r, DayStart(d), DayStart(d + 1)) = r.vcores * Cardinality(Ticks(r, DayStart(d), DayStart(d + 1)))
<1> DEFINE a == DayStart(d)
           b == DayStart(d + 1)
           start == Upper(a, r.from)
           end == Lower(b, IntervalEnd(r, b))
<1>1. a \in Int /\ b \in Int /\ b <= ObservationEnd
  BY Products DEF DayStart
<1> HIDE DEF a, b
<1>2. r.from \in Int /\ r.to \in Int /\ r.vcores \in Nat
  BY DEF SparkRecord
<1>3. IntervalEnd(r, b) = IF r.to # NoTime THEN r.to ELSE b
  BY DEF Known, IntervalEnd
<1>4. start \in Int /\ end \in Int
  BY <1>1, <1>2, <1>3 DEF Upper, Lower
<1>5. Ticks(r, a, b) = start..(end - 1)
  BY <1>1, <1>2, <1>3, <1>4 DEF Ticks, Running, Upper, Lower
<1>6. IntervalUsage(r, a, b) = IF end <= start THEN 0 ELSE r.vcores * (end - start)
  BY DEF IntervalUsage
<1> HIDE DEF start, end
<1>7. Cardinality(Ticks(r, a, b)) = IF end <= start THEN 0 ELSE end - start
  BY <1>4, <1>5, IntervalSize
<1> QED
  BY <1>2, <1>4, <1>6, <1>7 DEF a, b

\* A tick of the window a run goes through is in a day it touches.
LEMMA TouchedBy ==
    ASSUME NEW from \in Int, NEW to \in Int, NEW t \in Int, from <= t, t < to
    PROVE  t \div DayLength \in DaysIntersecting(from, to)
<1> DEFINE q(x) == x \div DayLength
<1>1. to - 1 \in Int /\ t <= to - 1 /\ ~ to <= from
  OBVIOUS
<1>2. ASSUME NEW x \in Int, NEW y \in Int, x <= y
      PROVE  q(x) \in Int /\ q(y) \in Int /\ q(x) <= q(y)
  <2> DEFINE m == q(x)
             n == q(y)
  <2>1. m \in Int /\ DayStart(m) <= x /\ n \in Int /\ y < DayStart(n + 1)
    BY DayOfTick
  <2> HIDE DEF m, n
  <2>2. n + 1 \in Int /\ DayStart(m) \in Int /\ DayStart(n + 1) \in Int
    BY <2>1, Products DEF DayStart
  <2>3. DayStart(m) < DayStart(n + 1)
    BY <1>2, <2>1, <2>2
  <2>4. m < n + 1
    BY <2>1, <2>2, <2>3, Products DEF DayStart
  <2> QED
    BY <2>1, <2>4 DEF m, n
<1>3. q(from) <= q(t) /\ q(t) <= q(to - 1) /\ q(from) \in Int /\ q(t) \in Int /\ q(to - 1) \in Int
  BY <1>1, <1>2
<1> QED
  BY <1>1, <1>3 DEF DaysIntersecting

\* Whole days that a run touches between two midnights lie between them.
LEMMA TouchedWithin ==
    ASSUME NEW m \in Int, NEW n \in Int, NEW from \in Int, NEW to \in Int,
           DayStart(m) <= from, to <= DayStart(n), NEW d \in DaysIntersecting(from, to)
    PROVE  /\ d \in Int /\ m <= d /\ d < n
           /\ DayStart(m) <= DayStart(d) /\ DayStart(d + 1) <= DayStart(n)
<1> DEFINE lo == from \div DayLength
           hi == (to - 1) \div DayLength
<1>1. from < to /\ to - 1 \in Int /\ d \in lo..hi
  BY DEF DaysIntersecting
<1>2. lo \in Int /\ from < DayStart(lo + 1) /\ hi \in Int /\ DayStart(hi) <= to - 1
  BY <1>1, DayOfTick
<1> HIDE DEF lo, hi
<1>3. d \in Int /\ lo <= d /\ d <= hi
  BY <1>1, <1>2
<1>4. DayStart(m) \in Int /\ DayStart(n) \in Int /\ DayStart(lo + 1) \in Int /\ DayStart(hi) \in Int
  BY <1>2, Products DEF DayStart
<1>5. DayStart(m) < DayStart(lo + 1) /\ DayStart(hi) < DayStart(n)
  BY <1>1, <1>2, <1>4
<1>6. m < lo + 1 /\ hi < n
  BY <1>2, <1>5, Products DEF DayStart
<1>7. m <= d /\ d + 1 <= n /\ d + 1 \in Int
  BY <1>2, <1>3, <1>6
<1> QED
  BY <1>3, <1>7, Products DEF DayStart

\* The days of a window, one by one, are the ticks of the window, one by one.
LEMMA WindowMeasured ==
    ASSUME NEW r \in SparkRecord, r.from # NoTime, Known(r, ObservationEnd), NEW w \in Int
    PROVE  WindowUsage(r, w)
             = r.vcores * Cardinality(Ticks(r, ObservationEnd - w * DayLength, ObservationEnd))
<1> DEFINE cutoff == ObservationEnd - w * DayLength
           from == Upper(cutoff, r.from)
           to == Lower(ObservationEnd, IntervalEnd(r, ObservationEnd))
           K == DaysIntersecting(from, to)
           R == Ticks(r, cutoff, ObservationEnd)
           f == [d \in K |-> IntervalUsage(r, DayStart(d), DayStart(d + 1))]
           g == [d \in K |-> Cardinality(Ticks(r, DayStart(d), DayStart(d + 1)))]
           one == [t \in R |-> 1]
           key == [t \in R |-> t \div DayLength]
<1>1. PICK q \in Int : ObservationEnd = DayStart(q)
  BY WindowEnds
<1>2. cutoff = DayStart(q - w) /\ q - w \in Int /\ ObservationEnd \in Int /\ cutoff \in Int
  BY <1>1, Products DEF DayStart
<1>3. r.from \in Int /\ r.to \in Int /\ r.vcores \in Nat
  BY DEF SparkRecord
<1>4. IntervalEnd(r, ObservationEnd) = IF r.to # NoTime THEN r.to ELSE ObservationEnd
  BY DEF Known, IntervalEnd
<1>5. from \in Int /\ to \in Int /\ cutoff <= from /\ to <= ObservationEnd
  BY <1>2, <1>3, <1>4 DEF Upper, Lower
<1>6. \A t \in R : t \in Int /\ from <= t /\ t < to /\ cutoff <= t /\ t < ObservationEnd
  BY <1>2, <1>3, <1>4 DEF Upper, Lower, Ticks, Running
<1>7. WindowUsage(r, w) = SparkSum(f)
  BY Zenon DEF WindowUsage
<1> HIDE DEF cutoff, from, to
<1>8. \A d \in K : d \in Int /\ cutoff <= DayStart(d) /\ DayStart(d + 1) <= ObservationEnd
  BY <1>1, <1>2, <1>5, TouchedWithin
<1>9. IsFiniteSet(K)
  <2>1. CASE to <= from
    BY <2>1, FS_EmptySet DEF DaysIntersecting
  <2>2. CASE ~ to <= from
    <3>1. from \div DayLength \in Int /\ (to - 1) \div DayLength \in Int
      BY <1>5, DayOfTick
    <3> QED
      BY <2>2, <3>1, FS_Interval DEF DaysIntersecting
  <2> QED
    BY <2>1, <2>2
<1>10. \A d \in K : f[d] = r.vcores * g[d] /\ g[d] \in Int
  <2> TAKE d \in K
  <2>1. d \in Int /\ DayStart(d + 1) <= ObservationEnd
    BY <1>8
  <2>2. DayStart(d) \in Int /\ DayStart(d + 1) \in Int
    BY <2>1, Products DEF DayStart
  <2>3. IntervalUsage(r, DayStart(d), DayStart(d + 1)) = r.vcores * Cardinality(Ticks(r, DayStart(d), DayStart(d + 1)))
    BY <2>1, DayUsage
  <2> QED
    BY <2>2, <2>3, TicksFinite
<1>11. \A t \in R : key[t] \in K
  BY <1>5, <1>6, TouchedBy
<1>12. IsFiniteSet(R)
  BY <1>2, TicksFinite
<1>13. ASSUME NEW d \in K
       PROVE  g[d] = Total(one, {t \in R : key[t] = d})
  <2> DEFINE S == {t \in R : key[t] = d}
  <2>1. DayStart(d) \in Int /\ DayStart(d + 1) \in Int /\ d \in Int
    BY <1>8, Products DEF DayStart
  <2>2. \A t \in Int : t \div DayLength = d <=> DayStart(d) <= t /\ t < DayStart(d + 1)
    BY <2>1, DayOfTick
  <2>3. S = Ticks(r, DayStart(d), DayStart(d + 1))
    <3>1. \A t \in R : key[t] = t \div DayLength
      OBVIOUS
    <3>2. \A t \in S : t \in Int /\ DayStart(d) <= t /\ t < DayStart(d + 1) /\ Running(r, t)
      BY <1>6, <2>2, <3>1 DEF Ticks
    <3>3. \A t \in Ticks(r, DayStart(d), DayStart(d + 1)) : t \in R /\ t \div DayLength = d
      BY <1>2, <1>8, <2>1, <2>2 DEF Ticks
    <3>4. S \subseteq Ticks(r, DayStart(d), DayStart(d + 1))
      BY <2>1, <3>2 DEF Ticks
    <3> QED
      BY <3>1, <3>3, <3>4
  <2>4. S \subseteq R /\ IsFiniteSet(S) /\ \A t \in S : one[t] = 1
    BY <1>12, FS_Subset
  <2>5. Cardinality(S) \in Nat
    BY <2>4, FS_CardinalityType
  <2> HIDE DEF S, one
  <2>6. Total(one, S) = 1 * Cardinality(S)
    BY <2>4, TotalConst
  <2>7. g[d] = Cardinality(S)
    BY <2>3
  <2> QED
    BY <2>5, <2>6, <2>7 DEF S
<1>14. Total(one, R) = Cardinality(R)
  <2>1. \A t \in R : one[t] = 1
    OBVIOUS
  <2>2. Cardinality(R) \in Nat
    BY <1>12, FS_CardinalityType
  <2> HIDE DEF one, R
  <2>3. Total(one, R) = 1 * Cardinality(R)
    BY <1>12, <2>1, TotalConst
  <2> QED
    BY <2>2, <2>3
<1>15. \A t \in R : one[t] \in Int
  OBVIOUS
<1>16. DOMAIN f = K
  OBVIOUS
<1>17. SumsByKey(g, K, one, R, key)
  BY <1>13, Zenon DEF SumsByKey
<1> HIDE DEF K, R, f, g, one, key
<1>20. Total(g, K) = Total(one, R)
  BY <1>9, <1>11, <1>12, <1>15, <1>17, TotalKeyed
<1>18. Total(f, K) = r.vcores * Total(g, K)
  BY <1>3, <1>9, <1>10, TotalScaled
<1>19. SparkSum(f) = Total(f, K)
  BY <1>16, SparkSumIs
<1> QED
  BY <1>7, <1>14, <1>18, <1>19, <1>20 DEF R, cutoff
-----------------------------------------------------------------------------
\* Two observations of one run that count the same in any window.
Size(r) == IF r.vcores \in {0, 1} THEN 1 ELSE r.vcores
Alike(a, b) == a.kind = b.kind /\ a.from = b.from /\ Clip(a) = Clip(b) /\ Size(a) = Size(b)

\* Observations that count the same go through the same ticks of the window.
LEMMA AlikeTicks ==
    ASSUME NEW a \in SparkRecord, NEW b \in SparkRecord, Alike(a, b),
           NEW m \in Int, NEW n \in Int, n <= ObservationEnd
    PROVE  Ticks(a, m, n) = Ticks(b, m, n)
<1>1. ObservationEnd \in Int /\ a.from \in Int /\ a.to \in Int /\ b.from \in Int /\ b.to \in Int
  BY WindowEnds DEF SparkRecord
<1>2. \A t \in m..(n - 1) : t \in Int /\ t < ObservationEnd
  BY <1>1
<1>3. ASSUME NEW r \in {a, b}, NEW t \in Int, t < ObservationEnd
      PROVE  Running(r, t) <=> r.from # NoTime /\ r.from <= t /\ t < Clip(r)
  BY <1>1, <1>3 DEF Running, Clip, Lower
<1>4. \A t \in m..(n - 1) : Running(a, t) <=> Running(b, t)
  BY <1>2, <1>3 DEF Alike
<1> QED
  BY <1>4 DEF Ticks

\* Observations of known shape have the same one.
LEMMA AlikeShape ==
    ASSUME NEW a \in SparkRecord, NEW b \in SparkRecord, Alike(a, b), HasUsage(a), HasUsage(b)
    PROVE  a.vcores = b.vcores
BY DEF Alike, Size, HasUsage, SparkRecord

\* A run that goes through a tick of the window overlaps it, and so does any like it.
LEMMA AlikeOverlaps ==
    ASSUME NEW a \in SparkRecord, NEW b \in SparkRecord, Alike(a, b),
           NEW m \in Int, ObservationStart <= m, NEW t \in Ticks(a, m, ObservationEnd)
    PROVE  /\ OverlapsWindow(a) /\ a.from < ObservationEnd
           /\ Overlaps(b, m, ObservationEnd) /\ Overlaps(b, ObservationStart, ObservationEnd)
           /\ b.from <= t /\ (IntervalEnd(b, ObservationEnd) # NoTime => t < IntervalEnd(b, ObservationEnd))
<1>1. ObservationEnd \in Int /\ ObservationStart \in Int /\ a.from \in Int /\ a.to \in Int /\ b.from \in Int /\ b.to \in Int
  BY WindowEnds DEF SparkRecord
<1>2. t \in Int /\ m <= t /\ t < ObservationEnd /\ Running(a, t)
  BY <1>1 DEF Ticks
<1>3. a.from # NoTime /\ a.from <= t /\ t < Clip(a)
  BY <1>1, <1>2 DEF Running, Clip, Lower
<1>4. b.from <= t /\ t < Clip(b)
  BY <1>3 DEF Alike
<1>5. IntervalEnd(b, ObservationEnd) # NoTime => t < IntervalEnd(b, ObservationEnd) /\ IntervalEnd(b, ObservationEnd) \in Int
  BY <1>1, <1>2, <1>4 DEF IntervalEnd, Clip, Lower
<1>6. OverlapsWindow(a)
  BY <1>1, <1>2, <1>3 DEF OverlapsWindow, Running
<1> QED
  BY <1>1, <1>2, <1>3, <1>4, <1>5, <1>6 DEF Overlaps

\* Deduplication keeps the first of the best observations of every run.
LEMMA Deduplicated ==
    ASSUME NEW s \in Seq(SparkRecord)
    PROVE  /\ IsFiniteSet(DeduplicateRuns(s)) /\ DeduplicateRuns(s) \subseteq SparkRecord
           /\ \A r \in DeduplicateRuns(s) :
                /\ \E i \in 1..Len(s) : r = s[i]
                /\ \A j \in 1..Len(s) : Identity(s[j]) = Identity(r) => RecordQuality(s[j]) <= RecordQuality(r)
           /\ \A j \in 1..Len(s) : \E r \in DeduplicateRuns(s) : Identity(r) = Identity(s[j])
           /\ \A a, b \in DeduplicateRuns(s) : Identity(a) = Identity(b) => a = b
<1> DEFINE I == 1..Len(s)
           Better(i, j) == RecordQuality(s[j]) < RecordQuality(s[i]) \/ (RecordQuality(s[j]) = RecordQuality(s[i]) /\ j >= i)
           First == {i \in I : \A j \in I : Identity(s[j]) = Identity(s[i]) => Better(i, j)}
           pick == [i \in First |-> s[i]]
<1>1. IsFiniteSet(I) /\ I \subseteq Nat /\ \A i \in I : s[i] \in SparkRecord
  BY FS_Interval
<1>2. \A i \in I : RecordQuality(s[i]) \in 0..7
  BY <1>1 DEF RecordQuality
<1>3. DeduplicateRuns(s) = {pick[i] : i \in First}
  <2>1. DeduplicateRuns(s) = {s[i] : i \in First}
    BY DEF DeduplicateRuns
  <2>2. \A i \in First : pick[i] = s[i]
    OBVIOUS
  <2> HIDE DEF pick, First
  <2> QED
    BY <2>1, <2>2
<1>4. IsFiniteSet(First) /\ First \subseteq I
  BY <1>1, FS_Subset
<1>5. IsFiniteSet(DeduplicateRuns(s))
  <2> HIDE DEF pick, First
  <2>1. IsFiniteSet({pick[i] : i \in First})
    BY <1>4, FiniteImage
  <2> QED
    BY <1>3, <2>1
<1>6. ASSUME NEW i \in First
      PROVE  /\ pick[i] = s[i] /\ pick[i] \in SparkRecord
             /\ \A j \in I : Identity(s[j]) = Identity(s[i]) => RecordQuality(s[j]) <= RecordQuality(s[i])
  BY <1>1, <1>2
<1>7. ASSUME NEW a \in First, NEW b \in First, Identity(s[a]) = Identity(s[b])
      PROVE  a = b
  <2>1. Better(a, b) /\ Better(b, a)
    BY <1>4, <1>7
  <2> QED
    BY <1>1, <1>2, <1>4, <2>1
<1>8. ASSUME NEW j \in I
      PROVE  \E i \in First : Identity(s[i]) = Identity(s[j])
  <2> DEFINE G == {i \in I : Identity(s[i]) = Identity(s[j])}
             rank == [i \in I |-> (7 - RecordQuality(s[i])) * (Len(s) + 1) + i]
             M == {rank[i] : i \in G}
  <2>1. Len(s) \in Nat
    OBVIOUS
  <2>2. \A i \in I : rank[i] \in Nat
    BY <1>1, <1>2, <2>1
  <2>3. M \subseteq Nat /\ M # {}
    BY <2>2
  <2>4. PICK i \in G : \A k \in G : rank[i] <= rank[k]
    <3> HIDE DEF rank, G
    <3>1. \E n \in M : \A m \in M : n <= m
      BY <2>3, LeastNumber
    <3> QED
      BY <3>1
  <2>5. ASSUME NEW k \in I, Identity(s[k]) = Identity(s[i])
        PROVE  Better(i, k)
    <3>1. k \in G /\ i \in I
      BY <2>4, <2>5
    <3>2. rank[i] <= rank[k]
      BY <2>4, <3>1
    <3> DEFINE a == RecordQuality(s[i])
               b == RecordQuality(s[k])
               n == Len(s) + 1
    <3>3. a \in 0..7 /\ b \in 0..7 /\ n \in Nat /\ i \in 1..(n - 1) /\ k \in 1..(n - 1)
      BY <1>2, <2>1, <3>1
    <3>4. (7 - a) * n + i <= (7 - b) * n + k
      BY <3>1, <3>2
    <3> HIDE DEF a, b, n
    <3>5. CASE b > a
      <4>1. \E m \in Nat : 7 - a = (7 - b) + 1 + m
        <5>1. b - a - 1 \in Nat /\ 7 - a = (7 - b) + 1 + (b - a - 1)
          BY <3>3, <3>5
        <5> QED
          BY <5>1
      <4>2. PICK m \in Nat : 7 - a = (7 - b) + 1 + m
        BY <4>1
      <4>3. (7 - a) * n = (7 - b) * n + n + m * n
        BY <3>3, <4>2
      <4>4. m * n \in Nat /\ (7 - b) * n \in Int
        BY <3>3
      <4> QED
        BY <3>3, <3>4, <4>3, <4>4
    <3>6. CASE b = a
      <4>1. (7 - a) * n \in Int
        BY <3>3
      <4>2. i <= k
        BY <3>3, <3>4, <3>6, <4>1
      <4> QED
        BY <3>3, <3>6, <4>2 DEF a, b
    <3>7. CASE b < a
      BY <3>7 DEF a, b
    <3> QED
      BY <3>3, <3>5, <3>6, <3>7
  <2> QED
    BY <2>4, <2>5
<1> HIDE DEF pick, First
<1> QED
  BY <1>3, <1>4, <1>5, <1>6, <1>7, <1>8
-----------------------------------------------------------------------------
\* What is said of one pool: S what the server lists, F where the thread is, C the
\* records kept, ST the status of the endpoints.
ServerRun == [id : Int, app : Word, from : Int, to : Int, state : Word, result : Word,
              pipelineConf : BOOLEAN, vcores : Nat]
ServerLists == [Endpoints -> Seq(ServerRun)]
At(p, S, e, i) == Normalize(S[e][i], p, e)

\* Observations of one run count the same in any window.
Kin(p, S) ==
  \A e, f \in Endpoints : \A i \in 1..Len(S[e]), j \in 1..Len(S[f]) :
    Identity(At(p, S, e, i)) = Identity(At(p, S, f, j)) => Alike(At(p, S, e, i), At(p, S, f, j))

\* A run that arrived meanwhile is outside the window.
Fresh(S) ==
  \A e \in Endpoints : \A i \in 1..Len(S[e]) :
    S[e][i].id <= 0 => /\ S[e][i].app = "none" /\ S[e][i].from = CollectionEnd
                       /\ S[e][i].to = NoTime /\ S[e][i].vcores = 0

\* The observation behind a record is still listed, and knows as much.
StillListed(p, S, c) ==
  \E e \in Endpoints : \E i \in 1..Len(S[e]) :
    /\ Identity(At(p, S, e, i)) = Identity(c) /\ Alike(At(p, S, e, i), c)
    /\ HasUsage(c) => HasUsage(At(p, S, e, i))
Backed(p, S, C) == \A j \in 1..Len(C) : OverlapsWindow(C[j]) /\ StillListed(p, S, C[j])

CollectedAs(C, r) == \E j \in 1..Len(C) : Identity(C[j]) = Identity(r)
\* The first n runs of an endpoint were looked at.
Covered(p, S, C, e, n) ==
  \A k \in 1..Len(S[e]) :
    k <= n /\ S[e][k].id > 0 /\ OverlapsWindow(At(p, S, e, k)) => CollectedAs(C, At(p, S, e, k))

\* The record of a run of a list.
LEMMA AtIs ==
    ASSUME NEW p \in PoolNames, NEW S \in ServerLists, NEW e \in Endpoints, NEW i \in 1..Len(S[e])
    PROVE  /\ S[e][i] \in ServerRun /\ At(p, S, e, i) \in SparkRecord
           /\ At(p, S, e, i).id = S[e][i].id /\ At(p, S, e, i).from = S[e][i].from
           /\ At(p, S, e, i).to = S[e][i].to /\ At(p, S, e, i).vcores = S[e][i].vcores
           /\ At(p, S, e, i).pool = p /\ At(p, S, e, i).endpoint = e /\ At(p, S, e, i).app = S[e][i].app
           /\ At(p, S, e, i).kind = ClassifyTrigger(S[e][i], e)
<1>1. S[e] \in Seq(ServerRun)
  BY DEF ServerLists
<1>2. S[e][i] \in ServerRun
  BY <1>1
<1>3. ClassifyTrigger(S[e][i], e) \in Kinds /\ ClassifyState(S[e][i].state, S[e][i].result) \in {"succeeded", "failed", "in_progress"}
  BY DEF ClassifyTrigger, ClassifyState, Kinds
<1> QED
  BY <1>2, <1>3 DEF ServerRun, At, Normalize, SparkRecord

\* A list of every observation the server has of a pool.
ListsEvery(p, S, all) ==
  /\ all \in Seq(SparkRecord)
  /\ \A k \in 1..Len(all) : \E e \in Endpoints : \E i \in 1..Len(S[e]) : all[k] = At(p, S, e, i)
  /\ \A e \in Endpoints : \A i \in 1..Len(S[e]) : \E k \in 1..Len(all) : all[k] = At(p, S, e, i)

\* Every run kept is one of the runs there were, seen as it was; and every run there
\* was in the window is one of those kept, once the endpoints are read to their end.
LEMMA Matching ==
    ASSUME NEW p \in PoolNames, NEW S \in ServerLists, NEW C \in Seq(SparkRecord), NEW all,
           Kin(p, S), Fresh(S), Backed(p, S, C), ListsEvery(p, S, all)
    PROVE  /\ \A d \in DeduplicateRuns(C) :
                /\ OverlapsWindow(d)
                /\ \E t \in DeduplicateRuns(all) :
                     Identity(t) = Identity(d) /\ Alike(t, d) /\ (HasUsage(d) => HasUsage(t))
           /\ (\A e \in Endpoints : Covered(p, S, C, e, Len(S[e]))) =>
                \A t \in DeduplicateRuns(all) : OverlapsWindow(t) /\ t.from < ObservationEnd =>
                  \E d \in DeduplicateRuns(C) : Identity(d) = Identity(t) /\ Alike(t, d)
<1> DEFINE D == DeduplicateRuns(C)
           T == DeduplicateRuns(all)
<1>1. /\ D \subseteq SparkRecord
      /\ \A r \in D : \E i \in 1..Len(C) : r = C[i]
      /\ \A j \in 1..Len(C) : \E r \in D : Identity(r) = Identity(C[j])
  BY Deduplicated
<1>2. all \in Seq(SparkRecord)
  BY DEF ListsEvery
<1>3. /\ T \subseteq SparkRecord
      /\ \A r \in T : /\ \E i \in 1..Len(all) : r = all[i]
                      /\ \A j \in 1..Len(all) : Identity(all[j]) = Identity(r) => RecordQuality(all[j]) <= RecordQuality(r)
      /\ \A j \in 1..Len(all) : \E r \in T : Identity(r) = Identity(all[j])
  BY <1>2, Deduplicated
<1> HIDE DEF D, T
<1>4. ASSUME NEW d \in D
      PROVE  /\ OverlapsWindow(d)
             /\ \E t \in T : Identity(t) = Identity(d) /\ Alike(t, d) /\ (HasUsage(d) => HasUsage(t))
  <2>1. PICK j \in 1..Len(C) : d = C[j]
    BY <1>1
  <2>2. OverlapsWindow(d) /\ StillListed(p, S, d)
    BY <2>1 DEF Backed
  <2> DEFINE Behind(e, i) == /\ Identity(At(p, S, e, i)) = Identity(d) /\ Alike(At(p, S, e, i), d)
                             /\ HasUsage(d) => HasUsage(At(p, S, e, i))
  <2>a. PICK e \in Endpoints : \E i \in 1..Len(S[e]) : Behind(e, i)
    BY <2>2, Zenon DEF StillListed
  <2>3. PICK i \in 1..Len(S[e]) : Behind(e, i)
    BY <2>a
  <2> DEFINE x == At(p, S, e, i)
  <2>4. PICK k \in 1..Len(all) : all[k] = x
    BY DEF ListsEvery
  <2>5. PICK t \in T : Identity(t) = Identity(x)
    BY <1>3, <2>4
  <2>6. PICK m \in 1..Len(all) : t = all[m]
    BY <1>3
  <2>7a. PICK f \in Endpoints : \E n \in 1..Len(S[f]) : t = At(p, S, f, n)
    BY <2>6 DEF ListsEvery
  <2>7. PICK n \in 1..Len(S[f]) : t = At(p, S, f, n)
    BY <2>7a
  <2>8. Alike(t, x)
    BY <2>5, <2>7 DEF Kin
  <2>9. Alike(t, d) /\ Identity(t) = Identity(d)
    BY <2>3, <2>5, <2>8 DEF Alike
  <2>10. RecordQuality(x) <= RecordQuality(t)
    BY <1>3, <2>4, <2>5
  <2>11. HasUsage(x) => HasUsage(t)
    BY <2>10 DEF RecordQuality
  <2> QED
    BY <2>2, <2>3, <2>9, <2>11
<1>5. ASSUME \A e \in Endpoints : Covered(p, S, C, e, Len(S[e])),
             NEW t \in T, OverlapsWindow(t), t.from < ObservationEnd
      PROVE  \E d \in D : Identity(d) = Identity(t) /\ Alike(t, d)
  <2>1. PICK m \in 1..Len(all) : t = all[m]
    BY <1>3
  <2>2a. PICK f \in Endpoints : \E n \in 1..Len(S[f]) : t = At(p, S, f, n)
    BY <2>1 DEF ListsEvery
  <2>2. PICK n \in 1..Len(S[f]) : t = At(p, S, f, n)
    BY <2>2a
  <2>3. S[f][n].id \in Int /\ S[f][n].from = t.from
    BY <2>2, AtIs DEF ServerRun
  <2>4. S[f][n].id > 0
    <3>1. CASE S[f][n].id <= 0
      <4>1. t.from = CollectionEnd
        BY <2>3, <3>1 DEF Fresh
      <4> QED
        BY <1>5, <4>1, WindowEnds
    <3> QED
      BY <2>3, <3>1
  <2>5. Len(S[f]) \in Nat
    BY DEF ServerLists
  <2>6. CollectedAs(C, t)
    BY <1>5, <2>2, <2>4, <2>5 DEF Covered
  <2>7. PICK j \in 1..Len(C) : Identity(C[j]) = Identity(t)
    BY <2>6 DEF CollectedAs
  <2>8. PICK d \in D : Identity(d) = Identity(t)
    BY <1>1, <2>7
  <2>9. PICK u \in T : Identity(u) = Identity(d) /\ Alike(u, d)
    BY <1>4
  <2>10. PICK k \in 1..Len(all) : u = all[k]
    BY <1>3
  <2>11a. PICK g \in Endpoints : \E i \in 1..Len(S[g]) : u = At(p, S, g, i)
    BY <2>10 DEF ListsEvery
  <2>11. PICK i \in 1..Len(S[g]) : u = At(p, S, g, i)
    BY <2>11a
  <2>12. Alike(t, u)
    BY <2>2, <2>8, <2>9, <2>11 DEF Kin
  <2> QED
    BY <2>8, <2>9, <2>12 DEF Alike
<1> QED
  BY <1>4, <1>5 DEF D, T

\* Two lists, one after the other.
LEMMA Concatenated ==
    ASSUME NEW M, NEW a \in Seq(M), NEW b \in Seq(M)
    PROVE  /\ a \o b \in Seq(M) /\ Len(a \o b) = Len(a) + Len(b) /\ Len(a) \in Nat /\ Len(b) \in Nat
           /\ \A k \in 1..Len(a \o b) : (a \o b)[k] = IF k <= Len(a) THEN a[k] ELSE b[k - Len(a)]
OBVIOUS

\* The list Truth deduplicates holds every observation.
LEMMA TruthLists ==
    ASSUME NEW p \in PoolNames, server[p] \in ServerLists
    PROVE  /\ ListsEvery(p, server[p], RunsListed(p, "batch") \o RunsListed(p, "session"))
           /\ Truth(p) = DeduplicateRuns(RunsListed(p, "batch") \o RunsListed(p, "session"))
<1> DEFINE b == RunsListed(p, "batch")
           s == RunsListed(p, "session")
           S == server[p]
           all == b \o s
<1>1. /\ Len(S["batch"]) \in Nat /\ Len(S["session"]) \in Nat /\ "batch" \in Endpoints /\ "session" \in Endpoints
  BY DEF ServerLists, Endpoints
<1>2. /\ b \in Seq(SparkRecord) /\ Len(b) = Len(S["batch"]) /\ \A i \in 1..Len(b) : b[i] = At(p, S, "batch", i)
      /\ s \in Seq(SparkRecord) /\ Len(s) = Len(S["session"]) /\ \A i \in 1..Len(s) : s[i] = At(p, S, "session", i)
  <2>1. /\ \A i \in 1..Len(S["batch"]) : At(p, S, "batch", i) \in SparkRecord
        /\ \A i \in 1..Len(S["session"]) : At(p, S, "session", i) \in SparkRecord
    BY <1>1, AtIs
  <2>2. /\ b = [i \in 1..Len(S["batch"]) |-> At(p, S, "batch", i)]
        /\ s = [i \in 1..Len(S["session"]) |-> At(p, S, "session", i)]
    BY DEF RunsListed, At
  <2> QED
    BY <1>1, <2>1, <2>2
<1> HIDE DEF b, s, S
<1>3. /\ all \in Seq(SparkRecord) /\ Len(all) = Len(b) + Len(s) /\ Len(b) \in Nat /\ Len(s) \in Nat
      /\ \A k \in 1..Len(all) : all[k] = IF k <= Len(b) THEN b[k] ELSE s[k - Len(b)]
  BY <1>2, Concatenated
<1> HIDE DEF all
<1>4. ASSUME NEW k \in 1..Len(all)
      PROVE  \E e \in Endpoints : \E i \in 1..Len(S[e]) : all[k] = At(p, S, e, i)
  <2>1. CASE k <= Len(b)
    <3>1. k \in 1..Len(b)
      BY <1>3, <2>1
    <3>2. all[k] = At(p, S, "batch", k) /\ k \in 1..Len(S["batch"])
      BY <1>2, <1>3, <2>1, <3>1
    <3> QED
      BY <1>1, <3>2
  <2>2. CASE ~ k <= Len(b)
    <3>1. k - Len(b) \in 1..Len(s)
      BY <1>3, <2>2
    <3>2. all[k] = At(p, S, "session", k - Len(b)) /\ k - Len(b) \in 1..Len(S["session"])
      BY <1>2, <1>3, <2>2, <3>1
    <3> QED
      BY <1>1, <3>2
  <2> QED
    BY <2>1, <2>2
<1>5. ASSUME NEW e \in Endpoints, NEW i \in 1..Len(S[e])
      PROVE  \E k \in 1..Len(all) : all[k] = At(p, S, e, i)
  <2>1. CASE e = "batch"
    <3>a. Len(S[e]) = Len(b)
      BY <1>2, <2>1
    <3>1. i \in 1..Len(b) /\ i \in 1..Len(all) /\ i <= Len(b)
      BY <1>3, <3>a
    <3>2. all[i] = At(p, S, e, i)
      BY <1>2, <1>3, <2>1, <3>1
    <3> QED
      BY <3>1, <3>2
  <2>2. CASE e = "session"
    <3>a. Len(S[e]) = Len(s)
      BY <1>2, <2>2
    <3>1. i + Len(b) \in 1..Len(all) /\ ~ i + Len(b) <= Len(b) /\ (i + Len(b)) - Len(b) = i /\ i \in 1..Len(s)
      BY <1>3, <3>a
    <3>2. all[i + Len(b)] = s[i] /\ i \in 1..Len(s)
      BY <1>2, <1>3, <2>2, <3>1
    <3>3. all[i + Len(b)] = At(p, S, e, i)
      BY <1>2, <2>2, <3>2
    <3> QED
      BY <3>1, <3>3
  <2> QED
    BY <2>1, <2>2 DEF Endpoints
<1> QED
  BY <1>3, <1>4, <1>5 DEF ListsEvery, Truth, all, b, s, S
-----------------------------------------------------------------------------
\* Records that match the runs of a time add up to what these spent in it.
LEMMA Accounted ==
    ASSUME NEW K, IsFiniteSet(K), K \subseteq SparkRecord, NEW T, IsFiniteSet(T), T \subseteq SparkRecord,
           \A x, y \in K : Identity(x) = Identity(y) => x = y,
           \A x, y \in T : Identity(x) = Identity(y) => x = y,
           NEW m \in Int, NEW n \in Int, n <= ObservationEnd,
           NEW v, \A x \in K : HasUsage(x) /\ v[x] = x.vcores * Cardinality(Ticks(x, m, n)),
           \A x \in K : \E t \in T : Identity(t) = Identity(x) /\ Alike(t, x) /\ HasUsage(t),
           \A t \in T : Ticks(t, m, n) # {} => \E x \in K : Identity(x) = Identity(t)
    PROVE  Total(v, K) = SpentIn(T, m, n)
<1> DEFINE u == [r \in T |-> r.vcores * Cardinality({t \in m..(n - 1) : Running(r, t)})]
           name == [x \in K |-> CHOOSE t \in T : Identity(t) = Identity(x)]
<1>1. SpentIn(T, m, n) = Total(u, T)
  <2>1. SpentIn(T, m, n) = SparkSum(u)
    BY Zenon DEF SpentIn
  <2>2. DOMAIN u = T
    OBVIOUS
  <2> HIDE DEF u
  <2> QED
    BY <2>1, <2>2, SparkSumIs
<1>2. \A t \in T : u[t] = t.vcores * Cardinality(Ticks(t, m, n))
  BY DEF Ticks
<1>3. \A t \in T : u[t] \in Int
  BY <1>2, TicksFinite DEF SparkRecord
<1>4. \A x \in K : v[x] \in Int
  BY TicksFinite DEF SparkRecord
<1>5. ASSUME NEW x \in K
      PROVE  name[x] \in T /\ Identity(name[x]) = Identity(x) /\ u[name[x]] = v[x]
  <2>1. PICK t \in T : Identity(t) = Identity(x) /\ Alike(t, x) /\ HasUsage(t)
    OBVIOUS
  <2>2. name[x] = CHOOSE a \in T : Identity(a) = Identity(x)
    OBVIOUS
  <2>3. name[x] \in T /\ Identity(name[x]) = Identity(x)
    BY <2>1, <2>2
  <2>4. name[x] = t
    BY <2>1, <2>3
  <2>5. t.vcores = x.vcores /\ Ticks(t, m, n) = Ticks(x, m, n)
    BY <2>1, AlikeShape, AlikeTicks
  <2> HIDE DEF u, name
  <2> QED
    BY <1>2, <2>3, <2>4, <2>5
<1>6. ASSUME NEW t \in T, \A x \in K : name[x] # t
      PROVE  u[t] = 0
  <2>1. CASE Ticks(t, m, n) = {}
    <3>1. u[t] = t.vcores * 0 /\ t.vcores \in Nat
      BY <1>2, <2>1, FS_EmptySet DEF SparkRecord
    <3> QED
      BY <3>1
  <2>2. CASE Ticks(t, m, n) # {}
    <3>1. PICK x \in K : Identity(x) = Identity(t)
      BY <2>2
    <3>2. name[x] = t
      BY <1>5, <3>1
    <3> QED
      BY <1>6, <3>2
  <2> QED
    BY <2>1, <2>2
<1>7. \A x, y \in K : name[x] = name[y] => x = y
  BY <1>5
<1> HIDE DEF u, name
<1>8. Total(v, K) = Total(u, T)
  BY <1>3, <1>4, <1>5, <1>6, <1>7, TotalMatched
<1> QED
  BY <1>1, <1>8

\* What the server lists of a pool and what its thread has kept go together.
PoolBacked(p) ==
  /\ server[p] \in ServerLists /\ collected[p] \in Seq(SparkRecord)
  /\ Kin(p, server[p]) /\ Fresh(server[p]) /\ Backed(p, server[p], collected[p])

\* Both endpoints were read to their end.
ReadToEnd(p) == \A e \in Endpoints : Covered(p, server[p], collected[p], e, Len(server[p][e]))

\* The records of a pool and the runs of it, both without repetition, match.
LEMMA PoolMatched ==
    ASSUME NEW p \in PoolNames, PoolBacked(p)
    PROVE  LET D == DeduplicateRuns(collected[p]) IN
           /\ IsFiniteSet(D) /\ D \subseteq SparkRecord /\ IsFiniteSet(Truth(p)) /\ Truth(p) \subseteq SparkRecord
           /\ \A x, y \in D : Identity(x) = Identity(y) => x = y
           /\ \A x, y \in Truth(p) : Identity(x) = Identity(y) => x = y
           /\ \A x \in D : /\ OverlapsWindow(x)
                           /\ \E t \in Truth(p) : Identity(t) = Identity(x) /\ Alike(t, x) /\ (HasUsage(x) => HasUsage(t))
           /\ ReadToEnd(p) =>
                \A t \in Truth(p) : OverlapsWindow(t) /\ t.from < ObservationEnd =>
                  \E x \in D : Identity(x) = Identity(t) /\ Alike(t, x)
           /\ \A t \in Truth(p) : t.pool = p
<1> DEFINE all == RunsListed(p, "batch") \o RunsListed(p, "session")
           S == server[p]
           C == collected[p]
<1>1. S \in ServerLists /\ C \in Seq(SparkRecord) /\ Kin(p, S) /\ Fresh(S) /\ Backed(p, S, C)
  BY DEF PoolBacked
<1>2. ListsEvery(p, S, all) /\ Truth(p) = DeduplicateRuns(all)
  BY <1>1, TruthLists
<1>3. all \in Seq(SparkRecord)
  BY <1>2 DEF ListsEvery
<1> HIDE DEF all
<1>4. \A t \in Truth(p) : t.pool = p
  <2> TAKE t \in Truth(p)
  <2>1. PICK k \in 1..Len(all) : t = all[k]
    BY <1>2, <1>3, Deduplicated
  <2>2. PICK e \in Endpoints : \E i \in 1..Len(S[e]) : all[k] = At(p, S, e, i)
    BY <1>2 DEF ListsEvery
  <2>3. PICK i \in 1..Len(S[e]) : all[k] = At(p, S, e, i)
    BY <2>2
  <2> HIDE DEF S
  <2> QED
    BY <1>1, <2>1, <2>3, AtIs
<1>5. ReadToEnd(p) <=> \A e \in Endpoints : Covered(p, S, C, e, Len(S[e]))
  BY DEF ReadToEnd
<1> HIDE DEF S, C
<1>6. /\ \A d \in DeduplicateRuns(C) :
           /\ OverlapsWindow(d)
           /\ \E t \in DeduplicateRuns(all) :
                Identity(t) = Identity(d) /\ Alike(t, d) /\ (HasUsage(d) => HasUsage(t))
      /\ (\A e \in Endpoints : Covered(p, S, C, e, Len(S[e]))) =>
           \A t \in DeduplicateRuns(all) : OverlapsWindow(t) /\ t.from < ObservationEnd =>
             \E d \in DeduplicateRuns(C) : Identity(d) = Identity(t) /\ Alike(t, d)
  BY <1>1, <1>2, Matching
<1>7. /\ IsFiniteSet(DeduplicateRuns(C)) /\ DeduplicateRuns(C) \subseteq SparkRecord
      /\ \A x, y \in DeduplicateRuns(C) : Identity(x) = Identity(y) => x = y
  BY <1>1, Deduplicated
<1>8. /\ IsFiniteSet(DeduplicateRuns(all)) /\ DeduplicateRuns(all) \subseteq SparkRecord
      /\ \A x, y \in DeduplicateRuns(all) : Identity(x) = Identity(y) => x = y
  BY <1>3, Deduplicated
<1> QED
  BY <1>2, <1>4, <1>5, <1>6, <1>7, <1>8 DEF C

\* The total of a window whose every run is of known usage is what the pool spent.
LEMMA WindowTrue ==
    ASSUME NEW p \in PoolNames, PoolBacked(p), ReadToEnd(p), NEW kind \in Kinds, NEW w \in Windows,
           AggregateRuns(p, kind, w).unknown = 0
    PROVE  AggregateRuns(p, kind, w).usage
             = SpentIn({r \in Truth(p) : r.kind = kind}, ObservationEnd - w * DayLength, ObservationEnd)
<1> DEFINE D == DeduplicateRuns(collected[p])
           m == ObservationEnd - w * DayLength
           In == {r \in RunsOf(p, kind) : Overlaps(r, m, ObservationEnd)}
           K == {r \in In : Known(r, ObservationEnd)}
           T == {r \in Truth(p) : r.kind = kind}
           v == [r \in K |-> WindowUsage(r, w)]
<1>1. w \in Int /\ m \in Int /\ ObservationStart <= m /\ ObservationEnd \in Int /\ ObservationStart \in Int
  <2>1. w \in Int /\ w <= Days /\ Days \in Int
    BY SparkAssumption
  <2> DEFINE a == w * DayLength
             b == Days * DayLength
  <2>2. a \in Int /\ b \in Int /\ a <= b
    BY <2>1, Products
  <2>3. m = ObservationEnd - a /\ ObservationStart = ObservationEnd - b
    BY WindowEnds
  <2> HIDE DEF a, b, m
  <2> QED
    BY <2>1, <2>2, <2>3, WindowEnds
<1>2. /\ IsFiniteSet(D) /\ D \subseteq SparkRecord /\ IsFiniteSet(Truth(p)) /\ Truth(p) \subseteq SparkRecord
      /\ \A x, y \in D : Identity(x) = Identity(y) => x = y
      /\ \A x, y \in Truth(p) : Identity(x) = Identity(y) => x = y
      /\ \A x \in D : /\ OverlapsWindow(x)
                      /\ \E t \in Truth(p) : Identity(t) = Identity(x) /\ Alike(t, x) /\ (HasUsage(x) => HasUsage(t))
      /\ \A t \in Truth(p) : OverlapsWindow(t) /\ t.from < ObservationEnd =>
           \E x \in D : Identity(x) = Identity(t) /\ Alike(t, x)
  BY PoolMatched
<1>3. AggregateRuns(p, kind, w).unknown = Cardinality(In \ K) /\ AggregateRuns(p, kind, w).usage = SparkSum(v)
  BY DEF AggregateRuns
<1>4. In = {r \in D : r.kind = kind /\ Overlaps(r, m, ObservationEnd)}
  BY DEF RunsOf
<1> HIDE DEF D, m
<1>5. In \subseteq D /\ K \subseteq D /\ IsFiniteSet(K) /\ IsFiniteSet(In \ K)
  BY <1>2, <1>4, FS_Subset
<1>6. In = K
  <2>1. In \ K = {}
    BY <1>3, <1>5, FS_EmptySet
  <2> QED
    BY <2>1
<1>7. \A x \in D : x.kind = kind /\ Overlaps(x, m, ObservationEnd) => x \in K
  BY <1>4, <1>6
<1>8. \A x \in K : x \in D /\ x.kind = kind /\ Known(x, ObservationEnd)
  BY <1>4
<1>9. \A x \in K : v[x] = WindowUsage(x, w)
  OBVIOUS
<1>10. DOMAIN v = K
  OBVIOUS
<1>11. T \subseteq Truth(p) /\ IsFiniteSet(T) /\ \A t \in Truth(p) : t \in T <=> t.kind = kind
  BY <1>2, FS_Subset
<1> HIDE DEF In, K, T, v
<1>12. \A x \in K : HasUsage(x) /\ v[x] = x.vcores * Cardinality(Ticks(x, m, ObservationEnd))
  <2> TAKE x \in K
  <2>1. x \in SparkRecord /\ x.from # NoTime /\ Known(x, ObservationEnd)
    BY <1>2, <1>8 DEF OverlapsWindow
  <2>2. WindowUsage(x, w) = x.vcores * Cardinality(Ticks(x, m, ObservationEnd))
    BY <1>1, <2>1, WindowMeasured DEF m
  <2> QED
    BY <1>9, <2>1, <2>2 DEF Known
<1>13. \A x \in K : \E t \in T : Identity(t) = Identity(x) /\ Alike(t, x) /\ HasUsage(t)
  BY <1>2, <1>8, <1>11, <1>12 DEF Alike
<1>14. \A t \in T : Ticks(t, m, ObservationEnd) # {} => \E x \in K : Identity(x) = Identity(t)
  <2> TAKE t \in T
  <2> HAVE Ticks(t, m, ObservationEnd) # {}
  <2>1. t \in SparkRecord /\ t \in Truth(p) /\ t.kind = kind
    BY <1>2, <1>11
  <2>2. OverlapsWindow(t) /\ t.from < ObservationEnd
    BY <1>1, <2>1, AlikeOverlaps DEF Alike
  <2>3. PICK x \in D : Identity(x) = Identity(t) /\ Alike(t, x)
    BY <1>2, <2>1, <2>2
  <2>4. Overlaps(x, m, ObservationEnd)
    BY <1>1, <1>2, <2>1, <2>3, AlikeOverlaps
  <2>5. x.kind = kind
    BY <2>1, <2>3 DEF Alike
  <2> QED
    BY <1>7, <2>3, <2>4, <2>5
<1>15. /\ K \subseteq SparkRecord /\ T \subseteq SparkRecord
       /\ \A x, y \in K : Identity(x) = Identity(y) => x = y
       /\ \A x, y \in T : Identity(x) = Identity(y) => x = y
  BY <1>2, <1>5, <1>11
<1>16. Total(v, K) = SpentIn(T, m, ObservationEnd)
  BY <1>1, <1>5, <1>11, <1>12, <1>13, <1>14, <1>15, Accounted
<1>17. SparkSum(v) = Total(v, K)
  BY <1>10, SparkSumIs
<1> QED
  BY <1>3, <1>16, <1>17 DEF T, m

\* A day no run of unknown usage touches is what the pools spent in it.
LEMMA DayTrue ==
    ASSUME \A p \in PoolNames : PoolBacked(p) /\ ReadToEnd(p), IsFiniteSet(PoolNames), NEW d \in DOMAIN DailyUsage
    PROVE  DailyUsage[d] = SpentIn(UNION {Truth(p) : p \in PoolNames}, DayStart(d), DayStart(d + 1))
<1> DEFINE D == AllRecords
           In == {r \in D : Overlaps(r, ObservationStart, ObservationEnd)}
           K == {r \in In : Known(r, ObservationEnd) /\ d \in TouchedDays(r)}
           T == UNION {Truth(p) : p \in PoolNames}
           m == DayStart(d)
           n == DayStart(d + 1)
           v == [r \in K |-> IntervalUsage(r, m, n)]
<1>1. d \in DaysIntersecting(ObservationStart, ObservationEnd) /\ d \notin UnknownDays(In) /\ DailyUsage[d] = SparkSum(v)
  BY DEF DailyUsage
<1>2. PICK q \in Int : ObservationEnd = DayStart(q)
  BY WindowEnds
<1>3. ObservationStart = DayStart(q - Days) /\ q - Days \in Int /\ ObservationStart \in Int /\ ObservationEnd \in Int
  BY <1>2, WindowEnds, Products DEF DayStart
<1>4. d \in Int /\ ObservationStart <= m /\ n <= ObservationEnd
  BY <1>1, <1>2, <1>3, TouchedWithin
<1>5. m \in Int /\ n \in Int
  BY <1>4, Products DEF DayStart
<1>6. ASSUME NEW p \in PoolNames
      PROVE  LET E == DeduplicateRuns(collected[p]) IN
             /\ IsFiniteSet(E) /\ E \subseteq SparkRecord /\ IsFiniteSet(Truth(p)) /\ Truth(p) \subseteq SparkRecord
             /\ \A x, y \in E : Identity(x) = Identity(y) => x = y
             /\ \A x, y \in Truth(p) : Identity(x) = Identity(y) => x = y
             /\ \A x \in E : /\ OverlapsWindow(x)
                             /\ \E t \in Truth(p) : Identity(t) = Identity(x) /\ Alike(t, x) /\ (HasUsage(x) => HasUsage(t))
             /\ \A t \in Truth(p) : OverlapsWindow(t) /\ t.from < ObservationEnd =>
                  \E x \in E : Identity(x) = Identity(t) /\ Alike(t, x)
             /\ \A t \in Truth(p) : t.pool = p
  BY PoolMatched
<1>7. \A a, b : Identity(a) = Identity(b) => a.pool = b.pool
  <2> TAKE a, b
  <2>1. Identity(a)[2] = a.pool /\ Identity(b)[2] = b.pool
    BY DEF Identity
  <2> QED
    BY <2>1
<1>8. IsFiniteSet(D) /\ IsFiniteSet(T)
  <2> DEFINE kept == [p \in PoolNames |-> DeduplicateRuns(collected[p])]
             truth == [p \in PoolNames |-> Truth(p)]
  <2>1. /\ \A p \in PoolNames : IsFiniteSet(kept[p]) /\ IsFiniteSet(truth[p])
        /\ D = UNION {kept[p] : p \in PoolNames} /\ T = UNION {truth[p] : p \in PoolNames}
    BY <1>6 DEF AllRecords
  <2> HIDE DEF kept, truth
  <2>2. IsFiniteSet({kept[p] : p \in PoolNames}) /\ IsFiniteSet({truth[p] : p \in PoolNames})
    BY FiniteImage
  <2>3. \A x \in {kept[p] : p \in PoolNames} : IsFiniteSet(x)
    BY <2>1
  <2>4. \A x \in {truth[p] : p \in PoolNames} : IsFiniteSet(x)
    BY <2>1
  <2>5. IsFiniteSet(UNION {kept[p] : p \in PoolNames})
    BY <2>2, <2>3, FS_UNION
  <2>6. IsFiniteSet(UNION {truth[p] : p \in PoolNames})
    BY <2>2, <2>4, FS_UNION
  <2> QED
    BY <2>1, <2>5, <2>6
<1>9. /\ D \subseteq SparkRecord /\ T \subseteq SparkRecord
      /\ \A x, y \in D : Identity(x) = Identity(y) => x = y
      /\ \A x, y \in T : Identity(x) = Identity(y) => x = y
      /\ \A x \in D : /\ OverlapsWindow(x)
                      /\ \E t \in T : Identity(t) = Identity(x) /\ Alike(t, x) /\ (HasUsage(x) => HasUsage(t))
      /\ \A t \in T : OverlapsWindow(t) /\ t.from < ObservationEnd => \E x \in D : Identity(x) = Identity(t) /\ Alike(t, x)
  <2>1. ASSUME NEW x \in D
        PROVE  /\ x \in DeduplicateRuns(collected[x.pool]) /\ x.pool \in PoolNames /\ x \in SparkRecord /\ OverlapsWindow(x)
               /\ \E t \in T : Identity(t) = Identity(x) /\ Alike(t, x) /\ (HasUsage(x) => HasUsage(t))
    <3>1. PICK p \in PoolNames : x \in DeduplicateRuns(collected[p])
      BY DEF AllRecords
    <3>2. PICK t \in Truth(p) : Identity(t) = Identity(x) /\ Alike(t, x) /\ (HasUsage(x) => HasUsage(t))
      BY <1>6, <3>1
    <3>3. x.pool = p
      BY <1>6, <1>7, <3>2
    <3>4. t \in T
      OBVIOUS
    <3> QED
      BY <1>6, <3>1, <3>2, <3>3, <3>4
  <2>2. ASSUME NEW t \in T
        PROVE  /\ t \in Truth(t.pool) /\ t.pool \in PoolNames /\ t \in SparkRecord
               /\ OverlapsWindow(t) /\ t.from < ObservationEnd => \E x \in D : Identity(x) = Identity(t) /\ Alike(t, x)
    <3>1. PICK p \in PoolNames : t \in Truth(p)
      OBVIOUS
    <3>2. DeduplicateRuns(collected[p]) \subseteq D
      BY DEF AllRecords
    <3> HIDE DEF D
    <3> QED
      BY <1>6, <3>1, <3>2
  <2> HIDE DEF D, T
  <2>3. \A x, y \in D : Identity(x) = Identity(y) => x = y
    BY <1>6, <1>7, <2>1
  <2>4. \A x, y \in T : Identity(x) = Identity(y) => x = y
    BY <1>6, <1>7, <2>2
  <2> QED
    BY <2>1, <2>2, <2>3, <2>4
<1> HIDE DEF D, T, m, n
<1>10. K \subseteq D /\ IsFiniteSet(K)
  BY <1>8, FS_Subset
<1>11. \A x \in K : x \in D /\ Known(x, ObservationEnd) /\ v[x] = IntervalUsage(x, m, n)
  OBVIOUS
<1>12. DOMAIN v = K
  OBVIOUS
<1>13. \A x \in D : Overlaps(x, ObservationStart, ObservationEnd) /\ Known(x, ObservationEnd) /\ d \in TouchedDays(x) => x \in K
  OBVIOUS
<1>14. \A x \in D : Overlaps(x, ObservationStart, ObservationEnd) /\ d \in TouchedDays(x) => Known(x, ObservationEnd)
  BY <1>1 DEF UnknownDays
<1> HIDE DEF In, K, v
<1>15. \A x \in K : HasUsage(x) /\ v[x] = x.vcores * Cardinality(Ticks(x, m, n))
  <2> TAKE x \in K
  <2>1. x \in SparkRecord /\ x.from # NoTime /\ Known(x, ObservationEnd)
    BY <1>9, <1>11 DEF OverlapsWindow
  <2>2. IntervalUsage(x, m, n) = x.vcores * Cardinality(Ticks(x, m, n))
    BY <1>4, <2>1, DayUsage DEF m, n
  <2> QED
    BY <1>11, <2>1, <2>2 DEF Known
<1>16. \A x \in K : \E t \in T : Identity(t) = Identity(x) /\ Alike(t, x) /\ HasUsage(t)
  BY <1>9, <1>11, <1>15
<1>17. \A t \in T : Ticks(t, m, n) # {} => \E x \in K : Identity(x) = Identity(t)
  <2> TAKE t \in T
  <2> HAVE Ticks(t, m, n) # {}
  <2>1. PICK i \in Ticks(t, m, n) : TRUE
    OBVIOUS
  <2>2. t \in SparkRecord /\ i \in Int /\ m <= i /\ i < n /\ i \in Ticks(t, m, ObservationEnd)
    BY <1>3, <1>4, <1>5, <1>9, <2>1 DEF Ticks
  <2>3. OverlapsWindow(t) /\ t.from < ObservationEnd
    BY <1>4, <1>5, <2>2, AlikeOverlaps DEF Alike
  <2>4. PICK x \in D : Identity(x) = Identity(t) /\ Alike(t, x)
    BY <1>9, <2>3
  <2>5. /\ Overlaps(x, ObservationStart, ObservationEnd) /\ x \in SparkRecord
        /\ x.from <= i /\ (IntervalEnd(x, ObservationEnd) # NoTime => i < IntervalEnd(x, ObservationEnd))
    BY <1>4, <1>5, <1>9, <2>2, <2>4, AlikeOverlaps
  <2>6. i \div DayLength = d
    BY <1>4, <2>2, DayOfTick DEF m, n
  <2> DEFINE from == Upper(ObservationStart, x.from)
             to == IF IntervalEnd(x, ObservationEnd) = NoTime THEN ObservationEnd
                   ELSE Lower(ObservationEnd, IntervalEnd(x, ObservationEnd))
  <2>7. from \in Int /\ to \in Int /\ from <= i /\ i < to
    BY <1>3, <1>4, <1>5, <2>2, <2>5 DEF SparkRecord, IntervalEnd, Upper, Lower
  <2>8. TouchedDays(x) = DaysIntersecting(from, to)
    BY DEF TouchedDays
  <2> HIDE DEF from, to
  <2>9. d \in TouchedDays(x)
    BY <2>2, <2>6, <2>7, <2>8, TouchedBy
  <2> QED
    BY <1>13, <1>14, <2>4, <2>5, <2>9
<1>18. /\ K \subseteq SparkRecord /\ \A x, y \in K : Identity(x) = Identity(y) => x = y
  BY <1>9, <1>10
<1>19. Total(v, K) = SpentIn(T, m, n)
  BY <1>4, <1>5, <1>8, <1>9, <1>10, <1>15, <1>16, <1>17, <1>18, Accounted
<1>20. SparkSum(v) = Total(v, K)
  BY <1>12, SparkSumIs
<1> QED
  BY <1>1, <1>19, <1>20 DEF T, m, n
-----------------------------------------------------------------------------
\* The positions of a page that are kept, in turn.
LEMMA InTurnLists ==
    ASSUME NEW K, IsFiniteSet(K), K \subseteq Nat
    PROVE  /\ InTurn(K) \in [1..Cardinality(K) -> K] /\ Cardinality(K) \in Nat
           /\ \A k \in K : \E i \in 1..Cardinality(K) : InTurn(K)[i] = k
<1>1. InTurn(K) \in [1..Cardinality(K) -> K] /\ \A i, j \in DOMAIN InTurn(K) : i < j => InTurn(K)[i] < InTurn(K)[j]
  <2>1. \E r \in [1..Cardinality(K) -> K] : \A i, j \in DOMAIN r : i < j => r[i] < r[j]
    BY ListedUpwards
  <2> QED
    BY <2>1, Zenon DEF InTurn
<1> QED
  BY <1>1, UpwardsListsAll
-----------------------------------------------------------------------------
\* The positions of a page whose runs are kept, and their records.
PageTurns(p, S, e, o, n) == InTurn({i \in 1..n : OverlapsWindow(At(p, S, e, o + i))})
PageRecords(p, S, e, o, n) ==
  [i \in DOMAIN PageTurns(p, S, e, o, n) |-> At(p, S, e, o + PageTurns(p, S, e, o, n)[i])]

\* The records of a page, added to those kept before, cover the page too.
LEMMA PageKept ==
    ASSUME NEW p \in PoolNames, NEW S \in ServerLists, NEW e \in Endpoints, NEW C \in Seq(SparkRecord),
           Backed(p, S, C), NEW o \in Nat, NEW n \in Nat, n = 0 \/ o + n <= Len(S[e]),
           Covered(p, S, C, e, o), NEW kept, kept = PageRecords(p, S, e, o, n)
    PROVE  /\ C \o kept \in Seq(SparkRecord) /\ Backed(p, S, C \o kept)
           /\ Covered(p, S, C \o kept, e, o + n)
           /\ \A r : CollectedAs(C, r) => CollectedAs(C \o kept, r)
<1> DEFINE K == {i \in 1..n : OverlapsWindow(At(p, S, e, o + i))}
           m == Cardinality(K)
           turns == PageTurns(p, S, e, o, n)
           all == C \o kept
<1>1. IsFiniteSet(K) /\ K \subseteq Nat
  <2>1. IsFiniteSet(1..n)
    BY FS_Interval
  <2>2. K \subseteq 1..n /\ K \subseteq Nat
    OBVIOUS
  <2> HIDE DEF K
  <2>3. IsFiniteSet(K)
    BY <2>1, <2>2, FS_Subset
  <2> QED
    BY <2>2, <2>3
<1>2. turns \in [1..m -> K] /\ m \in Nat /\ \A k \in K : \E i \in 1..m : turns[i] = k
  <2> HIDE DEF K
  <2> QED
    BY <1>1, InTurnLists DEF K, PageTurns
<1>3. Len(S[e]) \in Nat
  BY DEF ServerLists
<1>4. \A i \in K : o + i \in 1..Len(S[e]) /\ OverlapsWindow(At(p, S, e, o + i)) /\ At(p, S, e, o + i) \in SparkRecord
  <2> TAKE i \in K
  <2>1. i \in 1..n /\ OverlapsWindow(At(p, S, e, o + i))
    OBVIOUS
  <2>2. o + i \in 1..Len(S[e])
    BY <1>3, <2>1
  <2> QED
    BY <2>1, <2>2, AtIs
<1>5. \A i \in 1..n : OverlapsWindow(At(p, S, e, o + i)) => i \in K
  OBVIOUS
<1> HIDE DEF K, m, turns, all
<1>6. /\ kept \in Seq(SparkRecord) /\ Len(kept) = m
      /\ \A i \in 1..m : kept[i] = At(p, S, e, o + turns[i]) /\ turns[i] \in K
  <2>1. DOMAIN turns = 1..m /\ \A i \in 1..m : turns[i] \in K
    BY <1>2
  <2>2. kept = [i \in 1..m |-> At(p, S, e, o + turns[i])]
    BY <2>1 DEF PageRecords, turns
  <2>3. \A i \in 1..m : At(p, S, e, o + turns[i]) \in SparkRecord
    BY <1>4, <2>1
  <2> QED
    BY <1>2, <2>1, <2>2, <2>3
<1>7. /\ all \in Seq(SparkRecord) /\ Len(all) = Len(C) + m /\ Len(C) \in Nat
      /\ \A k \in 1..Len(all) : all[k] = IF k <= Len(C) THEN C[k] ELSE kept[k - Len(C)]
  BY <1>6, Concatenated DEF all
<1> DEFINE c == Len(C)
           a == Len(all)
<1>a. a = c + m /\ c \in Nat /\ m \in Nat /\ \A k \in 1..a : all[k] = IF k <= c THEN C[k] ELSE kept[k - c]
  BY <1>2, <1>7
<1> HIDE DEF c, a
<1>8. \A j \in 1..Len(C) : j \in 1..Len(all) /\ all[j] = C[j]
  <2>1. \A j \in 1..c : j \in 1..a /\ all[j] = C[j]
    BY <1>a
  <2> QED
    BY <2>1 DEF c, a
<1>9. \A i \in 1..m : Len(C) + i \in 1..Len(all) /\ all[Len(C) + i] = kept[i]
  <2>1. \A i \in 1..m : c + i \in 1..a /\ ~ c + i <= c /\ (c + i) - c = i
    BY <1>a
  <2>2. \A i \in 1..m : c + i \in 1..a /\ all[c + i] = kept[i]
    BY <1>a, <2>1
  <2> QED
    BY <2>2 DEF c, a
<1>b. \A k \in 1..Len(all) : k \in 1..Len(C) \/ \E i \in 1..m : k = Len(C) + i
  <2>1. \A k \in 1..a : k \in 1..c \/ (k - c \in 1..m /\ k = c + (k - c))
    BY <1>a
  <2> QED
    BY <2>1 DEF c, a
<1>10. \A r : CollectedAs(C, r) => CollectedAs(all, r)
  BY <1>8 DEF CollectedAs
<1>11. Backed(p, S, all)
  <2> SUFFICES ASSUME NEW j \in 1..Len(all)
               PROVE  OverlapsWindow(all[j]) /\ StillListed(p, S, all[j])
    BY DEF Backed
  <2>1. CASE j \in 1..Len(C)
    BY <1>8, <2>1 DEF Backed
  <2>2. CASE \E i \in 1..m : j = Len(C) + i
    <3>1. PICK i \in 1..m : all[j] = kept[i]
      BY <1>9, <2>2
    <3>2. PICK k \in K : all[j] = At(p, S, e, o + k)
      BY <1>6, <3>1
    <3>3. o + k \in 1..Len(S[e]) /\ OverlapsWindow(all[j])
      BY <1>4, <3>2
    <3>4. StillListed(p, S, all[j])
      BY <3>2, <3>3 DEF StillListed, Alike
    <3> QED
      BY <3>3, <3>4
  <2> QED
    BY <1>b, <2>1, <2>2
<1>12. Covered(p, S, all, e, o + n)
  <2> SUFFICES ASSUME NEW k \in 1..Len(S[e]), k <= o + n, S[e][k].id > 0, OverlapsWindow(At(p, S, e, k))
               PROVE  CollectedAs(all, At(p, S, e, k))
    BY DEF Covered
  <2>1. CASE k <= o
    BY <1>10, <2>1 DEF Covered
  <2>2. CASE ~ k <= o
    <3>1. k - o \in 1..n /\ o + (k - o) = k
      BY <1>3, <2>2
    <3>2. k - o \in K
      BY <1>5, <3>1
    <3>3. PICK i \in 1..m : turns[i] = k - o
      BY <1>2, <3>2
    <3>4. kept[i] = At(p, S, e, k)
      BY <1>6, <3>1, <3>3
    <3>5. Len(C) + i \in 1..Len(all) /\ all[Len(C) + i] = At(p, S, e, k)
      BY <1>9, <3>4
    <3> QED
      BY <3>5 DEF CollectedAs
  <2> QED
    BY <1>3, <2>1, <2>2
<1> QED
  BY <1>7, <1>10, <1>11, <1>12 DEF all
-----------------------------------------------------------------------------
\* What holds of a pool at any time.
Fetches == [endpoint : Endpoints \cup {"none", "over"}, offset : Nat, scanned : Nat, total : Int]
Statuses == [Endpoints -> {"none", "complete", "partial"}]
Originals(S, e) == {k \in 1..Len(S[e]) : S[e][k].id > 0}

\* The thread has looked at the runs up to its offset, below the limit; the runs it
\* started from are no more than the server announced.
Paging(p, S, F, C) ==
  /\ F.offset = F.scanned /\ F.scanned < Limit
  /\ F.endpoint \in Endpoints =>
       /\ Covered(p, S, C, F.endpoint, F.offset)
       /\ F.total \notin {Unseen, Unknown} => Cardinality(Originals(S, F.endpoint)) <= F.total

\* An endpoint said to be complete was read to its end, or outgrew the limit.
ReadOut(p, S, C, ST) ==
  \A e \in Endpoints : ST[e] = "complete" =>
    \/ Covered(p, S, C, e, Len(S[e]))
    \/ Limit < Len(S[e]) /\ Cardinality(Originals(S, e)) <= Limit
PoolState(p, S, F, C, ST) ==
  /\ S \in ServerLists /\ F \in Fetches /\ C \in Seq(SparkRecord) /\ ST \in Statuses
  /\ Kin(p, S) /\ Fresh(S) /\ Backed(p, S, C)
  /\ Paging(p, S, F, C) /\ ReadOut(p, S, C, ST)

NextEndpoint(e) == IF e = "batch" THEN "session" ELSE "over"

\* Before a thread starts there is nothing it should have looked at.
LEMMA NothingCovered ==
    ASSUME NEW p, NEW S, NEW C, NEW e, Len(S[e]) \in Nat
    PROVE  Covered(p, S, C, e, 0)
BY DEF Covered

\* The thread starts with the batches.
LEMMA StateStarted ==
    ASSUME NEW p \in PoolNames, NEW S, NEW F, NEW C, NEW ST, PoolState(p, S, F, C, ST), F = Idle
    PROVE  PoolState(p, S, [F EXCEPT !.endpoint = "batch"], C, ST)
<1> DEFINE G == [F EXCEPT !.endpoint = "batch"]
<1>1. /\ G \in Fetches /\ G.endpoint = "batch" /\ G.offset = 0 /\ G.scanned = 0 /\ G.total = Unseen
      /\ F.endpoint = "none" /\ F.offset = F.scanned /\ F.scanned < Limit /\ F.scanned = 0
  BY DEF PoolState, Paging, Fetches, Idle, Endpoints, Unseen
<1> HIDE DEF G
<1>2. Covered(p, S, C, "batch", 0)
  <2>1. Len(S["batch"]) \in Nat
    BY DEF PoolState, ServerLists, Endpoints
  <2> QED
    BY <2>1, NothingCovered
<1>3. Paging(p, S, G, C)
  BY <1>1, <1>2 DEF Paging
<1> QED
  BY <1>1, <1>3 DEF PoolState, G

\* The thread leaves an endpoint, with more records and a status that is justified.
LEMMA StateLeft ==
    ASSUME NEW p \in PoolNames, NEW S, NEW F, NEW C, NEW ST, PoolState(p, S, F, C, ST), F.endpoint \in Endpoints,
           NEW D \in Seq(SparkRecord), Backed(p, S, D), \A r : CollectedAs(C, r) => CollectedAs(D, r),
           NEW status \in {"complete", "partial"},
           status = "complete" =>
             \/ Covered(p, S, D, F.endpoint, Len(S[F.endpoint]))
             \/ Limit < Len(S[F.endpoint]) /\ Cardinality(Originals(S, F.endpoint)) <= Limit
    PROVE  PoolState(p, S, [Idle EXCEPT !.endpoint = NextEndpoint(F.endpoint)], D, [ST EXCEPT ![F.endpoint] = status])
<1> DEFINE G == [Idle EXCEPT !.endpoint = NextEndpoint(F.endpoint)]
           SU == [ST EXCEPT ![F.endpoint] = status]
<1>1. /\ G \in Fetches /\ G.offset = 0 /\ G.scanned = 0 /\ G.total = Unseen /\ Limit \in Nat /\ 0 < Limit
      /\ F.endpoint = "batch" => G.endpoint = "session"
      /\ F.endpoint = "session" => G.endpoint = "over"
      /\ F.endpoint \in {"batch", "session"}
  BY SparkAssumption DEF Fetches, Idle, Endpoints, Unseen, NextEndpoint
<1>2. ST \in Statuses
  BY DEF PoolState
<1>3. /\ SU \in Statuses /\ SU[F.endpoint] = status
      /\ \A e \in Endpoints : e # F.endpoint => SU[e] = ST[e]
  BY <1>2 DEF Statuses
<1>4. \A e \in Endpoints : Covered(p, S, C, e, Len(S[e])) => Covered(p, S, D, e, Len(S[e]))
  BY DEF Covered
<1> HIDE DEF G, SU
<1>5. Paging(p, S, G, D)
  <2>1. \A e \in Endpoints : Len(S[e]) \in Nat
    BY DEF PoolState, ServerLists
  <2>2. \A e \in Endpoints : Covered(p, S, D, e, 0)
    BY <2>1, NothingCovered
  <2> QED
    BY <1>1, <2>2 DEF Paging
<1>6. ReadOut(p, S, D, SU)
  BY <1>3, <1>4 DEF ReadOut, PoolState
<1> QED
  BY <1>1, <1>3, <1>5, <1>6 DEF PoolState, G, SU

\* The thread goes on to the next page.
LEMMA StatePaged ==
    ASSUME NEW p \in PoolNames, NEW S, NEW F, NEW C, NEW ST, PoolState(p, S, F, C, ST), F.endpoint \in Endpoints,
           NEW D \in Seq(SparkRecord), Backed(p, S, D), \A r : CollectedAs(C, r) => CollectedAs(D, r),
           NEW n \in Nat, n < Limit, Covered(p, S, D, F.endpoint, n),
           NEW total \in Int, total \notin {Unseen, Unknown} => Cardinality(Originals(S, F.endpoint)) <= total
    PROVE  PoolState(p, S, [F EXCEPT !.offset = n, !.scanned = n, !.total = total], D, ST)
<1> DEFINE G == [F EXCEPT !.offset = n, !.scanned = n, !.total = total]
<1>1. G \in Fetches /\ G.endpoint = F.endpoint /\ G.offset = n /\ G.scanned = n /\ G.total = total
  BY DEF PoolState, Fetches
<1> HIDE DEF G
<1>2. \A e \in Endpoints : Covered(p, S, C, e, Len(S[e])) => Covered(p, S, D, e, Len(S[e]))
  BY DEF Covered
<1>3. Paging(p, S, G, D)
  BY <1>1 DEF Paging
<1>4. ReadOut(p, S, D, ST)
  BY <1>1, <1>2 DEF PoolState, ReadOut
<1> QED
  BY <1>1, <1>3, <1>4 DEF PoolState, G
-----------------------------------------------------------------------------
\* One observation of a run after another: it counts the same, and may know more.
Follows(x, y) ==
  /\ Identity(y) = Identity(x) /\ Alike(y, x)
  /\ HasUsage(x) => HasUsage(y)
  /\ OverlapsWindow(y) => OverlapsWindow(x)

\* A later list of the server's: runs arrived at its front, one may have ended.
Later(p, S, Z, shift) ==
  /\ S \in ServerLists /\ Z \in ServerLists /\ shift \in [Endpoints -> Nat]
  /\ \A e \in Endpoints : Len(Z[e]) = Len(S[e]) + shift[e]
  /\ \A e \in Endpoints : \A i \in 1..Len(S[e]) :
       Follows(At(p, S, e, i), At(p, Z, e, i + shift[e])) /\ Z[e][i + shift[e]].id = S[e][i].id
  /\ \A e \in Endpoints : \A k \in 1..Len(Z[e]) : k <= shift[e] => Z[e][k].id <= 0

\* A run of a list, and its number.
LEMMA ListedRun ==
    ASSUME NEW S \in ServerLists, NEW e \in Endpoints
    PROVE  Len(S[e]) \in Nat /\ \A i \in 1..Len(S[e]) : S[e][i] \in ServerRun /\ S[e][i].id \in Int
<1>1. S[e] \in Seq(ServerRun)
  BY DEF ServerLists
<1>2. Len(S[e]) \in Nat /\ \A i \in 1..Len(S[e]) : S[e][i] \in ServerRun
  BY <1>1
<1> QED
  BY <1>2 DEF ServerRun

\* The positions of the later list.
LEMMA LaterPositions ==
    ASSUME NEW p, NEW S, NEW Z, NEW shift, Later(p, S, Z, shift), NEW e \in Endpoints
    PROVE  /\ Len(S[e]) \in Nat /\ Len(Z[e]) \in Nat /\ shift[e] \in Nat /\ Len(Z[e]) = Len(S[e]) + shift[e]
           /\ \A i \in 1..Len(S[e]) : i + shift[e] \in 1..Len(Z[e])
           /\ \A k \in 1..Len(Z[e]) : \/ k <= shift[e] /\ Z[e][k].id <= 0
                                      \/ k - shift[e] \in 1..Len(S[e]) /\ (k - shift[e]) + shift[e] = k
<1>1. Len(S[e]) \in Nat /\ Len(Z[e]) \in Nat /\ shift[e] \in Nat /\ Len(Z[e]) = Len(S[e]) + shift[e]
  BY DEF Later, ServerLists
<1>2. \A k \in 1..Len(Z[e]) : k <= shift[e] => Z[e][k].id <= 0
  BY DEF Later
<1> DEFINE a == Len(S[e])
           b == Len(Z[e])
           s == shift[e]
<1> HIDE DEF a, b, s
<1>3. a \in Nat /\ b \in Nat /\ s \in Nat /\ b = a + s
  BY <1>1 DEF a, b, s
<1>4. /\ \A i \in 1..a : i + s \in 1..b
      /\ \A k \in 1..b : k <= s \/ (k - s \in 1..a /\ (k - s) + s = k)
  BY <1>3
<1> QED
  BY <1>1, <1>2, <1>4 DEF a, b, s

\* As many runs were there from the start.
LEMMA LaterOriginals ==
    ASSUME NEW p, NEW S, NEW Z, NEW shift, Later(p, S, Z, shift), NEW e \in Endpoints
    PROVE  Cardinality(Originals(Z, e)) = Cardinality(Originals(S, e)) /\ Cardinality(Originals(S, e)) \in Nat
<1> DEFINE A == Originals(S, e)
           B == Originals(Z, e)
           f == [i \in A |-> i + shift[e]]
<1>1. /\ Len(S[e]) \in Nat /\ shift[e] \in Nat
      /\ \A i \in 1..Len(S[e]) : i + shift[e] \in 1..Len(Z[e])
      /\ \A k \in 1..Len(Z[e]) : \/ k <= shift[e] /\ Z[e][k].id <= 0
                                 \/ k - shift[e] \in 1..Len(S[e]) /\ (k - shift[e]) + shift[e] = k
  BY LaterPositions
<1>2. /\ \A i \in 1..Len(S[e]) : Z[e][i + shift[e]].id = S[e][i].id /\ S[e][i].id \in Int
      /\ \A k \in 1..Len(Z[e]) : Z[e][k].id \in Int
  BY ListedRun DEF Later
<1>3. IsFiniteSet(A)
  <2>1. IsFiniteSet(1..Len(S[e]))
    BY <1>1, FS_Interval
  <2>2. A \subseteq 1..Len(S[e])
    BY DEF Originals
  <2> QED
    BY <2>1, <2>2, FS_Subset
<1>4. \A i \in A : i \in 1..Len(S[e]) /\ f[i] = i + shift[e] /\ f[i] \in B
  BY <1>1, <1>2 DEF Originals
<1>5. \A k \in Int : k <= 0 => ~ k > 0
  OBVIOUS
<1>6. ASSUME NEW k \in B
      PROVE  \E i \in A : f[i] = k
  <2>1. k \in 1..Len(Z[e]) /\ Z[e][k].id > 0 /\ Z[e][k].id \in Int
    BY <1>2 DEF Originals
  <2>2. k - shift[e] \in 1..Len(S[e]) /\ (k - shift[e]) + shift[e] = k
    BY <1>1, <1>5, <2>1
  <2>3. k - shift[e] \in A
    BY <1>2, <2>1, <2>2 DEF Originals
  <2> QED
    BY <2>2, <2>3
<1>7. \A i, j \in A : f[i] = f[j] => i = j
  BY <1>1, <1>4
<1>8. f \in Bijection(A, B)
  <2>1. f \in [A -> B]
    BY <1>4
  <2> HIDE DEF f, A, B
  <2> QED
    BY <1>6, <1>7, <2>1 DEF Bijection, Injection, Surjection, IsInjective
<1> HIDE DEF f, A, B
<1>9. Cardinality(A) = Cardinality(B)
  BY <1>3, <1>8, FS_Bijection DEF ExistsBijection
<1> QED
  BY <1>3, <1>9, FS_CardinalityType DEF A, B

\* What held of a pool holds once its lists are later ones.
LEMMA StateLater ==
    ASSUME NEW p \in PoolNames, NEW S, NEW F, NEW C, NEW ST, PoolState(p, S, F, C, ST),
           NEW Z, NEW shift, Later(p, S, Z, shift), Kin(p, Z), Fresh(Z)
    PROVE  PoolState(p, Z, F, C, ST)
<1>1. /\ S \in ServerLists /\ Z \in ServerLists /\ C \in Seq(SparkRecord) /\ F \in Fetches
      /\ Backed(p, S, C) /\ Paging(p, S, F, C) /\ ReadOut(p, S, C, ST)
  BY DEF PoolState, Later
<1>2. Backed(p, Z, C)
  <2> SUFFICES ASSUME NEW j \in 1..Len(C)
               PROVE  OverlapsWindow(C[j]) /\ StillListed(p, Z, C[j])
    BY DEF Backed
  <2> DEFINE c == C[j]
             Behind(X, e, i) == /\ Identity(At(p, X, e, i)) = Identity(c) /\ Alike(At(p, X, e, i), c)
                                /\ HasUsage(c) => HasUsage(At(p, X, e, i))
  <2>1. OverlapsWindow(c) /\ StillListed(p, S, c)
    BY <1>1 DEF Backed
  <2> HIDE DEF c
  <2>2. PICK e \in Endpoints : \E i \in 1..Len(S[e]) : Behind(S, e, i)
    BY <2>1, Zenon DEF StillListed
  <2>3. PICK i \in 1..Len(S[e]) : Behind(S, e, i)
    BY <2>2
  <2>4. Follows(At(p, S, e, i), At(p, Z, e, i + shift[e])) /\ i + shift[e] \in 1..Len(Z[e])
    BY LaterPositions DEF Later
  <2>5. Behind(Z, e, i + shift[e])
    BY <2>3, <2>4 DEF Follows, Alike
  <2>6. StillListed(p, Z, c)
    BY <2>4, <2>5, Zenon DEF StillListed
  <2> QED
    BY <2>1, <2>6 DEF c
<1>3. ASSUME NEW e \in Endpoints, NEW n \in Nat, Covered(p, S, C, e, n),
             NEW m \in Nat, m <= n + shift[e]
      PROVE  Covered(p, Z, C, e, m)
  <2> SUFFICES ASSUME NEW k \in 1..Len(Z[e]), k <= m, Z[e][k].id > 0, OverlapsWindow(At(p, Z, e, k))
               PROVE  CollectedAs(C, At(p, Z, e, k))
    BY DEF Covered
  <2>1. Z[e][k].id \in Int
    BY <1>1, ListedRun
  <2>2. k - shift[e] \in 1..Len(S[e]) /\ (k - shift[e]) + shift[e] = k /\ shift[e] \in Nat
    BY <2>1, LaterPositions
  <2> DEFINE i == k - shift[e]
  <2>3. i \in 1..Len(S[e]) /\ i + shift[e] = k /\ i <= n
    BY <1>3, <2>2
  <2> HIDE DEF i
  <2>4. Follows(At(p, S, e, i), At(p, Z, e, k)) /\ Z[e][k].id = S[e][i].id
    BY <2>3 DEF Later
  <2>5. CollectedAs(C, At(p, S, e, i))
    BY <1>3, <2>3, <2>4 DEF Covered, Follows
  <2> QED
    BY <2>4, <2>5 DEF Follows, CollectedAs
<1>4. Paging(p, Z, F, C)
  <2>1. ASSUME F.endpoint \in Endpoints
        PROVE  Covered(p, Z, C, F.endpoint, F.offset)
    <3>1. F.offset \in Nat /\ shift[F.endpoint] \in Nat /\ Covered(p, S, C, F.endpoint, F.offset)
      BY <1>1, <2>1 DEF Fetches, Later, Paging
    <3>2. F.offset <= F.offset + shift[F.endpoint]
      BY <3>1
    <3> QED
      BY <1>3, <2>1, <3>1, <3>2
  <2>2. ASSUME F.endpoint \in Endpoints
        PROVE  Cardinality(Originals(Z, F.endpoint)) = Cardinality(Originals(S, F.endpoint))
    BY <2>2, LaterOriginals
  <2> QED
    BY <1>1, <2>1, <2>2 DEF Paging
<1>5. ReadOut(p, Z, C, ST)
  <2> SUFFICES ASSUME NEW e \in Endpoints, ST[e] = "complete"
               PROVE  \/ Covered(p, Z, C, e, Len(Z[e]))
                      \/ Limit < Len(Z[e]) /\ Cardinality(Originals(Z, e)) <= Limit
    BY DEF ReadOut
  <2>1. Len(S[e]) \in Nat /\ Len(Z[e]) \in Nat /\ shift[e] \in Nat /\ Len(Z[e]) = Len(S[e]) + shift[e]
    BY LaterPositions
  <2>2. CASE Covered(p, S, C, e, Len(S[e]))
    <3>1. Len(Z[e]) <= Len(S[e]) + shift[e]
      BY <2>1
    <3> QED
      BY <1>3, <2>1, <2>2, <3>1
  <2>3. CASE Limit < Len(S[e]) /\ Cardinality(Originals(S, e)) <= Limit
    <3>1. Limit < Len(Z[e])
      BY <2>1, <2>3, SparkAssumption
    <3> QED
      BY <2>3, <3>1, LaterOriginals
  <2> QED
    BY <1>1, <2>2, <2>3 DEF ReadOut
<1> QED
  BY <1>1, <1>2, <1>4, <1>5 DEF PoolState

\* A run that arrived meanwhile is like any observation of the same run.
LEMMA FreshAlike ==
    ASSUME NEW p \in PoolNames, NEW S \in ServerLists, Fresh(S), NEW e \in Endpoints, NEW f \in Endpoints,
           NEW i \in 1..Len(S[e]), NEW j \in 1..Len(S[f]), S[e][i].id <= 0,
           Identity(At(p, S, e, i)) = Identity(At(p, S, f, j))
    PROVE  S[f][j].id <= 0 /\ Alike(At(p, S, e, i), At(p, S, f, j))
<1> DEFINE x == At(p, S, e, i)
           y == At(p, S, f, j)
<1>1. /\ x.id = S[e][i].id /\ x.from = S[e][i].from /\ x.to = S[e][i].to /\ x.vcores = S[e][i].vcores /\ x.app = S[e][i].app
      /\ y.id = S[f][j].id /\ y.from = S[f][j].from /\ y.to = S[f][j].to /\ y.vcores = S[f][j].vcores /\ y.app = S[f][j].app
  BY AtIs
<1>2. x.app = "none" /\ x.to = NoTime /\ x.vcores = 0
  BY <1>1 DEF Fresh
<1>3. Identity(x) = Identity(y)
  OBVIOUS
<1> HIDE DEF x, y
<1>4. Identity(x) = <<"livy", x.pool, x.endpoint, x.id, x.from, x.kind>>
  BY <1>2 DEF Identity
<1>5. y.app = "none"
  <2>1. CASE y.app # "none"
    <3>1. Identity(y)[1] = "application" /\ Identity(x)[1] = "livy"
      BY <1>4, <2>1 DEF Identity
    <3> QED
      BY <1>3, <3>1
  <2> QED
    BY <2>1
<1>6. Identity(y) = <<"livy", y.pool, y.endpoint, y.id, y.from, y.kind>>
  BY <1>5 DEF Identity
<1>7. y.id = x.id /\ y.from = x.from /\ y.kind = x.kind
  <2>1. Identity(x)[4] = x.id /\ Identity(x)[5] = x.from /\ Identity(x)[6] = x.kind
    BY <1>4
  <2>2. Identity(y)[4] = y.id /\ Identity(y)[5] = y.from /\ Identity(y)[6] = y.kind
    BY <1>6
  <2> QED
    BY <1>3, <2>1, <2>2
<1>8. S[f][j].id <= 0
  BY <1>1, <1>7
<1>9. y.to = NoTime /\ y.vcores = 0
  BY <1>1, <1>8 DEF Fresh
<1> QED
  BY <1>2, <1>7, <1>8, <1>9 DEF Alike, Clip, Size, x, y

\* Observations of one run still count the same in a later list.
LEMMA LaterKin ==
    ASSUME NEW p \in PoolNames, NEW S, NEW Z, NEW shift, Later(p, S, Z, shift), Kin(p, S), Fresh(Z)
    PROVE  Kin(p, Z)
<1> SUFFICES ASSUME NEW e \in Endpoints, NEW f \in Endpoints, NEW k \in 1..Len(Z[e]), NEW l \in 1..Len(Z[f]),
                    Identity(At(p, Z, e, k)) = Identity(At(p, Z, f, l))
             PROVE  Alike(At(p, Z, e, k), At(p, Z, f, l))
  BY DEF Kin
<1>1. Z \in ServerLists
  BY DEF Later
<1>2. CASE Z[e][k].id <= 0
  BY <1>1, <1>2, FreshAlike
<1>3. CASE Z[f][l].id <= 0
  BY <1>1, <1>3, FreshAlike DEF Alike
<1>4. CASE ~ Z[e][k].id <= 0 /\ ~ Z[f][l].id <= 0
  <2>1. k - shift[e] \in 1..Len(S[e]) /\ (k - shift[e]) + shift[e] = k
    BY <1>4, LaterPositions
  <2>2. l - shift[f] \in 1..Len(S[f]) /\ (l - shift[f]) + shift[f] = l
    BY <1>4, LaterPositions
  <2> DEFINE x == At(p, S, e, k - shift[e])
             y == At(p, S, f, l - shift[f])
  <2>3. Follows(x, At(p, Z, e, k)) /\ Follows(y, At(p, Z, f, l))
    BY <2>1, <2>2 DEF Later
  <2>4. Identity(x) = Identity(y)
    BY <2>3 DEF Follows
  <2>5. Alike(x, y)
    BY <2>1, <2>2, <2>4 DEF Kin
  <2> HIDE DEF x, y
  <2> QED
    BY <2>3, <2>5 DEF Follows, Alike
<1> QED
  BY <1>2, <1>3, <1>4

\* A run arrives at the front of a list.
LEMMA StateArrived ==
    ASSUME NEW p \in PoolNames, NEW S, NEW F, NEW C, NEW ST, PoolState(p, S, F, C, ST), NEW e \in Endpoints,
           NEW new \in ServerRun, new.id <= 0, new.app = "none", new.from = CollectionEnd, new.to = NoTime,
           new.vcores = 0
    PROVE  PoolState(p, [S EXCEPT ![e] = <<new>> \o @], F, C, ST)
<1> DEFINE Z == [S EXCEPT ![e] = <<new>> \o @]
           shift == [f \in Endpoints |-> IF f = e THEN 1 ELSE 0]
           L == S[e]
           M == <<new>> \o L
<1>1. S \in ServerLists /\ Fresh(S) /\ Kin(p, S)
  BY DEF PoolState
<1>2. L \in Seq(ServerRun) /\ <<new>> \in Seq(ServerRun) /\ Len(<<new>>) = 1 /\ <<new>>[1] = new
  BY <1>1 DEF ServerLists
<1> HIDE DEF L
<1>3. /\ M \in Seq(ServerRun) /\ Len(M) = Len(L) + 1 /\ Len(L) \in Nat
      /\ \A k \in 1..Len(M) : M[k] = IF k <= 1 THEN <<new>>[k] ELSE L[k - 1]
  <2>1. /\ M \in Seq(ServerRun) /\ Len(M) = Len(<<new>>) + Len(L) /\ Len(L) \in Nat
        /\ \A k \in 1..Len(M) : M[k] = IF k <= Len(<<new>>) THEN <<new>>[k] ELSE L[k - Len(<<new>>)]
    BY <1>2, Concatenated
  <2> QED
    BY <1>2, <2>1
<1>4. /\ Z \in ServerLists /\ Z[e] = M /\ shift \in [Endpoints -> Nat] /\ shift[e] = 1
      /\ \A f \in Endpoints : f # e => Z[f] = S[f] /\ shift[f] = 0 /\ Len(S[f]) \in Nat
  BY <1>1, <1>3 DEF ServerLists, L
<1> DEFINE n == Len(L)
           b == Len(M)
<1> HIDE DEF Z, shift, M, n, b
<1>5. M[1] = new /\ \A i \in 1..Len(L) : i + 1 \in 1..Len(M) /\ M[i + 1] = L[i]
  <2>1. n \in Nat /\ b = n + 1 /\ \A k \in 1..b : M[k] = IF k <= 1 THEN <<new>>[k] ELSE L[k - 1]
    BY <1>3 DEF n, b
  <2>2. M[1] = new
    BY <1>2, <2>1
  <2>3. \A i \in 1..n : i + 1 \in 1..b /\ M[i + 1] = L[i]
    BY <2>1
  <2> QED
    BY <2>2, <2>3 DEF n, b
<1>6. ASSUME NEW f \in Endpoints
      PROVE  /\ Len(Z[f]) = Len(S[f]) + shift[f]
             /\ \A i \in 1..Len(S[f]) : Z[f][i + shift[f]] = S[f][i]
             /\ \A k \in 1..Len(Z[f]) : k <= shift[f] => Z[f][k] = new
  <2>1. CASE f = e
    <3>1. \A k \in 1..Len(M) : k <= 1 => k = 1
      BY <1>3
    <3> QED
      BY <1>3, <1>4, <1>5, <2>1, <3>1 DEF L
  <2>2. CASE f # e
    <3>1. \A k \in 1..Len(S[f]) : ~ k <= 0 /\ k + 0 = k
      BY <1>4, <2>2
    <3>2. Len(S[f]) = Len(S[f]) + 0
      BY <1>4, <2>2
    <3> QED
      BY <1>4, <2>2, <3>1, <3>2
  <2> QED
    BY <2>1, <2>2
<1>7. Later(p, S, Z, shift)
  <2>1. ASSUME NEW f \in Endpoints, NEW i \in 1..Len(S[f])
        PROVE  Follows(At(p, S, f, i), At(p, Z, f, i + shift[f])) /\ Z[f][i + shift[f]].id = S[f][i].id
    <3>1. At(p, Z, f, i + shift[f]) = At(p, S, f, i)
      BY <1>6 DEF At
    <3> QED
      BY <1>6, <3>1 DEF Follows, Alike
  <2> QED
    BY <1>1, <1>4, <1>6, <2>1 DEF Later
<1>8. Fresh(Z)
  <2> SUFFICES ASSUME NEW f \in Endpoints, NEW k \in 1..Len(Z[f]), Z[f][k].id <= 0
               PROVE  /\ Z[f][k].app = "none" /\ Z[f][k].from = CollectionEnd
                      /\ Z[f][k].to = NoTime /\ Z[f][k].vcores = 0
    BY DEF Fresh
  <2>1. CASE k <= shift[f]
    BY <1>6, <2>1
  <2>2. CASE ~ k <= shift[f]
    <3>1. k - shift[f] \in 1..Len(S[f]) /\ (k - shift[f]) + shift[f] = k
      BY <1>7, <2>2, LaterPositions
    <3>2. Z[f][k] = S[f][k - shift[f]]
      BY <1>6, <3>1
    <3> QED
      BY <1>1, <3>1, <3>2 DEF Fresh
  <2> QED
    BY <2>1, <2>2
<1>9. Kin(p, Z)
  BY <1>1, <1>7, <1>8, LaterKin
<1> QED
  BY <1>7, <1>8, <1>9, StateLater DEF Z

\* A run ends where the window has ended, with a shape that was known or is now.
LEMMA StateEnded ==
    ASSUME NEW p \in PoolNames, NEW S, NEW F, NEW C, NEW ST, PoolState(p, S, F, C, ST), NEW e \in Endpoints,
           NEW i \in 1..Len(S[e]), S[e][i].to = NoTime, S[e][i].id > 0
    PROVE  PoolState(p, [S EXCEPT ![e][i] = Ended(@)], F, C, ST)
<1> DEFINE old == S[e][i]
           new == Ended(old)
           Z == [S EXCEPT ![e][i] = new]
           shift == [f \in Endpoints |-> 0]
<1>1. S \in ServerLists /\ Fresh(S) /\ Kin(p, S)
  BY DEF PoolState
<1>2. old \in ServerRun /\ S[e] \in Seq(ServerRun) /\ Len(S[e]) \in Nat
  BY <1>1, ListedRun DEF ServerLists
<1> HIDE DEF old
<1>3. /\ new \in ServerRun /\ new.id = old.id /\ new.app = old.app /\ new.from = old.from /\ new.to = CollectionEnd
      /\ new.pipelineConf = old.pipelineConf /\ new.vcores = IF old.vcores = 0 THEN 1 ELSE old.vcores
      /\ CollectionEnd \in Int
  <2>1. CollectionEnd \in Int
    BY WindowEnds
  <2>2. "dead" \in Word /\ "succeeded" \in Word
    BY DEF Word
  <2> QED
    BY <1>2, <2>1, <2>2 DEF ServerRun, Ended
<1> HIDE DEF new
<1>4. /\ Z \in ServerLists /\ shift \in [Endpoints -> Nat]
      /\ \A f \in Endpoints : f # e => Z[f] = S[f]
      /\ Len(Z[e]) = Len(S[e]) /\ Z[e][i] = new /\ \A k \in 1..Len(S[e]) : k # i => Z[e][k] = S[e][k]
  BY <1>1, <1>2, <1>3 DEF ServerLists
<1>5. \A f \in Endpoints : shift[f] = 0
  OBVIOUS
<1> HIDE DEF Z, shift
<1>6. \A f \in Endpoints : Len(S[f]) \in Nat /\ Len(Z[f]) = Len(S[f])
  BY <1>1, <1>4, ListedRun
<1>7. ASSUME NEW f \in Endpoints, NEW k \in 1..Len(S[f]), ~ (f = e /\ k = i)
      PROVE  Z[f][k] = S[f][k]
  BY <1>4, <1>7
<1>8. Follows(At(p, S, e, i), At(p, Z, e, i)) /\ Z[e][i].id = S[e][i].id
  <2> DEFINE x == At(p, S, e, i)
             y == At(p, Z, e, i)
  <2>1. /\ x \in SparkRecord
        /\ x.id = old.id /\ x.from = old.from /\ x.to = NoTime /\ x.vcores = old.vcores /\ x.app = old.app
        /\ x.pool = p /\ x.endpoint = e /\ x.kind = ClassifyTrigger(old, e)
    BY <1>1, AtIs DEF old
  <2>2. /\ y.id = new.id /\ y.from = new.from /\ y.to = new.to /\ y.vcores = new.vcores /\ y.app = new.app
        /\ y.pool = p /\ y.endpoint = e /\ y.kind = ClassifyTrigger(new, e)
    <3>1. i \in 1..Len(Z[e]) /\ Z \in ServerLists /\ Z[e][i] = new
      BY <1>4
    <3> QED
      BY <3>1, AtIs
  <2>3. ClassifyTrigger(new, e) = ClassifyTrigger(old, e)
    BY <1>3 DEF ClassifyTrigger
  <2> HIDE DEF x, y
  <2>4. Identity(y) = Identity(x)
    BY <1>3, <2>1, <2>2, <2>3 DEF Identity
  <2>5. ObservationEnd \in Int /\ ObservationEnd <= CollectionEnd /\ CollectionEnd # NoTime
    <3>1. Days * DayLength \in Nat
      BY SparkAssumption
    <3>2. CollectionEnd # NoTime
      BY <3>1 DEF CollectionEnd, NoTime
    <3> QED
      BY <3>2, WindowEnds
  <2>6. Clip(y) = Clip(x)
    BY <1>3, <2>1, <2>2, <2>5 DEF Clip, Lower
  <2>7. Size(y) = Size(x) /\ (HasUsage(x) => HasUsage(y))
    BY <1>3, <2>1, <2>2 DEF Size, HasUsage
  <2>8. OverlapsWindow(y) => OverlapsWindow(x)
    BY <1>3, <2>1, <2>2 DEF OverlapsWindow
  <2> QED
    BY <1>3, <1>4, <2>1, <2>2, <2>3, <2>4, <2>6, <2>7, <2>8, <1>3 DEF Follows, Alike, x, y, old
<1>9. Later(p, S, Z, shift)
  <2>1. ASSUME NEW f \in Endpoints, NEW k \in 1..Len(S[f])
        PROVE  Follows(At(p, S, f, k), At(p, Z, f, k)) /\ Z[f][k].id = S[f][k].id
    <3>1. CASE f = e /\ k = i
      BY <1>8, <3>1
    <3>2. CASE ~ (f = e /\ k = i)
      <4>1. Z[f][k] = S[f][k]
        BY <1>7, <3>2
      <4>2. At(p, Z, f, k) = At(p, S, f, k)
        BY <4>1 DEF At
      <4> QED
        BY <4>1, <4>2 DEF Follows, Alike
    <3> QED
      BY <3>1, <3>2
  <2>2. \A f \in Endpoints : \A k \in 1..Len(S[f]) : k + shift[f] = k /\ ~ k <= shift[f]
    BY <1>5, <1>6
  <2>3. \A f \in Endpoints : Len(Z[f]) = Len(S[f]) + shift[f]
    BY <1>5, <1>6
  <2> QED
    BY <1>1, <1>4, <1>6, <2>1, <2>2, <2>3 DEF Later
<1>10. Fresh(Z)
  <2> SUFFICES ASSUME NEW f \in Endpoints, NEW k \in 1..Len(S[f]), Z[f][k].id <= 0
               PROVE  /\ Z[f][k].app = "none" /\ Z[f][k].from = CollectionEnd
                      /\ Z[f][k].to = NoTime /\ Z[f][k].vcores = 0
    BY <1>6 DEF Fresh
  <2>1. ~ (f = e /\ k = i)
    <3>1. CASE f = e /\ k = i
      <4>1. old.id <= 0 /\ old.id > 0 /\ old.id \in Int
        BY <1>2, <1>3, <1>4, <3>1 DEF old, ServerRun
      <4> QED
        BY <4>1
    <3> QED
      BY <3>1
  <2> QED
    BY <1>1, <1>7, <2>1 DEF Fresh
<1>11. Kin(p, Z)
  BY <1>1, <1>9, <1>10, LaterKin
<1>12. PoolState(p, Z, F, C, ST)
  BY <1>9, <1>10, <1>11, StateLater
<1> QED
  BY <1>12 DEF Z, new, old
-----------------------------------------------------------------------------
\* A page of a list, and the part of it within a limit.
PageIn(L, o, g) == SubSeq(L, o + 1, Lower(o + g, Len(L)))
PartOf(page, left) == SubSeq(page, 1, Lower(Len(page), left))

\* A page goes on from its offset, and reaches the end of the list unless it is full.
LEMMA PageOf ==
    ASSUME NEW R, NEW L \in Seq(R), NEW o \in Nat, NEW g \in Nat \ {0},
           NEW page, page = PageIn(L, o, g)
    PROVE  /\ page \in Seq(R) /\ Len(page) \in Nat
           /\ page = <<>> <=> Len(page) = 0
           /\ Len(page) = 0 => Len(L) <= o
           /\ Len(page) <= g
           /\ Len(page) > 0 => o + Len(page) <= Len(L)
           /\ Len(page) < g /\ Len(page) > 0 => o + Len(page) = Len(L)
           /\ \A i \in 1..Len(page) : page[i] = L[o + i]
<1> DEFINE n == Len(L)
           h == Lower(o + g, n)
           b == Len(page)
<1>1. n \in Nat /\ \A i \in 1..n : L[i] \in R
  OBVIOUS
<1> HIDE DEF n
<1>2. h \in Int /\ h <= n /\ h <= o + g /\ (h = n \/ h = o + g)
  BY <1>1 DEF Lower
<1> HIDE DEF h
<1>3. o + 1 \in Int /\ \A i \in (o + 1)..h : L[i] \in R
  BY <1>1, <1>2
<1>4. /\ page \in Seq(R) /\ b = IF o + 1 <= h THEN h - (o + 1) + 1 ELSE 0
      /\ \A i \in 1..(h - (o + 1) + 1) : page[i] = L[(o + 1) + i - 1]
  <2>1. page = SubSeq(L, o + 1, h)
    BY DEF h, n, PageIn
  <2> DEFINE q == SubSeq(L, o + 1, h)
  <2>2. /\ q \in Seq(R) /\ Len(q) = IF o + 1 <= h THEN h - (o + 1) + 1 ELSE 0
        /\ \A i \in 1..(h - (o + 1) + 1) : q[i] = L[(o + 1) + i - 1]
    BY <1>2, <1>3, SubSeqProperties
  <2> HIDE DEF q
  <2>3. page = q
    BY <2>1 DEF q
  <2> QED
    BY <2>2, <2>3
<1>5. page = <<>> <=> b = 0
  BY <1>4, EmptySeq
<1> HIDE DEF b
<1>6. b \in Nat /\ (b > 0 => b = h - o)
  BY <1>2, <1>4
<1>7. \A i \in 1..b : i \in 1..(h - (o + 1) + 1) /\ (o + 1) + i - 1 = o + i
  BY <1>2, <1>4
<1>8. \A i \in 1..b : page[i] = L[o + i]
  <2> TAKE i \in 1..b
  <2>1. i \in 1..(h - (o + 1) + 1) /\ (o + 1) + i - 1 = o + i
    BY <1>7
  <2>2. page[i] = L[(o + 1) + i - 1]
    BY <1>4, <2>1
  <2> QED
    BY <2>1, <2>2
<1>9. b <= g /\ (b = 0 => n <= o) /\ (b > 0 => o + b <= n) /\ (b < g /\ b > 0 => o + b = n)
  BY <1>1, <1>2, <1>4, <1>6
<1> QED
  BY <1>4, <1>5, <1>6, <1>8, <1>9 DEF b, n, h

\* The part of a page within the limit is its beginning.
LEMMA PartIs ==
    ASSUME NEW R, NEW page \in Seq(R), NEW left \in Nat, NEW taken, taken = PartOf(page, left)
    PROVE  /\ Len(taken) = Lower(Len(page), left)
           /\ \A i \in 1..Len(taken) : taken[i] = page[i] /\ i \in 1..Len(page)
<1> DEFINE b == Len(page)
           n == Lower(b, left)
<1>1. b \in Nat /\ \A i \in 1..b : page[i] \in R
  OBVIOUS
<1> HIDE DEF b
<1>2. n \in Nat /\ n <= b
  BY <1>1 DEF Lower
<1> HIDE DEF n
<1>3. \A i \in 1..n : page[i] \in R
  BY <1>1, <1>2
<1>4. /\ Len(taken) = IF 1 <= n THEN n - 1 + 1 ELSE 0
      /\ \A i \in 1..(n - 1 + 1) : taken[i] = page[1 + i - 1]
  <2>1. taken = SubSeq(page, 1, n)
    BY DEF n, b, PartOf
  <2> DEFINE q == SubSeq(page, 1, n)
  <2>2. /\ Len(q) = IF 1 <= n THEN n - 1 + 1 ELSE 0
        /\ \A i \in 1..(n - 1 + 1) : q[i] = page[1 + i - 1]
    BY <1>2, <1>3, SubSeqProperties
  <2> HIDE DEF q
  <2>3. taken = q
    BY <2>1 DEF q
  <2> QED
    BY <2>2, <2>3
<1> DEFINE t == Len(taken)
<1>5. t = n
  <2>1. t = IF 1 <= n THEN n - 1 + 1 ELSE 0
    BY <1>4
  <2> HIDE DEF t
  <2> QED
    BY <1>2, <2>1
<1>6. \A i \in 1..n : taken[i] = page[i] /\ i \in 1..b
  <2> TAKE i \in 1..n
  <2>1. i \in 1..(n - 1 + 1) /\ 1 + i - 1 = i /\ i \in 1..b
    BY <1>1, <1>2
  <2>2. taken[i] = page[1 + i - 1]
    BY <1>4, <2>1
  <2> QED
    BY <2>1, <2>2
<1> QED
  BY <1>5, <1>6 DEF n, b
-----------------------------------------------------------------------------
\* The page a thread reads, what it takes of it, and what it then knows.
PageAt(S, F) == PageIn(S[F.endpoint], F.offset, PageSize)
TakenAt(S, F) == PartOf(PageAt(S, F), Limit - F.scanned)
TotalAt(S, F) == IF F.total # Unseen THEN F.total ELSE IF ReportsTotal THEN Len(S[F.endpoint]) ELSE Unknown
ScannedAt(S, F) == F.scanned + Len(TakenAt(S, F))
KeptAt(p, S, F) ==
  LET taken == TakenAt(S, F)
      turns == InTurn({i \in 1..Len(taken) : OverlapsWindow(Normalize(taken[i], p, F.endpoint))})
  IN [i \in DOMAIN turns |-> Normalize(taken[turns[i]], p, F.endpoint)]

\* The status with which a thread leaves the endpoint, when it does.
StatusAt(S, F) ==
  IF /\ PageAt(S, F) # <<>> /\ ScannedAt(S, F) >= Limit => TotalAt(S, F) # Unknown
     /\ Reached(TotalAt(S, F), ScannedAt(S, F))
  THEN "complete" ELSE "partial"
Onwards(S, F) == PageAt(S, F) # <<>> /\ ScannedAt(S, F) < Limit /\ Len(PageAt(S, F)) = PageSize

\* What a round keeps are the records of the positions it took.
LEMMA KeptIs ==
    ASSUME NEW p, NEW S, NEW F, NEW o, F.offset = o, NEW n, n = Len(TakenAt(S, F)),
           \A i \in 1..n : TakenAt(S, F)[i] = S[F.endpoint][o + i],
           n \in Nat
    PROVE  KeptAt(p, S, F) = PageRecords(p, S, F.endpoint, o, n)
<1> DEFINE e == F.endpoint
           taken == TakenAt(S, F)
           A == {i \in 1..Len(taken) : OverlapsWindow(Normalize(taken[i], p, e))}
           B == {i \in 1..n : OverlapsWindow(At(p, S, e, o + i))}
           turns == InTurn(B)
<1>1. \A i \in 1..n : Normalize(taken[i], p, e) = At(p, S, e, o + i)
  BY DEF At
<1>2. A = B
  BY <1>1
<1>3. KeptAt(p, S, F) = [i \in DOMAIN InTurn(A) |-> Normalize(taken[InTurn(A)[i]], p, e)]
  BY Zenon DEF KeptAt
<1>4. PageRecords(p, S, e, o, n) = [i \in DOMAIN turns |-> At(p, S, e, o + turns[i])]
  BY Zenon DEF PageRecords, PageTurns
<1>5. IsFiniteSet(B) /\ B \subseteq 1..n
  <2>1. IsFiniteSet(1..n) /\ B \subseteq 1..n
    BY FS_Interval
  <2> HIDE DEF B
  <2> QED
    BY <2>1, FS_Subset
<1> HIDE DEF A, B
<1>6. \A i \in DOMAIN turns : turns[i] \in 1..n
  <2>1. B \subseteq Nat
    BY <1>5
  <2>2. turns \in [1..Cardinality(B) -> B]
    BY <1>5, <2>1, InTurnLists
  <2> HIDE DEF turns
  <2> QED
    BY <1>5, <2>2
<1> HIDE DEF turns, taken, e
<1>7. \A i \in DOMAIN turns : Normalize(taken[turns[i]], p, e) = At(p, S, e, o + turns[i])
  BY <1>1, <1>6
<1>8. InTurn(A) = turns
  BY <1>2 DEF turns
<1>9. KeptAt(p, S, F) = [i \in DOMAIN turns |-> Normalize(taken[turns[i]], p, e)]
  BY <1>3, <1>8
<1> QED
  BY <1>4, <1>7, <1>9 DEF e

\* A round of the paging loop, for the pool it reads.
LEMMA StateRead ==
    ASSUME NEW p \in PoolNames, NEW S, NEW F, NEW C, NEW ST, PoolState(p, S, F, C, ST), F.endpoint \in Endpoints
    PROVE  /\ ScannedAt(S, F) \in Nat
           /\ ~ Onwards(S, F) =>
                PoolState(p, S, [Idle EXCEPT !.endpoint = NextEndpoint(F.endpoint)], C \o KeptAt(p, S, F),
                          [ST EXCEPT ![F.endpoint] = StatusAt(S, F)])
           /\ Onwards(S, F) =>
                PoolState(p, S, [F EXCEPT !.offset = @ + Len(PageAt(S, F)), !.scanned = ScannedAt(S, F), !.total = TotalAt(S, F)],
                          C \o KeptAt(p, S, F), ST)
<1> DEFINE e == F.endpoint
           o == F.offset
           L == S[e]
           b == Len(PageAt(S, F))
           n == Len(TakenAt(S, F))
           c == Len(L)
           total == TotalAt(S, F)
           scanned == ScannedAt(S, F)
           D == C \o KeptAt(p, S, F)
           orig == Cardinality(Originals(S, e))
<1>1. /\ S \in ServerLists /\ F \in Fetches /\ C \in Seq(SparkRecord) /\ ST \in Statuses /\ Backed(p, S, C)
      /\ F.offset = F.scanned /\ F.scanned < Limit /\ Covered(p, S, C, e, o)
      /\ F.total \notin {Unseen, Unknown} => orig <= F.total
  BY DEF PoolState, Paging
<1>2. e \in Endpoints /\ o \in Nat /\ F.total \in Int /\ L \in Seq(ServerRun) /\ c \in Nat
  BY <1>1 DEF Fetches, ServerLists
<1>3. Limit \in Nat /\ PageSize \in Nat \ {0} /\ o < Limit /\ Limit - o \in Nat /\ F.scanned = o
  <2>1. Limit \in Nat /\ PageSize \in Nat \ {0}
    BY SparkAssumption
  <2> HIDE DEF o
  <2> QED
    BY <1>1, <1>2, <2>1 DEF o
<1>4. orig \in Nat /\ orig <= c
  <2>1. c \in Nat
    BY <1>2
  <2> HIDE DEF c
  <2>0. IsFiniteSet(1..c) /\ Cardinality(1..c) = c
    <3>1. IsFiniteSet(1..c) /\ Cardinality(1..c) = IF 1 > c THEN 0 ELSE c - 1 + 1
      BY <2>1, FS_Interval
    <3> QED
      BY <2>1, <3>1
  <2>2. Originals(S, e) \subseteq 1..c
    BY DEF Originals, c
  <2>3. IsFiniteSet(Originals(S, e)) /\ Cardinality(Originals(S, e)) <= Cardinality(1..c)
    BY <2>0, <2>2, FS_Subset
  <2> QED
    BY <2>0, <2>3, FS_CardinalityType
<1> HIDE DEF L, o, c, orig
<1>5. /\ PageAt(S, F) \in Seq(ServerRun) /\ b \in Nat /\ (PageAt(S, F) = <<>> <=> b = 0)
      /\ b <= PageSize /\ (b = 0 => c <= o) /\ (b > 0 => o + b <= c) /\ (b < PageSize /\ b > 0 => o + b = c)
      /\ \A i \in 1..b : PageAt(S, F)[i] = L[o + i]
  <2>1. PageAt(S, F) = PageIn(L, o, PageSize)
    BY DEF PageAt, L, o
  <2> DEFINE page == PageAt(S, F)
  <2>2. page = PageIn(L, o, PageSize)
    BY <2>1
  <2> HIDE DEF page
  <2>3. /\ page \in Seq(ServerRun) /\ Len(page) \in Nat /\ (page = <<>> <=> Len(page) = 0)
        /\ (Len(page) = 0 => Len(L) <= o) /\ Len(page) <= PageSize /\ (Len(page) > 0 => o + Len(page) <= Len(L))
        /\ (Len(page) < PageSize /\ Len(page) > 0 => o + Len(page) = Len(L))
        /\ \A i \in 1..Len(page) : page[i] = L[o + i]
    BY <1>2, <1>3, <2>2, PageOf
  <2> QED
    BY <2>3 DEF page, c
<1>6. /\ n = Lower(b, Limit - o) /\ n \in Nat /\ n <= b /\ o + n <= Limit /\ (o + n < Limit => n = b)
      /\ \A i \in 1..n : TakenAt(S, F)[i] = L[o + i]
  <2>1. TakenAt(S, F) = PartOf(PageAt(S, F), Limit - o)
    BY <1>3 DEF TakenAt
  <2>2. n = Lower(b, Limit - o) /\ \A i \in 1..n : TakenAt(S, F)[i] = PageAt(S, F)[i] /\ i \in 1..b
    BY <1>3, <1>5, <2>1, PartIs
  <2> HIDE DEF b, n
  <2>3. n \in Nat /\ n <= b /\ o + n <= Limit /\ (o + n < Limit => n = b)
    BY <1>2, <1>3, <1>5, <2>2 DEF Lower
  <2> QED
    BY <1>5, <2>2, <2>3
<1>7. scanned = o + n /\ scanned \in Nat
  <2>1. scanned = o + n
    BY <1>3 DEF ScannedAt
  <2> HIDE DEF scanned
  <2> QED
    BY <1>2, <1>6, <2>1
<1> HIDE DEF b, n, scanned, D
<1>8. KeptAt(p, S, F) = PageRecords(p, S, e, o, n)
  <2>1. F.offset = o /\ n = Len(TakenAt(S, F)) /\ \A i \in 1..n : TakenAt(S, F)[i] = S[F.endpoint][o + i]
    BY <1>6 DEF o, n, L
  <2> QED
    BY <1>6, <2>1, KeptIs
<1>9. n = 0 \/ o + n <= c
  BY <1>2, <1>5, <1>6
<1>10. D \in Seq(SparkRecord) /\ Backed(p, S, D) /\ Covered(p, S, D, e, o + n) /\ \A r : CollectedAs(C, r) => CollectedAs(D, r)
  <2>1. n = 0 \/ o + n <= Len(S[e])
    BY <1>9 DEF c, L
  <2> QED
    BY <1>1, <1>2, <1>6, <1>8, <2>1, PageKept DEF D
<1>11. total \in Int /\ (total \notin {Unseen, Unknown} => orig <= total)
  BY <1>1, <1>2, <1>4 DEF TotalAt, Unknown, c, L
<1> HIDE DEF total
<1>12. ASSUME ~ Onwards(S, F)
       PROVE  PoolState(p, S, [Idle EXCEPT !.endpoint = NextEndpoint(e)], D, [ST EXCEPT ![e] = StatusAt(S, F)])
  <2>1. StatusAt(S, F) \in {"complete", "partial"}
    BY DEF StatusAt
  <2>2. ASSUME StatusAt(S, F) = "complete"
        PROVE  Covered(p, S, D, e, c) \/ (Limit < c /\ orig <= Limit)
    <3>1. Reached(total, scanned) /\ (PageAt(S, F) # <<>> /\ scanned >= Limit => total # Unknown)
      BY <2>2 DEF StatusAt, total, scanned
    <3>2. CASE c <= o + n
      BY <1>2, <1>6, <1>10, <3>2 DEF Covered, c, L
    <3>3. CASE ~ c <= o + n
      <4>1. b > 0
        BY <1>2, <1>5, <1>6, <3>3
      <4>2. scanned >= Limit
        <5>1. CASE scanned < Limit
          <6>1. n = b
            BY <1>6, <1>7, <5>1
          <6>2. ~ b < PageSize
            BY <1>2, <1>5, <1>6, <3>3, <4>1, <6>1
          <6>4. b = PageSize
            BY <1>3, <1>5, <6>2
          <6> QED
            BY <1>5, <1>12, <4>1, <5>1, <6>4 DEF Onwards, scanned, b
        <5> QED
          BY <1>2, <1>3, <1>6, <1>7, <5>1
      <4>3. scanned = Limit
        BY <1>2, <1>3, <1>6, <1>7, <4>2
      <4>4. total # Unknown /\ Limit >= total
        BY <1>5, <3>1, <4>1, <4>2, <4>3 DEF Reached
      <4>5. total # Unseen
        BY DEF total, TotalAt, Unknown, Unseen, c
      <4> QED
        BY <1>2, <1>3, <1>4, <1>6, <1>7, <1>11, <3>3, <4>3, <4>4, <4>5
    <3> QED
      BY <3>2, <3>3
  <2> QED
    BY <1>10, <2>1, <2>2, StateLeft DEF c, L, orig
<1>13. ASSUME Onwards(S, F)
       PROVE  PoolState(p, S, [F EXCEPT !.offset = @ + Len(PageAt(S, F)), !.scanned = scanned, !.total = total], D, ST)
  <2>1. scanned < Limit /\ n = b
    BY <1>6, <1>7, <1>13 DEF Onwards, scanned
  <2>2. F.offset + Len(PageAt(S, F)) = scanned /\ scanned \in Nat
    BY <1>2, <1>6, <1>7, <2>1 DEF o, b
  <2>3. PoolState(p, S, [F EXCEPT !.offset = scanned, !.scanned = scanned, !.total = total], D, ST)
    BY <1>7, <1>10, <1>11, <2>1, <2>2, StatePaged DEF orig
  <2> QED
    BY <2>2, <2>3
<1> QED
  BY <1>7, <1>12, <1>13 DEF D, scanned, total
-----------------------------------------------------------------------------
\* A round of the paging loop is what is said of it above.
LEMMA FetchRound ==
    ASSUME NEW p, FetchPage(p), ScannedAt(server[p], fetch[p]) \in Nat
    PROVE  LET S == server[p]
               F == fetch[p] IN
           /\ F.endpoint \in Endpoints /\ server' = server
           /\ collected' = [collected EXCEPT ![p] = @ \o KeptAt(p, S, F)]
           /\ \/ /\ ~ Onwards(S, F)
                 /\ endpointStatus' = [endpointStatus EXCEPT ![p][F.endpoint] = StatusAt(S, F)]
                 /\ fetch' = [fetch EXCEPT ![p] = [Idle EXCEPT !.endpoint = NextEndpoint(F.endpoint)]]
              \/ /\ Onwards(S, F) /\ endpointStatus' = endpointStatus
                 /\ fetch' = [fetch EXCEPT ![p] = [fetch[p] EXCEPT !.offset = @ + Len(PageAt(S, F)),
                                                   !.scanned = ScannedAt(S, F), !.total = TotalAt(S, F)]]
<1> DEFINE S == server[p]
           F == fetch[p]
           e == F.endpoint
           page == SubSeq(S[e], F.offset + 1, Lower(F.offset + PageSize, Len(S[e])))
           taken == SubSeq(page, 1, Lower(Len(page), Limit - F.scanned))
           total == IF F.total # Unseen THEN F.total ELSE IF ReportsTotal THEN Len(S[e]) ELSE Unknown
           scanned == F.scanned + Len(taken)
           turns == InTurn({i \in 1..Len(taken) : OverlapsWindow(Normalize(taken[i], p, e))})
           kept == [i \in DOMAIN turns |-> Normalize(taken[turns[i]], p, e)]
           Stop(complete) ==
             /\ endpointStatus' = [endpointStatus EXCEPT ![p][e] = IF complete THEN "complete" ELSE "partial"]
             /\ Onward(p)
<1>1. /\ e \in Endpoints /\ collected' = [collected EXCEPT ![p] = @ \o kept] /\ server' = server
      /\ \/ page = <<>> /\ Stop(Reached(total, scanned))
         \/ page # <<>> /\ scanned >= Limit /\ Stop(total # Unknown /\ Reached(total, scanned))
         \/ page # <<>> /\ scanned < Limit /\ Len(page) < PageSize /\ Stop(Reached(total, scanned))
         \/ /\ page # <<>> /\ scanned < Limit /\ Len(page) = PageSize
            /\ fetch' = [fetch EXCEPT ![p] = [fetch[p] EXCEPT !.offset = @ + Len(page),
                                                              !.scanned = scanned, !.total = total]]
            /\ endpointStatus' = endpointStatus
  BY Zenon DEF FetchPage
<1>2. page = PageAt(S, F) /\ total = TotalAt(S, F)
  BY Zenon DEF PageAt, PageIn, TotalAt
<1>3. taken = TakenAt(S, F)
  BY Zenon DEF PageAt, PageIn, TakenAt, PartOf
<1>4. scanned = ScannedAt(S, F)
  BY <1>3 DEF ScannedAt
<1>5. kept = KeptAt(p, S, F)
  BY <1>3, Zenon DEF KeptAt
<1> HIDE DEF page, taken, total, scanned, turns, kept
<1>6. Onward(p) => fetch' = [fetch EXCEPT ![p] = [Idle EXCEPT !.endpoint = NextEndpoint(F.endpoint)]]
  BY DEF Onward, NextEndpoint
<1>7. scanned \in Nat /\ Limit \in Nat /\ PageSize \in Nat
  BY <1>4, SparkAssumption
<1>8. ASSUME NEW complete \in BOOLEAN, Stop(complete), complete <=> StatusAt(S, F) = "complete", ~ Onwards(S, F)
      PROVE  /\ ~ Onwards(S, F)
             /\ endpointStatus' = [endpointStatus EXCEPT ![p][e] = StatusAt(S, F)]
             /\ fetch' = [fetch EXCEPT ![p] = [Idle EXCEPT !.endpoint = NextEndpoint(F.endpoint)]]
  <2>1. (IF complete THEN "complete" ELSE "partial") = StatusAt(S, F)
    BY <1>8 DEF StatusAt
  <2> QED
    BY <1>6, <1>8, <2>1
<1>9. StatusAt(S, F) = "complete" <=> /\ page # <<>> /\ scanned >= Limit => total # Unknown
                                     /\ Reached(total, scanned)
  BY <1>2, <1>4 DEF StatusAt
<1>10. Onwards(S, F) <=> page # <<>> /\ scanned < Limit /\ Len(page) = PageSize
  BY <1>2, <1>4 DEF Onwards
<1>11. CASE page = <<>> /\ Stop(Reached(total, scanned))
  <2>1. Reached(total, scanned) \in BOOLEAN
    BY DEF Reached
  <2> HIDE DEF Stop
  <2>2. ~ Onwards(S, F) /\ (Reached(total, scanned) <=> StatusAt(S, F) = "complete")
    BY <1>9, <1>10, <1>11
  <2> QED
    BY <1>1, <1>5, <1>8, <1>11, <2>1, <2>2
<1>12. CASE page # <<>> /\ scanned >= Limit /\ Stop(total # Unknown /\ Reached(total, scanned))
  <2>1. (total # Unknown /\ Reached(total, scanned)) \in BOOLEAN
    BY DEF Reached
  <2> HIDE DEF Stop
  <2>2. ~ Onwards(S, F) /\ ((total # Unknown /\ Reached(total, scanned)) <=> StatusAt(S, F) = "complete")
    BY <1>7, <1>9, <1>10, <1>12
  <2> QED
    BY <1>1, <1>5, <1>8, <1>12, <2>1, <2>2
<1>13. CASE page # <<>> /\ scanned < Limit /\ Len(page) < PageSize /\ Stop(Reached(total, scanned))
  <2>1. Reached(total, scanned) \in BOOLEAN
    BY DEF Reached
  <2> HIDE DEF Stop
  <2>2. ~ Onwards(S, F) /\ (Reached(total, scanned) <=> StatusAt(S, F) = "complete")
    BY <1>7, <1>9, <1>10, <1>13
  <2> QED
    BY <1>1, <1>5, <1>8, <1>13, <2>1, <2>2
<1>14. CASE /\ page # <<>> /\ scanned < Limit /\ Len(page) = PageSize
            /\ fetch' = [fetch EXCEPT ![p] = [fetch[p] EXCEPT !.offset = @ + Len(page),
                                                              !.scanned = scanned, !.total = total]]
            /\ endpointStatus' = endpointStatus
  BY <1>1, <1>2, <1>4, <1>5, <1>10, <1>14
<1> QED
  BY <1>1, <1>11, <1>12, <1>13, <1>14
-----------------------------------------------------------------------------
\* The inductive invariant: what holds of every pool.
SparkTypeOK ==
  /\ server \in [PoolNames -> ServerLists] /\ fetch \in [PoolNames -> Fetches]
  /\ collected \in [PoolNames -> Seq(SparkRecord)] /\ endpointStatus \in [PoolNames -> Statuses]
StateOf(p) == PoolState(p, server[p], fetch[p], collected[p], endpointStatus[p])
SparkInv == SparkTypeOK /\ \A p \in PoolNames : StateOf(p)

\* What the server may list at first: a run of it, and its observations, agree.
LEMMA HistoryState ==
    ASSUME NEW p \in PoolNames, NEW S, HistoryOf(S)
    PROVE  PoolState(p, S, Idle, <<>>, [e \in Endpoints |-> "none"])
<1> DEFINE ST == [e \in Endpoints |-> "none"]
           C == <<>>
<1>1. RawRun \subseteq ServerRun
  BY DEF RawRun, ServerRun, Word
<1>2. /\ S \in [Endpoints -> Seq(RawRun)]
      /\ \A e \in Endpoints : \A i, j \in 1..Len(S[e]) : S[e][i].id = S[e][j].id => i = j
      /\ \A e, f \in Endpoints : \A i \in 1..Len(S[e]), j \in 1..Len(S[f]) :
           S[e][i].app # "none" /\ S[e][i].app = S[f][j].app =>
             /\ ClassifyTrigger(S[e][i], e) = ClassifyTrigger(S[f][j], f)
             /\ S[e][i].from = S[f][j].from /\ S[e][i].to = S[f][j].to
             /\ S[e][i].vcores = S[f][j].vcores
  BY Zenon DEF HistoryOf
<1>3. S \in ServerLists
  <2>1. \A e \in Endpoints : S[e] \in Seq(ServerRun)
    <3> SUFFICES ASSUME NEW e \in Endpoints
                 PROVE  S[e] \in Seq(ServerRun)
      OBVIOUS
    <3>1. S[e] \in Seq(RawRun)
      BY <1>2
    <3> QED
      BY <1>1, <3>1
  <2> QED
    BY <1>2, <2>1 DEF ServerLists
<1>4. \A e \in Endpoints : \A i \in 1..Len(S[e]) : S[e][i].id > 0
  <2> SUFFICES ASSUME NEW e \in Endpoints, NEW i \in 1..Len(S[e])
               PROVE  S[e][i].id > 0
    OBVIOUS
  <2>1. S[e] \in Seq(RawRun)
    BY <1>2
  <2>2. S[e][i] \in RawRun
    BY <2>1
  <2> QED
    BY <2>2 DEF RawRun
<1>5. Fresh(S)
  <2>1. \A e \in Endpoints : \A i \in 1..Len(S[e]) : ~ S[e][i].id <= 0
    <3> SUFFICES ASSUME NEW e \in Endpoints, NEW i \in 1..Len(S[e])
                 PROVE  ~ S[e][i].id <= 0
      OBVIOUS
    <3>1. S[e][i].id > 0 /\ S[e][i].id \in Int
      BY <1>3, <1>4, ListedRun
    <3> QED
      BY <3>1
  <2> QED
    BY <2>1 DEF Fresh
<1>6. Kin(p, S)
  <2> SUFFICES ASSUME NEW e \in Endpoints, NEW f \in Endpoints, NEW i \in 1..Len(S[e]), NEW j \in 1..Len(S[f]),
                      Identity(At(p, S, e, i)) = Identity(At(p, S, f, j))
               PROVE  Alike(At(p, S, e, i), At(p, S, f, j))
    BY DEF Kin
  <2> DEFINE x == At(p, S, e, i)
             y == At(p, S, f, j)
  <2>1. /\ x.id = S[e][i].id /\ x.from = S[e][i].from /\ x.to = S[e][i].to /\ x.vcores = S[e][i].vcores
        /\ x.app = S[e][i].app /\ x.kind = ClassifyTrigger(S[e][i], e) /\ x.endpoint = e
        /\ y.id = S[f][j].id /\ y.from = S[f][j].from /\ y.to = S[f][j].to /\ y.vcores = S[f][j].vcores
        /\ y.app = S[f][j].app /\ y.kind = ClassifyTrigger(S[f][j], f) /\ y.endpoint = f
    BY <1>3, AtIs
  <2>2. Identity(x) = Identity(y)
    OBVIOUS
  <2> HIDE DEF x, y
  <2>3. x.app # "none" <=> y.app # "none"
    <3>1. \A r : Identity(r)[1] = IF r.app # "none" THEN "application" ELSE "livy"
      BY DEF Identity
    <3> QED
      BY <2>2, <3>1
  <2>4. CASE x.app # "none"
    <3>1. Identity(x)[3] = x.app /\ Identity(y)[3] = y.app
      BY <2>3, <2>4 DEF Identity
    <3> QED
      BY <1>2, <2>1, <2>2, <2>4, <3>1 DEF Alike, Clip, Size, x, y
  <2>5. CASE x.app = "none"
    <3>1. /\ Identity(x)[3] = x.endpoint /\ Identity(x)[4] = x.id
          /\ Identity(y)[3] = y.endpoint /\ Identity(y)[4] = y.id
      BY <2>3, <2>5 DEF Identity
    <3>2. e = f /\ S[e][i].id = S[f][j].id
      BY <2>1, <2>2, <3>1
    <3>3. i = j
      BY <1>2, <3>2
    <3> QED
      BY <3>2, <3>3 DEF Alike
  <2> QED
    BY <2>4, <2>5
<1>7. C \in Seq(SparkRecord) /\ Backed(p, S, C)
  BY EmptySeq DEF Backed
<1>8. Idle \in Fetches /\ Paging(p, S, Idle, C)
  <2>1. Limit \in Nat /\ 0 < Limit
    BY SparkAssumption
  <2> HIDE DEF C
  <2> QED
    BY <2>1 DEF Fetches, Idle, Paging, Endpoints, Unseen
<1>9. ST \in Statuses /\ ReadOut(p, S, C, ST)
  BY DEF Statuses, ReadOut
<1> QED
  BY <1>3, <1>5, <1>6, <1>7, <1>8, <1>9 DEF PoolState

\* The invariant holds at first.
LEMMA SparkStarts == SparkInit => SparkInv
<1> SUFFICES ASSUME SparkInit
             PROVE  SparkInv
  OBVIOUS
<1>1. ASSUME NEW p \in PoolNames
      PROVE  StateOf(p) /\ server[p] \in ServerLists
  <2>1. HistoryOf(server[p])
    BY SparkAssumption DEF SparkInit
  <2>2. fetch[p] = Idle /\ collected[p] = <<>> /\ endpointStatus[p] = [e \in Endpoints |-> "none"]
    BY DEF SparkInit
  <2>3. StateOf(p)
    BY <2>1, <2>2, HistoryState DEF StateOf
  <2> QED
    BY <2>3 DEF StateOf, PoolState
<1>2. Idle \in Fetches
  BY DEF Idle, Fetches, Unseen
<1>3. <<>> \in Seq(SparkRecord)
  BY EmptySeq
<1>4. [e \in Endpoints |-> "none"] \in Statuses
  BY DEF Statuses
<1> QED
  BY <1>1, <1>2, <1>3, <1>4 DEF SparkInv, SparkTypeOK, SparkInit

\* A step that leaves the other pools alone.
LEMMA OnePool ==
    ASSUME SparkInv, NEW p \in PoolNames,
           NEW S, server' = [server EXCEPT ![p] = S], NEW F, fetch' = [fetch EXCEPT ![p] = F],
           NEW C, collected' = [collected EXCEPT ![p] = C],
           NEW ST, endpointStatus' = [endpointStatus EXCEPT ![p] = ST], PoolState(p, S, F, C, ST)
    PROVE  SparkInv'
<1>1. S \in ServerLists /\ F \in Fetches /\ C \in Seq(SparkRecord) /\ ST \in Statuses
  BY DEF PoolState
<1>2. SparkTypeOK
  BY DEF SparkInv
<1>3. SparkTypeOK'
  BY <1>1, <1>2 DEF SparkTypeOK
<1>4. ASSUME NEW q \in PoolNames
      PROVE  PoolState(q, server'[q], fetch'[q], collected'[q], endpointStatus'[q])
  <2>1. CASE q = p
    <3>1. server'[q] = S /\ fetch'[q] = F /\ collected'[q] = C /\ endpointStatus'[q] = ST
      BY <1>2, <2>1 DEF SparkTypeOK
    <3> QED
      BY <2>1, <3>1
  <2>2. CASE q # p
    <3>1. /\ server'[q] = server[q] /\ fetch'[q] = fetch[q] /\ collected'[q] = collected[q]
          /\ endpointStatus'[q] = endpointStatus[q]
      BY <1>2, <2>2 DEF SparkTypeOK
    <3>2. StateOf(q)
      BY DEF SparkInv
    <3> QED
      BY <3>1, <3>2 DEF StateOf
  <2> QED
    BY <2>1, <2>2
<1> QED
  BY <1>3, <1>4 DEF SparkInv, StateOf

\* A value that stays, as an update.
LEMMA SameUpdate == ASSUME NEW P, NEW Q, NEW f \in [P -> Q], NEW p \in P PROVE f = [f EXCEPT ![p] = f[p]]
OBVIOUS

\* A pool whose thread starts.
LEMMA SparkStarted == ASSUME SparkInv, NEW i \in 1..Len(Pools), StartPool(i) PROVE SparkInv'
<1> DEFINE p == Pools[i]
           G == [fetch[p] EXCEPT !.endpoint = "batch"]
<1>1. p \in PoolNames
  BY DEF PoolNames
<1>2. StateOf(p) /\ fetch[p] = Idle
  BY <1>1 DEF SparkInv, StartPool
<1> HIDE DEF p
<1>3. PoolState(p, server[p], G, collected[p], endpointStatus[p])
  BY <1>1, <1>2, StateStarted DEF StateOf
<1>4. /\ fetch' = [fetch EXCEPT ![p] = G] /\ server' = server /\ collected' = collected
      /\ endpointStatus' = endpointStatus
  BY DEF StartPool, p
<1>5. /\ server = [server EXCEPT ![p] = server[p]] /\ collected = [collected EXCEPT ![p] = collected[p]]
      /\ endpointStatus = [endpointStatus EXCEPT ![p] = endpointStatus[p]]
  BY <1>1, SameUpdate DEF SparkInv, SparkTypeOK
<1> HIDE DEF G
<1> QED
  BY <1>1, <1>3, <1>4, <1>5, OnePool

\* A page that is read.
LEMMA SparkFetched == ASSUME SparkInv, NEW p \in PoolNames, FetchPage(p) PROVE SparkInv'
<1> DEFINE S == server[p]
           F == fetch[p]
           C == collected[p] \o KeptAt(p, S, F)
           SU == [endpointStatus[p] EXCEPT ![F.endpoint] = StatusAt(S, F)]
           G == [Idle EXCEPT !.endpoint = NextEndpoint(F.endpoint)]
           H == [F EXCEPT !.offset = @ + Len(PageAt(S, F)), !.scanned = ScannedAt(S, F), !.total = TotalAt(S, F)]
<1>1. PoolState(p, S, F, collected[p], endpointStatus[p])
  BY DEF SparkInv, StateOf
<1>2. F.endpoint \in Endpoints
  BY Zenon DEF FetchPage
<1>3. /\ ScannedAt(S, F) \in Nat
      /\ ~ Onwards(S, F) => PoolState(p, S, G, C, SU)
      /\ Onwards(S, F) => PoolState(p, S, H, C, endpointStatus[p])
  BY <1>1, <1>2, StateRead
<1>4. /\ server' = server /\ collected' = [collected EXCEPT ![p] = C]
      /\ \/ /\ ~ Onwards(S, F) /\ endpointStatus' = [endpointStatus EXCEPT ![p] = SU]
            /\ fetch' = [fetch EXCEPT ![p] = G]
         \/ /\ Onwards(S, F) /\ endpointStatus' = endpointStatus /\ fetch' = [fetch EXCEPT ![p] = H]
  BY <1>3, FetchRound
<1>5. /\ server = [server EXCEPT ![p] = S]
      /\ endpointStatus = [endpointStatus EXCEPT ![p] = endpointStatus[p]]
  BY SameUpdate DEF SparkInv, SparkTypeOK
<1> HIDE DEF S, F, C, SU, G, H
<1>6. CASE /\ ~ Onwards(S, F) /\ endpointStatus' = [endpointStatus EXCEPT ![p] = SU]
           /\ fetch' = [fetch EXCEPT ![p] = G]
  BY <1>3, <1>4, <1>5, <1>6, OnePool
<1>7. CASE Onwards(S, F) /\ endpointStatus' = endpointStatus /\ fetch' = [fetch EXCEPT ![p] = H]
  BY <1>3, <1>4, <1>5, <1>7, OnePool
<1> QED
  BY <1>4, <1>6, <1>7

\* A page whose call raises.
LEMMA SparkFailed == ASSUME SparkInv, NEW p \in PoolNames, FetchFails(p) PROVE SparkInv'
<1> DEFINE S == server[p]
           F == fetch[p]
           C == collected[p]
           SU == [endpointStatus[p] EXCEPT ![F.endpoint] = "partial"]
           G == [Idle EXCEPT !.endpoint = NextEndpoint(F.endpoint)]
<1>1. PoolState(p, S, F, C, endpointStatus[p])
  BY DEF SparkInv, StateOf
<1>2. F.endpoint \in Endpoints
  BY DEF FetchFails
<1>3. C \in Seq(SparkRecord) /\ Backed(p, S, C)
  BY <1>1 DEF PoolState
<1>4. PoolState(p, S, G, C, SU)
  BY <1>1, <1>2, <1>3, StateLeft
<1>5. /\ server' = server /\ collected' = collected
      /\ endpointStatus' = [endpointStatus EXCEPT ![p] = SU] /\ fetch' = [fetch EXCEPT ![p] = G]
  BY DEF FetchFails, Onward, NextEndpoint
<1>6. server = [server EXCEPT ![p] = S] /\ collected = [collected EXCEPT ![p] = C]
  BY SameUpdate DEF SparkInv, SparkTypeOK
<1> HIDE DEF S, F, C, SU, G
<1> QED
  BY <1>4, <1>5, <1>6, OnePool

\* The pools are as many as the workspace lists.
LEMMA PoolsFinite == IsFiniteSet(PoolNames)
<1> DEFINE named == [i \in 1..Len(Pools) |-> Pools[i]]
<1>1. IsFiniteSet(1..Len(Pools))
  BY SparkAssumption, FS_Interval
<1>2. PoolNames = {named[i] : i \in 1..Len(Pools)}
  BY DEF PoolNames
<1> HIDE DEF named
<1> QED
  BY <1>1, <1>2, FiniteImage

\* The runs that arrived since the report began are so many.
LEMMA ArrivalsCounted == Arrivals \in Nat
<1> DEFINE all == PoolNames \X Endpoints \X (1..MaxArrivals)
           E == {x \in all : \E k \in 1..Len(server[x[1]][x[2]]) : server[x[1]][x[2]][k].id = -x[3]}
           pair == PoolNames \X Endpoints
           f == [x \in pair \X (1..MaxArrivals) |-> <<x[1][1], x[1][2], x[2]>>]
<1>1. IsFiniteSet(PoolNames) /\ IsFiniteSet(1..MaxArrivals)
  BY PoolsFinite, SparkAssumption, FS_Interval
<1>2. IsFiniteSet(Endpoints)
  <2>1. IsFiniteSet({"batch"} \cup {"session"})
    BY FS_Singleton, FS_Union
  <2>2. {"batch"} \cup {"session"} = Endpoints
    BY DEF Endpoints
  <2> QED
    BY <2>1, <2>2
<1>3. IsFiniteSet(pair)
  BY <1>1, <1>2, FS_Product
<1>4. IsFiniteSet(pair \X (1..MaxArrivals))
  <2> HIDE DEF pair
  <2> QED
    BY <1>1, <1>3, FS_Product
<1>5. all \subseteq {f[x] : x \in pair \X (1..MaxArrivals)}
  <2> SUFFICES ASSUME NEW a \in PoolNames, NEW b \in Endpoints, NEW c \in 1..MaxArrivals
               PROVE  <<a, b, c>> \in {f[x] : x \in pair \X (1..MaxArrivals)}
    OBVIOUS
  <2>1. <<<<a, b>>, c>> \in pair \X (1..MaxArrivals)
    OBVIOUS
  <2>2. f[<<<<a, b>>, c>>] = <<a, b, c>>
    BY <2>1
  <2> HIDE DEF f
  <2> QED
    BY <2>1, <2>2
<1>6. IsFiniteSet(all)
  <2> HIDE DEF f, pair
  <2>1. IsFiniteSet({f[x] : x \in pair \X (1..MaxArrivals)})
    BY <1>4, FiniteImage
  <2> HIDE DEF all
  <2> QED
    BY <1>5, <2>1, FS_Subset
<1>7. E \subseteq all
  OBVIOUS
<1>8. Arrivals = Cardinality(E)
  BY Zenon DEF Arrivals
<1> HIDE DEF E, all
<1> QED
  BY <1>6, <1>7, <1>8, FS_Subset, FS_CardinalityType

\* A run that arrives.
LEMMA SparkArrived == ASSUME SparkInv, NEW p \in PoolNames, NEW e \in Endpoints, Arrive(p, e) PROVE SparkInv'
<1> DEFINE S == server[p]
           new == [id |-> -(Arrivals + 1), app |-> "none", from |-> CollectionEnd, to |-> NoTime,
                   state |-> "running", result |-> "none", pipelineConf |-> FALSE, vcores |-> 0]
           Z == [S EXCEPT ![e] = <<new>> \o @]
<1>1. PoolState(p, S, fetch[p], collected[p], endpointStatus[p])
  BY DEF SparkInv, StateOf
<1>2. /\ server' = [server EXCEPT ![p] = Z] /\ fetch' = fetch /\ collected' = collected
      /\ endpointStatus' = endpointStatus
  BY DEF Arrive
<1>3. Arrivals \in Nat
  BY ArrivalsCounted
<1>4. CollectionEnd \in Int
  BY WindowEnds
<1>5. /\ new \in ServerRun /\ new.id <= 0 /\ new.app = "none" /\ new.from = CollectionEnd /\ new.to = NoTime
      /\ new.vcores = 0
  BY <1>3, <1>4 DEF ServerRun, Word, NoTime
<1> HIDE DEF S, new
<1>6. PoolState(p, Z, fetch[p], collected[p], endpointStatus[p])
  BY <1>1, <1>5, StateArrived
<1>7. /\ fetch = [fetch EXCEPT ![p] = fetch[p]] /\ collected = [collected EXCEPT ![p] = collected[p]]
      /\ endpointStatus = [endpointStatus EXCEPT ![p] = endpointStatus[p]]
  BY SameUpdate DEF SparkInv, SparkTypeOK
<1> HIDE DEF Z
<1> QED
  BY <1>2, <1>6, <1>7, OnePool

\* A run that ends.
LEMMA SparkEnded ==
    ASSUME SparkInv, NEW p \in PoolNames, NEW e \in Endpoints, NEW i \in 1..Len(server[p][e]), EndRun(p, e, i)
    PROVE  SparkInv'
<1> DEFINE S == server[p]
           Z == [S EXCEPT ![e][i] = Ended(@)]
<1>1. PoolState(p, S, fetch[p], collected[p], endpointStatus[p])
  BY DEF SparkInv, StateOf
<1>2. /\ server' = [server EXCEPT ![p][e][i] = Ended(@)] /\ fetch' = fetch /\ collected' = collected
      /\ endpointStatus' = endpointStatus /\ S[e][i].to = NoTime /\ S[e][i].id > 0
  BY DEF EndRun
<1>3. server' = [server EXCEPT ![p] = Z]
  BY <1>2
<1>4. i \in 1..Len(S[e])
  OBVIOUS
<1> HIDE DEF S
<1>5. PoolState(p, Z, fetch[p], collected[p], endpointStatus[p])
  BY <1>1, <1>2, <1>4, StateEnded
<1>6. /\ fetch = [fetch EXCEPT ![p] = fetch[p]] /\ collected = [collected EXCEPT ![p] = collected[p]]
      /\ endpointStatus = [endpointStatus EXCEPT ![p] = endpointStatus[p]]
  BY SameUpdate DEF SparkInv, SparkTypeOK
<1> HIDE DEF Z
<1> QED
  BY <1>2, <1>3, <1>5, <1>6, OnePool

\* Every step preserves the invariant.
LEMMA SparkSteps == SparkInv /\ [SparkNext]_sparkVars => SparkInv'
<1> SUFFICES ASSUME SparkInv, [SparkNext]_sparkVars
             PROVE  SparkInv'
  OBVIOUS
<1>1. ASSUME server' = server, fetch' = fetch, collected' = collected, endpointStatus' = endpointStatus
      PROVE  SparkInv'
  BY <1>1 DEF SparkInv, SparkTypeOK, StateOf
<1>2. ASSUME NEW listed \in BOOLEAN, NEW bad \in SUBSET Assets, ListAssets(listed, bad)
      PROVE  SparkInv'
  BY <1>1, <1>2 DEF ListAssets
<1>3. CASE Aggregate
  BY <1>1, <1>3 DEF Aggregate
<1>4. CASE UNCHANGED sparkVars
  BY <1>1, <1>4 DEF sparkVars
<1>5. CASE SparkNext
  <2>1. \/ \E listed \in BOOLEAN, bad \in SUBSET Assets : ListAssets(listed, bad)
        \/ \E i \in 1..Len(Pools) : StartPool(i)
        \/ \E p \in PoolNames : FetchPage(p) \/ FetchFails(p)
        \/ Aggregate
        \/ \E p \in PoolNames : \E e \in Endpoints : Arrive(p, e)
        \/ \E p \in PoolNames : \E e \in Endpoints : \E i \in 1..Len(server[p][e]) : EndRun(p, e, i)
    BY <1>5, Zenon DEF SparkNext
  <2> QED
    BY <1>2, <1>3, <2>1, SparkStarted, SparkFetched, SparkFailed, SparkArrived, SparkEnded
<1> QED
  BY <1>4, <1>5
-----------------------------------------------------------------------------
\* An endpoint said to be complete, that did not outgrow the limit, was read to its end.
LEMMA CompleteCovered ==
    ASSUME SparkInv, NEW p \in PoolNames, NEW e \in Endpoints, endpointStatus[p][e] = "complete", ~ Outgrew(p, e)
    PROVE  Covered(p, server[p], collected[p], e, Len(server[p][e]))
<1>1. ReadOut(p, server[p], collected[p], endpointStatus[p])
  BY DEF SparkInv, StateOf, PoolState
<1>2. ~ (Limit < Len(server[p][e]) /\ Cardinality(Originals(server[p], e)) <= Limit)
  BY DEF Outgrew, Originals
<1> QED
  BY <1>1, <1>2 DEF ReadOut

\* A complete collection that did not outgrow the limit read both endpoints of a pool.
LEMMA ReadWhole ==
    ASSUME SparkInv, NEW p \in PoolNames, Fitting(p), CollectionComplete
    PROVE  PoolBacked(p) /\ ReadToEnd(p)
<1>1. PoolBacked(p)
  BY DEF SparkInv, StateOf, PoolState, PoolBacked
<1>2. \A e \in Endpoints : endpointStatus[p][e] = "complete" /\ ~ Outgrew(p, e)
  BY DEF CollectionComplete, Fitting
<1>3. \A e \in Endpoints : Covered(p, server[p], collected[p], e, Len(server[p][e]))
  BY <1>2, CompleteCovered
<1> QED
  BY <1>1, <1>3 DEF ReadToEnd

\* The invariant makes the report true.
LEMMA SparkInvMeasured == SparkInv => SparkReportMeasured
<1> SUFFICES ASSUME SparkInv
             PROVE  SparkReportMeasured
  OBVIOUS
<1>1. ClaimsAreMeasured
  <2> SUFFICES ASSUME NEW p \in PoolNames, NEW kind \in Kinds, NEW w \in Windows,
                      ClaimsAverage(p, kind, w), Fitting(p)
               PROVE  AggregateRuns(p, kind, w).usage
                        = SpentIn({r \in Truth(p) : r.kind = kind}, ObservationEnd - w * DayLength, ObservationEnd)
    BY DEF ClaimsAreMeasured
  <2>1. CollectionComplete /\ AggregateRuns(p, kind, w).unknown = 0
    BY Zenon DEF ClaimsAverage
  <2>2. PoolBacked(p) /\ ReadToEnd(p)
    BY <2>1, ReadWhole
  <2> QED
    BY <2>1, <2>2, WindowTrue
<1>2. DailyUsageMeasured
  <2> SUFFICES ASSUME CollectionComplete, \A p \in PoolNames : Fitting(p), NEW d \in DOMAIN DailyUsage
               PROVE  DailyUsage[d] = SpentIn(UNION {Truth(p) : p \in PoolNames}, DayStart(d), DayStart(d + 1))
    BY Zenon DEF DailyUsageMeasured
  <2>1. \A p \in PoolNames : PoolBacked(p) /\ ReadToEnd(p)
    BY ReadWhole
  <2> QED
    BY <2>1, PoolsFinite, DayTrue
<1>3. CompleteReachedEnd
  <2> SUFFICES ASSUME NEW p \in PoolNames, NEW e \in Endpoints, endpointStatus[p][e] = "complete", ~ Outgrew(p, e),
                      NEW i \in 1..Len(server[p][e]), At(p, server[p], e, i).id > 0, OverlapsWindow(At(p, server[p], e, i))
               PROVE  \E j \in 1..Len(collected[p]) : Identity(collected[p][j]) = Identity(At(p, server[p], e, i))
    BY Zenon DEF CompleteReachedEnd, At
  <2>1. Covered(p, server[p], collected[p], e, Len(server[p][e]))
    BY CompleteCovered
  <2>2. server[p] \in ServerLists
    BY DEF SparkInv, StateOf, PoolState
  <2>3. i <= Len(server[p][e]) /\ server[p][e][i].id > 0
    BY <2>2, AtIs, ListedRun
  <2> QED
    BY <2>1, <2>3 DEF Covered, CollectedAs
<1> QED
  BY <1>1, <1>2, <1>3 DEF SparkReportMeasured

\* The averages and the days of the Spark report are what the pools ran, and an
\* endpoint said to be read to its end was (SparkHistoryClient, spark_run_stats.py),
\* whatever histories the pools have and however many runs arrive or end meanwhile.
THEOREM SparkIsMeasured == SparkSpec => []SparkReportMeasured
<1>1. SparkInit => SparkInv
  BY SparkStarts
<1>2. SparkInv /\ [SparkNext]_sparkVars => SparkInv'
  BY SparkSteps
<1>3. SparkInv => SparkReportMeasured
  BY SparkInvMeasured
<1> QED
  BY <1>1, <1>2, <1>3, PTL DEF SparkSpec
==============================================================================
