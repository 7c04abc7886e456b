-------------------------- MODULE JobRunnerProofs --------------------------
(***************************************************************************)
(* Proofs about JobRunner, for any number of runs, modules, calls and      *)
(* restarts: type correctness, the single slot with its _busy flag, the    *)
(* cancel registry and the scoping of the environment overrides; then what *)
(* a run leaves behind: the artefacts behind run.json, the verdict, the    *)
(* event log, and the refinement of RunBoard.  The last three hold as long *)
(* as a delete takes for stale only runs a restart has cut short           *)
(* (StaleIsLost): what DeleteStamp writes back to any other run is older   *)
(* than what it overwrites.                                                *)
(***************************************************************************)
EXTENDS MCJobRunner, WellFoundedInduction, TLAPS

\* A non-empty set of naturals has a least element, so First picks one of the
\* modules it is given.
LEMMA MinExists ==
    ASSUME NEW S, S \subseteq Nat, S # {}
    PROVE  \E m \in S : \A n \in S : m <= n
<1>1. PICK m \in S : \A n \in S : <<n, m>> \notin OpToRel(<, Nat)
  BY WFMin, NatLessThanWellFounded
<1>2. ASSUME NEW n \in S PROVE m <= n
  <2>1. n \in Nat /\ m \in Nat
    OBVIOUS
  <2>2. ~ (n < m)
    BY <1>1, <2>1, <<n, m>> \in Nat \X Nat DEF OpToRel
  <2> QED
    BY <2>1, <2>2
<1> QED
  BY <1>2

LEMMA FirstInSet ==
    ASSUME NEW S, S \subseteq Modules, S # {}
    PROVE  First(S) \in S
<1>1. S \subseteq Nat
  BY BoundsAssumption DEF Modules
<1> QED
  BY <1>1, MinExists DEF First

\* A non-empty set of numbers up to N has a largest one.
LEMMA LargestExists ==
    ASSUME NEW N \in Nat, NEW S, S \subseteq 1..N, S # {}
    PROVE  \E m \in S : \A n \in S : n <= m
<1> DEFINE T == {k \in Nat : N - k \in S}
<1>1. \A s \in S : s \in Nat /\ N - s \in T
  OBVIOUS
<1>2. PICK k \in T : \A n \in T : k <= n
  BY <1>1, MinExists
<1>3. ASSUME NEW n \in S PROVE n <= N - k
  <2>1. n \in Nat /\ N - n \in T
    BY <1>1
  <2>2. k <= N - n
    BY <1>2, <2>1
  <2> QED
    BY <2>1, <2>2
<1> QED
  BY <1>2, <1>3

\* A non-empty set of run ids has a newest one, so Prior picks a run.
LEMMA MaxExists ==
    ASSUME NEW S, S \subseteq Runs, S # {}
    PROVE  \E m \in S : \A n \in S : n <= m
BY LargestExists, BoundsAssumption DEF Runs

LEMMA PriorType == \A r \in Runs : Prior(r) \in Runs \cup {NoRun}
<1> TAKE r \in Runs
<1> DEFINE done == {q \in Runs \ {r} : meta[q].status \in {"ok", "failed"}}
<1>1. CASE done = {}
  BY <1>1 DEF Prior
<1>2. CASE done # {}
  <2>1. \E m \in done : \A n \in done : n <= m
    BY <1>2, MaxExists
  <2> QED
    BY <1>2, <2>1 DEF Prior
<1> QED
  BY <1>1, <1>2

----------------------------------------------------------------------------
(* Type correctness.  TypeOK is inductive once it is known that a run which *)
(* has picked a module still has that module left to do.                    *)

Picked == {"starting", "working", "wrote", "returned", "raised"}
LeftInv == \A r \in Runs : pc[r] \in Picked => job[r].left # {}
TypeInv == TypeOK /\ LeftInv

LEMMA MemMetaType ==
    ASSUME TypeOK, NEW r \in Runs, NEW st \in RunState
    PROVE  MemMeta(r, st) \in MetaType
BY DEF TypeOK, MemMeta, MetaType, JobType, ModuleState

LEMMA NoMetaType == NoMeta \in MetaType
BY DEF NoMeta, MetaType

LEMMA TypeInit == Init => TypeInv
<1> SUFFICES ASSUME Init PROVE TypeInv
  OBVIOUS
<1>1. NoJob \in JobType
  BY NoMetaType, WindowsAssumption DEF NoJob, JobType, NoRun
<1>2. TypeOK
  <2>1. log \in [Runs -> Seq(EventType)]
    BY DEF Init
  <2>2. del \in [pc : {"idle", "test", "stamp", "remove"}, run : Runs \cup {NoRun},
                seen : MetaType]
    BY NoMetaType DEF Init, NoDel
  <2>3. busy \in BOOLEAN /\ env \in Nat /\ pc \in [Runs -> PC]
    BY WindowsAssumption DEF Init, PC
  <2> QED
    BY <1>1, <2>1, <2>2, <2>3, NoMetaType DEF Init, TypeOK, NoPurge
<1>3. LeftInv
  BY DEF Init, LeftInv, Picked
<1> QED
  BY <1>2, <1>3 DEF TypeInv

\* A published event keeps the log typed.
LEMMA PublishType ==
    ASSUME TypeOK, NEW r \in Runs, NEW ev \in EventType, Publish(r, ev)
    PROVE  log' \in [Runs -> Seq(EventType)]
BY DEF TypeOK, Publish


(* What the actions do to job keeps it typed. *)

LEMMA JobTypes ==
    ASSUME TypeOK, NEW r \in Runs
    PROVE  /\ \A ms \in SUBSET Modules, d \in Nat :
                  [job EXCEPT ![r] = [job[r] EXCEPT !.sel = ms, !.days = d]] \in [Runs -> JobType]
           /\ \A ms \in SUBSET Modules : [job EXCEPT ![r].left = ms] \in [Runs -> JobType]
           /\ \A n \in Nat : [job EXCEPT ![r].saved = n] \in [Runs -> JobType]
           /\ \A p \in Runs \cup {NoRun}, ms \in SUBSET Modules :
                  [job EXCEPT ![r] = [job[r] EXCEPT !.prior = p, !.left = ms]]
                      \in [Runs -> JobType]
           /\ \A m \in Modules :
                  [job EXCEPT ![r] = [job[r] EXCEPT !.left = @ \ {m}, !.carry = @ \cup {m}]]
                      \in [Runs -> JobType]
           /\ \A m \in Modules, b \in BOOLEAN :
                  [job EXCEPT ![r] = [job[r] EXCEPT !.left = @ \ {m}, !.partial = b]]
                      \in [Runs -> JobType]
           /\ \A f \in MetaType : [job EXCEPT ![r].final = f] \in [Runs -> JobType]
<1>1. job \in [Runs -> JobType]
  BY DEF TypeOK
<1>2. \A ms \in SUBSET Modules, d \in Nat :
         [job EXCEPT ![r] = [job[r] EXCEPT !.sel = ms, !.days = d]] \in [Runs -> JobType]
  <2> TAKE ms \in SUBSET Modules, d \in Nat
  <2> DEFINE new == [job[r] EXCEPT !.sel = ms, !.days = d]
  <2>1. new \in JobType
    BY <1>1 DEF JobType
  <2> HIDE DEF new
  <2>2. [job EXCEPT ![r] = new] \in [Runs -> JobType]
    BY <1>1, <2>1
  <2> QED
    BY <2>2 DEF new
<1>3. \A ms \in SUBSET Modules : [job EXCEPT ![r].left = ms] \in [Runs -> JobType]
  BY <1>1 DEF JobType
<1>4. \A n \in Nat : [job EXCEPT ![r].saved = n] \in [Runs -> JobType]
  BY <1>1 DEF JobType
<1>5. \A p \in Runs \cup {NoRun}, ms \in SUBSET Modules :
         [job EXCEPT ![r] = [job[r] EXCEPT !.prior = p, !.left = ms]] \in [Runs -> JobType]
  <2> TAKE p \in Runs \cup {NoRun}, ms \in SUBSET Modules
  <2> DEFINE new == [job[r] EXCEPT !.prior = p, !.left = ms]
  <2>1. new \in JobType
    BY <1>1 DEF JobType
  <2> HIDE DEF new
  <2>2. [job EXCEPT ![r] = new] \in [Runs -> JobType]
    BY <1>1, <2>1
  <2> QED
    BY <2>2 DEF new
<1>6. \A m \in Modules :
         [job EXCEPT ![r] = [job[r] EXCEPT !.left = @ \ {m}, !.carry = @ \cup {m}]]
             \in [Runs -> JobType]
  <2> TAKE m \in Modules
  <2>1. job[r].left \ {m} \in SUBSET Modules /\ job[r].carry \cup {m} \in SUBSET Modules
    BY <1>1 DEF JobType
  <2> DEFINE new == [job[r] EXCEPT !.left = @ \ {m}, !.carry = @ \cup {m}]
  <2>2. new \in JobType
    BY <1>1, <2>1 DEF JobType
  <2> HIDE DEF new
  <2>3. [job EXCEPT ![r] = new] \in [Runs -> JobType]
    BY <1>1, <2>2
  <2> QED
    BY <2>3 DEF new
<1>7. \A m \in Modules, b \in BOOLEAN :
         [job EXCEPT ![r] = [job[r] EXCEPT !.left = @ \ {m}, !.partial = b]]
             \in [Runs -> JobType]
  <2> TAKE m \in Modules, b \in BOOLEAN
  <2>1. job[r].left \ {m} \in SUBSET Modules
    BY <1>1 DEF JobType
  <2> DEFINE new == [job[r] EXCEPT !.left = @ \ {m}, !.partial = b]
  <2>2. new \in JobType
    BY <1>1, <2>1 DEF JobType
  <2> HIDE DEF new
  <2>3. [job EXCEPT ![r] = new] \in [Runs -> JobType]
    BY <1>1, <2>2
  <2> QED
    BY <2>3 DEF new
<1>8. \A f \in MetaType : [job EXCEPT ![r].final = f] \in [Runs -> JobType]
  BY <1>1 DEF JobType
<1> QED
  BY <1>2, <1>3, <1>4, <1>5, <1>6, <1>7, <1>8

LEMMA TypeStart ==
    ASSUME TypeInv, NEW r \in Runs, StartRun(r)
    PROVE  TypeInv'
<1>0. TypeOK /\ LeftInv
  BY DEF TypeInv
<1>1. CASE \E ms \in SUBSET Modules \ {{}}, d \in Windows \cup {0} : StartClaim(r, ms, d)
  <2>1. PICK ms \in SUBSET Modules, d \in Nat : StartClaim(r, ms, d)
    BY <1>1, WindowsAssumption
  <2>2. /\ job' = [job EXCEPT ![r] = [job[r] EXCEPT !.sel = ms, !.days = d]]
        /\ job' \in [Runs -> JobType]
    BY <1>0, <2>1, JobTypes DEF StartClaim
  <2>3. \A q \in Runs : job'[q].left = job[q].left
    BY <1>0, <2>2 DEF TypeOK, JobType
  <2>4. pc' = [pc EXCEPT ![r] = "claimed"] /\ pc \in [Runs -> PC] /\ "claimed" \in PC
    BY <1>0, <2>1 DEF StartClaim, Goto, TypeOK, PC, Live, LoopHeld
  <2>5. pc' \in [Runs -> PC] /\ LeftInv'
    BY <1>0, <2>3, <2>4 DEF LeftInv, Picked
  <2> QED
    BY <1>0, <2>1, <2>2, <2>5 DEF StartClaim, TypeInv, TypeOK, diskVars, apiVars
<1>2. CASE StartFails(r)
  BY <1>0, <1>2 DEF StartFails, TypeInv, TypeOK, LeftInv, Picked, PC, Ended, Goto, apiVars
<1>3. CASE StartCreate(r)
  BY <1>0, <1>3, MemMetaType
     DEF StartCreate, TypeInv, TypeOK, LeftInv, Picked, PC, Live, LoopHeld, Goto, apiVars,
         RunState
<1>4. CASE StartSchedule(r)
  BY <1>0, <1>4
     DEF StartSchedule, TypeInv, TypeOK, LeftInv, Picked, PC, Live, LoopAwaits, Goto,
         diskVars, apiVars
<1> QED
  BY <1>1, <1>2, <1>3, <1>4 DEF StartRun

\* The module a run is about to handle is one of its modules.
LEMMA CurrentModule ==
    ASSUME TypeOK, NEW r \in Runs, job[r].left # {}
    PROVE  First(job[r].left) \in Modules
<1>1. job[r].left \subseteq Modules
  BY DEF TypeOK, JobType
<1> QED
  BY <1>1, FirstInSet

\* The events _run publishes are well formed.
LEMMA EventTypes ==
    /\ Event("run_started", {}, "running") \in EventType
    /\ \A ms \in SUBSET Modules : Event("modules_carried", ms, "carried") \in EventType
    /\ \A m \in Modules : /\ Event("module_started", {m}, "running") \in EventType
                          /\ \A st \in ModuleState :
                                 Event("module_finished", {m}, st) \in EventType
    /\ \A st \in RunState \cup {"none"} : Event("done", {}, st) \in EventType
BY DEF Event, EventType, RunState, ModuleState

\* update_module keeps run.json typed.
LEMMA UpdateModuleType ==
    ASSUME TypeOK, NEW r \in Runs, NEW m \in Modules, NEW st \in ModuleState,
           UpdateModule(r, m, st)
    PROVE  meta' \in [Runs -> MetaType]
<1> DEFINE mods == [meta[r].mods EXCEPT ![m] = st]
<1>1. meta[r] \in MetaType /\ meta \in [Runs -> MetaType]
  BY DEF TypeOK
<1>2. mods \in [Modules -> ModuleState \cup {"none"}]
  BY <1>1 DEF MetaType
<1>3. [meta[r] EXCEPT !.mods = mods] \in MetaType
  BY <1>1, <1>2 DEF MetaType
<1>4. meta' = [meta EXCEPT ![r] = [meta[r] EXCEPT !.mods = mods]]
  BY <1>1 DEF UpdateModule
<1> QED
  BY <1>1, <1>3, <1>4

LEMMA TypeAbort ==
    ASSUME TypeInv, NEW r \in Runs, Abort(r)
    PROVE  TypeInv'
<1>1. env' \in Nat /\ busy' \in BOOLEAN
  BY DEF TypeInv, TypeOK, JobType, Abort, Release
<1> QED
  BY <1>1 DEF TypeInv, TypeOK, LeftInv, Picked, PC, Ended, Abort, Goto, diskVars, apiVars

LEMMA TypeCoroutine ==
    ASSUME TypeInv, NEW r \in Runs, Coroutine(r)
    PROVE  TypeInv'
<1>0. TypeOK /\ LeftInv /\ job \in [Runs -> JobType]
  BY DEF TypeInv, TypeOK
<1>1. CASE RunEnter(r)
  <2>1. job' \in [Runs -> JobType] /\ env' \in Nat
    BY <1>0, <1>1, JobTypes DEF RunEnter, TypeOK, JobType
  <2> QED
    BY <1>0, <1>1, <2>1
       DEF RunEnter, TypeInv, TypeOK, LeftInv, Picked, PC, Live, LoopHeld, Goto, diskVars, apiVars
<1>2. CASE RunBegin(r)
  <2>1. job' \in [Runs -> JobType]
    BY <1>0, <1>2, JobTypes, PriorType DEF RunBegin, JobType
  <2>2. meta' \in [Runs -> MetaType]
    BY <1>0, <1>2, MemMetaType DEF RunBegin, TypeOK, RunState
  <2>3. log' \in [Runs -> Seq(EventType)]
    BY <1>0, <1>2, PublishType, EventTypes DEF RunBegin
  <2>4. \A q \in Runs : q # r => job'[q] = job[q]
    BY <1>2, <1>0 DEF RunBegin
  <2> QED
    BY <1>0, <1>2, <2>1, <2>2, <2>3, <2>4
       DEF RunBegin, TypeInv, TypeOK, LeftInv, Picked, PC, Live, LoopHeld, Goto, apiVars
<1>3. CASE CarryModule(r)
  <2> DEFINE m == First(job[r].left)
  <2>1. m \in Modules
    BY <1>0, <1>3, CurrentModule DEF CarryModule
  <2> HIDE DEF m
  <2>2. CASE CopyArtefact(r, m)
    <3>1. job' \in [Runs -> JobType]
      BY <1>0, <2>1, <2>2, JobTypes DEF CopyArtefact
    <3>2. art' \in [Runs -> SUBSET Modules]
      BY <1>0, <2>1, <2>2 DEF CopyArtefact, TypeOK
    <3>3. \A q \in Runs : q # r => job'[q] = job[q]
      BY <1>0, <2>2 DEF CopyArtefact
    <3> QED
      BY <1>0, <1>3, <3>1, <3>2, <3>3
         DEF CarryModule, TypeInv, TypeOK, LeftInv, Picked, apiVars
  <2>3. CASE job' = [job EXCEPT ![r].left = @ \ {m}] /\ UNCHANGED art
    <3>0. job[r].left \ {m} \in SUBSET Modules
      BY <1>0 DEF JobType
    <3>1. job' \in [Runs -> JobType]
      BY <1>0, <2>3, <3>0, JobTypes
    <3>2. \A q \in Runs : q # r => job'[q] = job[q]
      BY <1>0, <2>3
    <3> QED
      BY <1>0, <1>3, <2>3, <3>1, <3>2
         DEF CarryModule, TypeInv, TypeOK, LeftInv, Picked, apiVars
  <2> QED
    BY <1>3, <2>2, <2>3 DEF CarryModule, m
<1>4. CASE CarryEnd(r)
  <2>1. job' \in [Runs -> JobType]
    BY <1>0, <1>4, JobTypes DEF CarryEnd, JobType
  <2>2. meta' \in [Runs -> MetaType]
    <3>1. MemMeta(r, "running") \in MetaType
      BY <1>0, MemMetaType DEF RunState
    <3>2. meta' = meta \/ meta' = [meta EXCEPT ![r] = MemMeta(r, "running")]
      BY <1>4 DEF CarryEnd
    <3> QED
      BY <1>0, <3>1, <3>2 DEF TypeOK
  <2>3. log' \in [Runs -> Seq(EventType)]
    <3>1. job[r].carry \in SUBSET Modules
      BY <1>0 DEF JobType
    <3> QED
      BY <1>0, <1>4, <3>1, PublishType, EventTypes DEF CarryEnd, AnnounceCarry, TypeOK
  <2>4. \A q \in Runs : q # r => job'[q] = job[q]
    BY <1>0, <1>4 DEF CarryEnd
  <2> QED
    BY <1>0, <1>4, <2>1, <2>2, <2>3, <2>4
       DEF CarryEnd, TypeInv, TypeOK, LeftInv, Picked, PC, Live, LoopHeld, Goto, apiVars
<1>5. CASE ModuleCancelled(r)
  <2>1. First(job[r].left) \in Modules
    BY <1>0, <1>5, CurrentModule DEF ModuleCancelled
  <2>2. job' \in [Runs -> JobType]
    BY <1>0, <1>5, JobTypes DEF ModuleCancelled, JobType
  <2>3. meta' \in [Runs -> MetaType]
    BY <1>0, <1>5, <2>1, UpdateModuleType DEF ModuleCancelled, ModuleState
  <2>4. log' \in [Runs -> Seq(EventType)]
    BY <1>0, <1>5, <2>1, PublishType, EventTypes DEF ModuleCancelled, ModuleState
  <2>5. \A q \in Runs : q # r => job'[q] = job[q]
    BY <1>0, <1>5 DEF ModuleCancelled
  <2> QED
    BY <1>0, <1>5, <2>2, <2>3, <2>4, <2>5
       DEF ModuleCancelled, TypeInv, TypeOK, LeftInv, Picked, apiVars
<1>6. CASE ModuleChosen(r)
  BY <1>0, <1>6
     DEF ModuleChosen, TypeInv, TypeOK, LeftInv, Picked, PC, Live, LoopHeld, Goto, diskVars, apiVars
<1>7. CASE ModuleStart(r)
  <2>1. First(job[r].left) \in Modules
    BY <1>0, <1>7, CurrentModule DEF ModuleStart, LeftInv, Picked
  <2>2. meta' \in [Runs -> MetaType]
    BY <1>0, <1>7, <2>1, UpdateModuleType DEF ModuleStart, ModuleState
  <2>3. log' \in [Runs -> Seq(EventType)]
    BY <1>0, <1>7, <2>1, PublishType, EventTypes DEF ModuleStart
  <2> QED
    BY <1>0, <1>7, <2>2, <2>3
       DEF ModuleStart, TypeInv, TypeOK, LeftInv, Picked, PC, Live, LoopAwaits, Goto, apiVars
<1>8. CASE ModuleOk(r) \/ ModuleFails(r)
  <2>1. PICK st \in {"ok", "failed"}, from \in {"returned", "raised"} : ModuleEnd(r, from, st)
    BY <1>8 DEF ModuleOk, ModuleFails
  <2>2. First(job[r].left) \in Modules
    BY <1>0, <2>1, CurrentModule DEF ModuleEnd, LeftInv, Picked
  <2>3. Partial(r, st) \in BOOLEAN
    BY <1>0 DEF Partial, JobType
  <2>4. job' \in [Runs -> JobType]
    BY <1>0, <2>1, <2>2, <2>3, JobTypes DEF ModuleEnd
  <2>5. meta' \in [Runs -> MetaType]
    BY <1>0, <2>1, <2>2, UpdateModuleType DEF ModuleEnd, ModuleState
  <2>6. log' \in [Runs -> Seq(EventType)]
    BY <1>0, <2>1, <2>2, PublishType, EventTypes DEF ModuleEnd, ModuleState
  <2>7. \A q \in Runs : q # r => job'[q] = job[q]
    BY <1>0, <2>1 DEF ModuleEnd
  <2> QED
    BY <1>0, <2>1, <2>4, <2>5, <2>6, <2>7
       DEF ModuleEnd, TypeInv, TypeOK, LeftInv, Picked, PC, Live, LoopHeld, Goto, apiVars
<1>9. CASE RunDecide(r)
  <2>1. MemMeta(r, "running") \in MetaType /\ meta[r] \in MetaType
    BY <1>0, MemMetaType DEF TypeOK, RunState
  <2>2. PICK read \in MetaType : job' = [job EXCEPT ![r].final = [read EXCEPT !.status = Verdict(r)]]
    BY <1>9, <2>1 DEF RunDecide
  <2>3. [read EXCEPT !.status = Verdict(r)] \in MetaType
    BY DEF MetaType, Verdict, RunState
  <2>4. job' \in [Runs -> JobType]
    BY <1>0, <2>2, <2>3, JobTypes
  <2>5. \A q \in Runs : q # r => job'[q] = job[q]
    BY <1>0, <2>2
  <2> QED
    BY <1>0, <1>9, <2>4, <2>5
       DEF RunDecide, TypeInv, TypeOK, LeftInv, Picked, PC, Live, LoopHeld, Goto, diskVars, apiVars
<1>10. CASE RunSettle(r)
  <2>1. job[r].final \in MetaType
    BY <1>0 DEF JobType
  <2>2. meta' \in [Runs -> MetaType]
    BY <1>0, <1>10, <2>1 DEF RunSettle, TypeOK
  <2>3. log' \in [Runs -> Seq(EventType)]
    BY <1>0, <1>10, PublishType, EventTypes, <2>1 DEF RunSettle, MetaType
  <2> QED
    BY <1>0, <1>10, <2>2, <2>3
       DEF RunSettle, TypeInv, TypeOK, LeftInv, Picked, PC, Live, LoopHeld, Goto, apiVars
<1>11. CASE RunRelease(r)
  <2>1. env' \in Nat /\ busy' \in BOOLEAN
    BY <1>0, <1>11 DEF RunRelease, Release, TypeOK, JobType
  <2> QED
    BY <1>0, <1>11, <2>1
       DEF RunRelease, TypeInv, TypeOK, LeftInv, Picked, PC, Ended, Goto, diskVars, apiVars
<1>12. CASE RunAborts(r)
  BY <1>12, TypeAbort DEF RunAborts
<1> QED
  BY <1>1, <1>2, <1>3, <1>4, <1>5, <1>6, <1>7, <1>8, <1>9, <1>10, <1>11, <1>12 DEF Coroutine

LEMMA TypeWorkerAndCancel ==
    ASSUME TypeInv, NEW r \in Runs, Worker(r) \/ CancelRun(r)
    PROVE  TypeInv'
<1>0. TypeOK /\ LeftInv
  BY DEF TypeInv
<1>1. CASE WorkerWrites(r)
  <2>1. First(job[r].left) \in Modules
    BY <1>0, <1>1, CurrentModule DEF WorkerWrites, LeftInv, Picked
  <2>2. art' \in [Runs -> SUBSET Modules] /\ dir' \in SUBSET Runs
    BY <1>0, <1>1, <2>1 DEF WorkerWrites, TypeOK
  <2> QED
    BY <1>0, <1>1, <2>2
       DEF WorkerWrites, TypeInv, TypeOK, LeftInv, Picked, PC, Live, LoopAwaits, Goto, apiVars
<1>2. CASE WorkerReturns(r) \/ WorkerRaises(r)
  BY <1>0, <1>2
     DEF WorkerReturns, WorkerRaises, TypeInv, TypeOK, LeftInv, Picked, PC, Live, LoopAwaits,
         Goto, diskVars, apiVars
<1>3. CASE CancelRun(r)
  BY <1>0, <1>3
     DEF CancelRun, TypeInv, TypeOK, LeftInv, taskVars, diskVars, apiVars
<1> QED
  BY <1>1, <1>2, <1>3 DEF Worker

\* The delete threads leave what the coroutines own alone.
LEMMA RemoveType ==
    ASSUME TypeOK, NEW r, Remove(r)
    PROVE  /\ dir' \in SUBSET Runs
           /\ meta' \in [Runs -> MetaType]
           /\ art' \in [Runs -> SUBSET Modules]
           /\ log' \in [Runs -> Seq(EventType)]
<1>1. dir' \in SUBSET Runs
  BY DEF TypeOK, Remove
<1>2. meta' \in [Runs -> MetaType]
  BY NoMetaType DEF TypeOK, Remove
<1>3. art' \in [Runs -> SUBSET Modules]
  BY DEF TypeOK, Remove
<1>4. log' \in [Runs -> Seq(EventType)]
  <2>1. <<>> \in Seq(EventType) /\ log \in [Runs -> Seq(EventType)]
    BY DEF TypeOK
  <2> QED
    BY <2>1 DEF Remove
<1> QED
  BY <1>1, <1>2, <1>3, <1>4

CallsType == [deletes : Nat, purges : Nat, crashes : Nat]

LEMMA CallsTypes ==
    ASSUME TypeOK
    PROVE  /\ [calls EXCEPT !.deletes = @ + 1] \in CallsType
           /\ [calls EXCEPT !.purges = @ + 1] \in CallsType
           /\ [calls EXCEPT !.crashes = @ + 1] \in CallsType
<1>1. calls \in CallsType
  BY DEF TypeOK, CallsType
<1>2. calls.deletes + 1 \in Nat /\ calls.purges + 1 \in Nat /\ calls.crashes + 1 \in Nat
  BY <1>1 DEF CallsType
<1> QED
  BY <1>1, <1>2 DEF CallsType

LEMMA TypeDelete ==
    ASSUME TypeInv, (\E r \in Runs : DeleteRead(r)) \/ DeleteThread
    PROVE  TypeInv'
<1>0. TypeOK /\ LeftInv
  BY DEF TypeInv
<1>1. CASE \E r \in Runs : DeleteRead(r)
  <2>1. PICK r \in Runs : DeleteRead(r)
    BY <1>1
  <2>2. del' \in [pc : {"idle", "test", "stamp", "remove"}, run : Runs \cup {NoRun},
                 seen : MetaType]
    BY <1>0, <2>1 DEF DeleteRead, TypeOK
  <2>3. calls' \in [deletes : Nat, purges : Nat, crashes : Nat]
    BY <1>0, <2>1, CallsTypes DEF DeleteRead, CallsType
  <2> QED
    BY <1>0, <2>1, <2>2, <2>3
       DEF DeleteRead, TypeInv, TypeOK, LeftInv, taskVars, diskVars
<1>2. CASE DeleteRefused
  <2>1. NoDel \in [pc : {"idle", "test", "stamp", "remove"}, run : Runs \cup {NoRun},
                  seen : MetaType]
    BY NoMetaType DEF NoDel
  <2> QED
    BY <1>0, <1>2, <2>1
       DEF DeleteRefused, TypeInv, TypeOK, LeftInv, taskVars, diskVars
<1>3. CASE DeleteStale
  BY <1>0, <1>3 DEF DeleteStale, TypeInv, TypeOK, LeftInv, taskVars, diskVars
<1>4. CASE DeleteStamp
  <2>1. [del.seen EXCEPT !.status = "failed"] \in MetaType
    BY <1>0 DEF TypeOK, MetaType, RunState
  <2>2. meta' \in [Runs -> MetaType]
    BY <1>0, <1>4, <2>1 DEF DeleteStamp, TypeOK
  <2> QED
    BY <1>0, <1>4, <2>2
       DEF DeleteStamp, TypeInv, TypeOK, LeftInv, taskVars
<1>5. CASE DeleteRemove
  <2>1. NoDel \in [pc : {"idle", "test", "stamp", "remove"}, run : Runs \cup {NoRun},
                  seen : MetaType]
    BY NoMetaType DEF NoDel
  <2> QED
    BY <1>0, <1>5, <2>1, RemoveType
       DEF DeleteRemove, TypeInv, TypeOK, LeftInv, taskVars
<1> QED
  BY <1>1, <1>2, <1>3, <1>4, <1>5 DEF DeleteThread

LEMMA TypePurge ==
    ASSUME TypeInv, PurgeList \/ PurgeThread
    PROVE  TypeInv'
<1>0. TypeOK /\ LeftInv
  BY DEF TypeInv
<1>1. CASE PurgeList
  <2>1. calls' \in [deletes : Nat, purges : Nat, crashes : Nat]
    BY <1>0, <1>1, CallsTypes DEF PurgeList, CallsType
  <2> QED
    BY <1>0, <1>1, <2>1 DEF PurgeList, TypeInv, TypeOK, LeftInv, taskVars, diskVars
<1>2. CASE PurgeCancel
  <2>1. cancel' \in [Runs -> {"none", "clear", "set"}]
    BY <1>0, <1>2 DEF PurgeCancel, TypeOK
  <2> QED
    BY <1>0, <1>2, <2>1 DEF PurgeCancel, TypeInv, TypeOK, LeftInv, taskVars, diskVars
<1>3. CASE PurgeRemove
  <2>1. PICK r : /\ Remove(r)
                 /\ purge' = IF purge.left = {r} THEN NoPurge
                             ELSE [purge EXCEPT !.pc = "cancel", !.left = @ \ {r}]
    BY <1>3 DEF PurgeRemove
  <2>2. purge' \in [pc : {"idle", "cancel", "remove"}, left : SUBSET Runs,
                   flight : SUBSET Runs]
    BY <1>0, <2>1 DEF TypeOK, NoPurge
  <2> QED
    BY <1>0, <1>3, <2>1, <2>2, RemoveType DEF PurgeRemove, TypeInv, TypeOK, LeftInv, taskVars
<1> QED
  BY <1>1, <1>2, <1>3 DEF PurgeThread

LEMMA TypeCrash ==
    ASSUME TypeInv, Crash
    PROVE  TypeInv'
<1>0. TypeOK /\ LeftInv
  BY DEF TypeInv
<1>1. calls' \in [deletes : Nat, purges : Nat, crashes : Nat]
  BY <1>0, CallsTypes DEF Crash, CallsType
<1>2. /\ NoDel \in [pc : {"idle", "test", "stamp", "remove"}, run : Runs \cup {NoRun},
                   seen : MetaType]
      /\ NoPurge \in [pc : {"idle", "cancel", "remove"}, left : SUBSET Runs,
                     flight : SUBSET Runs]
  BY NoMetaType DEF NoDel, NoPurge
<1>3. pc' \in [Runs -> PC] /\ \A r \in Runs : pc'[r] \notin Picked
  BY <1>0 DEF Crash, TypeOK, PC, Live, LoopHeld, LoopAwaits, Ended, Picked
<1>4. env' \in Nat /\ busy' \in BOOLEAN /\ cancel' \in [Runs -> {"none", "clear", "set"}]
  BY WindowsAssumption DEF Crash
<1>5. UNCHANGED <<job, meta, dir, art, log>> /\ del' = NoDel /\ purge' = NoPurge
  BY DEF Crash, diskVars
<1>6. TypeOK'
  BY <1>0, <1>1, <1>2, <1>3, <1>4, <1>5 DEF TypeOK
<1>7. LeftInv'
  BY <1>3 DEF LeftInv
<1> QED
  BY <1>6, <1>7 DEF TypeInv

LEMMA TypeNext == TypeInv /\ [Next]_vars => TypeInv'
<1> SUFFICES ASSUME TypeInv, [Next]_vars PROVE TypeInv'
  OBVIOUS
<1>1. CASE ServerIdle \/ UNCHANGED vars
  BY <1>1 DEF ServerIdle, vars, TypeInv, TypeOK, LeftInv, Picked
<1> QED
  BY <1>1, TypeStart, TypeCoroutine, TypeWorkerAndCancel, TypeDelete, TypePurge, TypeCrash
     DEF Next

\* Every variable keeps its type in every behaviour of the runner.
THEOREM TypeCorrect == Spec => []TypeOK
<1>1. TypeInv => TypeOK
  BY DEF TypeInv
<1> QED
  BY <1>1, TypeInit, TypeNext, PTL DEF Spec

----------------------------------------------------------------------------
(* The slot, the environment and the cancel registry.  What matters of a    *)
(* step to all three is one of six shapes; each action has one of them, and *)
(* each shape preserves the invariant.                                      *)

KeepsLocals == \A q \in Runs : job'[q].days = job[q].days /\ job'[q].saved = job[q].saved
KeepsRegistry(S) == \A q \in S : cancel[q] # "none" => cancel'[q] # "none"

\* The step does not touch the coroutines.
Aside == UNCHANGED <<pc, busy, env>> /\ KeepsLocals /\ KeepsRegistry(Runs)

\* start claims the slot.
Claims(r) == /\ ~busy /\ busy' = TRUE
             /\ pc[r] = "unborn" /\ pc' = [pc EXCEPT ![r] = "claimed"]
             /\ env' = env
             /\ \A q \in Runs : /\ job'[q].saved = job[q].saved
                                /\ q # r => job'[q].days = job[q].days
             /\ KeepsRegistry(Runs)

\* start or _run moves on.
Moves(r, to) == /\ pc[r] \in Live /\ to \in Live
                /\ pc' = [pc EXCEPT ![r] = to]
                /\ pc[r] \in Inside <=> to \in Inside
                /\ to \in {"claimed", "created"} => pc[r] \in {"claimed", "created"}
                /\ pc[r] \in {"claimed", "created"} =>
                       to \in {"claimed", "created"} \/ cancel'[r] # "none"
                /\ UNCHANGED <<busy, env>> /\ KeepsLocals /\ KeepsRegistry(Runs)

\* _run applies its window.
Enters(r) == /\ pc[r] = "scheduled" /\ pc' = [pc EXCEPT ![r] = "entered"]
             /\ env' = IF job[r].days = 0 THEN env ELSE job[r].days
             /\ busy' = busy
             /\ \A q \in Runs : /\ job'[q].days = job[q].days
                                /\ q # r => job'[q].saved = job[q].saved
             /\ job'[r].saved = env
             /\ KeepsRegistry(Runs)

\* start or _run gives the slot back.
Leaves(r, to) == /\ pc[r] \in Live /\ to \in Ended
                 /\ pc' = [pc EXCEPT ![r] = to]
                 /\ busy' = FALSE
                 /\ env' = IF pc[r] \notin Inside \/ job[r].days = 0 THEN env ELSE job[r].saved
                 /\ KeepsLocals /\ KeepsRegistry(Runs \ {r})

StepShape ==
    \/ Aside
    \/ \E r \in Runs : \/ Claims(r) \/ Enters(r)
                       \/ \E to \in PC : Moves(r, to) \/ Leaves(r, to)
    \/ Crash

LEMMA ShapeOfStart ==
    ASSUME TypeInv, NEW r \in Runs, StartRun(r)
    PROVE  StepShape
<1>0. TypeOK /\ job \in [Runs -> JobType]
  BY DEF TypeInv, TypeOK
<1>1. CASE \E ms \in SUBSET Modules \ {{}}, d \in Windows \cup {0} : StartClaim(r, ms, d)
  <2>1. PICK ms \in SUBSET Modules, d \in Nat : StartClaim(r, ms, d)
    BY <1>1, WindowsAssumption
  <2>2. job' = [job EXCEPT ![r] = [job[r] EXCEPT !.sel = ms, !.days = d]]
    BY <2>1 DEF StartClaim
  <2>3. \A q \in Runs : /\ job'[q].saved = job[q].saved
                       /\ q # r => job'[q].days = job[q].days
    BY <1>0, <2>2 DEF JobType
  <2>4. Claims(r)
    BY <2>1, <2>3 DEF StartClaim, Claimable, Goto, Claims, KeepsRegistry
  <2> QED
    BY <2>4 DEF StepShape
<1>2. CASE StartFails(r)
  <2>1. Leaves(r, "refused")
    BY <1>0, <1>2
       DEF StartFails, Goto, Leaves, Live, LoopHeld, Ended, Inside, KeepsLocals, KeepsRegistry
  <2> QED
    BY <2>1 DEF StepShape, PC, Ended
<1>3. CASE StartCreate(r)
  <2>1. Moves(r, "created")
    BY <1>0, <1>3
       DEF StartCreate, Goto, Moves, Live, LoopHeld, Inside, KeepsLocals, KeepsRegistry
  <2> QED
    BY <2>1 DEF StepShape, PC, Live, LoopHeld
<1>4. CASE StartSchedule(r)
  <2>1. cancel'[r] = "clear" /\ KeepsRegistry(Runs)
    BY <1>0, <1>4 DEF StartSchedule, KeepsRegistry, TypeOK
  <2>2. Moves(r, "scheduled")
    BY <1>0, <1>4, <2>1
       DEF StartSchedule, Goto, Moves, Live, LoopHeld, LoopAwaits, Inside, KeepsLocals
  <2> QED
    BY <2>2 DEF StepShape, PC, Live, LoopAwaits
<1> QED
  BY <1>1, <1>2, <1>3, <1>4 DEF StartRun

\* Writing any field of job[r] but days and saved keeps both.
LEMMA LocalsKept ==
    ASSUME TypeOK, NEW r \in Runs
    PROVE  /\ \A x : job' = [job EXCEPT ![r].left = x] => KeepsLocals
           /\ \A x : job' = [job EXCEPT ![r].final = x] => KeepsLocals
           /\ \A x, y : job' = [job EXCEPT ![r] = [job[r] EXCEPT !.prior = x, !.left = y]]
                         => KeepsLocals
           /\ \A x, y : job' = [job EXCEPT ![r] = [job[r] EXCEPT !.left = x, !.carry = y]]
                         => KeepsLocals
           /\ \A x, y : job' = [job EXCEPT ![r] = [job[r] EXCEPT !.left = x, !.partial = y]]
                         => KeepsLocals
<1>1. job \in [Runs -> JobType]
  BY DEF TypeOK
<1>2. \A x : job' = [job EXCEPT ![r].left = x] => KeepsLocals
  BY <1>1 DEF JobType, KeepsLocals
<1>3. \A x : job' = [job EXCEPT ![r].final = x] => KeepsLocals
  BY <1>1 DEF JobType, KeepsLocals
<1>4. \A x, y : job' = [job EXCEPT ![r] = [job[r] EXCEPT !.prior = x, !.left = y]]
        => KeepsLocals
  BY <1>1 DEF JobType, KeepsLocals
<1>5. \A x, y : job' = [job EXCEPT ![r] = [job[r] EXCEPT !.left = x, !.carry = y]]
        => KeepsLocals
  BY <1>1 DEF JobType, KeepsLocals
<1>6. \A x, y : job' = [job EXCEPT ![r] = [job[r] EXCEPT !.left = x, !.partial = y]]
        => KeepsLocals
  BY <1>1 DEF JobType, KeepsLocals
<1> QED
  BY <1>2, <1>3, <1>4, <1>5, <1>6

\* A step of _run that stays inside it.
LEMMA InsideMoves ==
    ASSUME TypeOK, NEW r \in Runs, NEW to \in Inside, pc[r] \in Inside, Goto(r, to),
           UNCHANGED <<busy, env, cancel>>, KeepsLocals
    PROVE  StepShape
<1>1. Moves(r, to)
  BY DEF Goto, Moves, Inside, KeepsRegistry
<1> QED
  BY <1>1 DEF StepShape, PC, Inside

LEMMA ShapeOfCoroutine ==
    ASSUME TypeInv, NEW r \in Runs, Coroutine(r)
    PROVE  StepShape
<1>0. TypeOK /\ job \in [Runs -> JobType] /\ pc \in [Runs -> PC]
  BY DEF TypeInv, TypeOK
<1>1. CASE RunEnter(r)
  <2>1. /\ \A q \in Runs : /\ job'[q].days = job[q].days
                          /\ q # r => job'[q].saved = job[q].saved
        /\ job'[r].saved = env
    BY <1>0, <1>1 DEF RunEnter, JobType
  <2>2. Enters(r)
    BY <1>1, <2>1 DEF RunEnter, Goto, Enters, KeepsRegistry
  <2> QED
    BY <2>2 DEF StepShape
<1>2. CASE RunBegin(r)
  <2>1. KeepsLocals
    BY <1>0, <1>2, LocalsKept DEF RunBegin
  <2> QED
    BY <1>0, <1>2, <2>1, InsideMoves DEF RunBegin, Inside, Live, LoopHeld
<1>3. CASE CarryModule(r)
  <2>1. KeepsLocals
    <3>1. CASE CopyArtefact(r, First(job[r].left))
      BY <1>0, <3>1, LocalsKept DEF CopyArtefact
    <3>2. CASE job' = [job EXCEPT ![r].left = @ \ {First(job[r].left)}]
      BY <1>0, <3>2, LocalsKept
    <3> QED
      BY <1>3, <3>1, <3>2 DEF CarryModule
  <2> QED
    BY <1>3, <2>1 DEF CarryModule, StepShape, Aside, KeepsRegistry
<1>4. CASE CarryEnd(r)
  <2>1. KeepsLocals
    BY <1>0, <1>4, LocalsKept DEF CarryEnd
  <2> QED
    BY <1>0, <1>4, <2>1, InsideMoves DEF CarryEnd, Inside, Live, LoopHeld
<1>5. CASE ModuleCancelled(r)
  <2>1. KeepsLocals
    BY <1>0, <1>5, LocalsKept DEF ModuleCancelled
  <2> QED
    BY <1>5, <2>1 DEF ModuleCancelled, StepShape, Aside, KeepsRegistry
<1>6. CASE ModuleChosen(r)
  BY <1>0, <1>6, InsideMoves DEF ModuleChosen, Inside, Live, LoopHeld, KeepsLocals
<1>7. CASE ModuleStart(r)
  BY <1>0, <1>7, InsideMoves DEF ModuleStart, Inside, Live, LoopHeld, LoopAwaits, KeepsLocals
<1>8. CASE ModuleOk(r) \/ ModuleFails(r)
  <2>1. PICK st \in {"ok", "failed"}, from \in {"returned", "raised"} : ModuleEnd(r, from, st)
    BY <1>8 DEF ModuleOk, ModuleFails
  <2>2. KeepsLocals
    BY <1>0, <2>1, LocalsKept DEF ModuleEnd
  <2> QED
    BY <1>0, <2>1, <2>2, InsideMoves DEF ModuleEnd, Inside, Live, LoopHeld, LoopAwaits
<1>9. CASE RunDecide(r)
  <2>1. KeepsLocals
    BY <1>0, <1>9, LocalsKept DEF RunDecide
  <2> QED
    BY <1>0, <1>9, <2>1, InsideMoves DEF RunDecide, Inside, Live, LoopHeld
<1>10. CASE RunSettle(r)
  BY <1>0, <1>10, InsideMoves DEF RunSettle, Inside, Live, LoopHeld, KeepsLocals
<1>11. CASE RunRelease(r)
  <2>1. Leaves(r, "over")
    BY <1>0, <1>11
       DEF RunRelease, Release, Goto, Leaves, Live, LoopHeld, Ended, Inside, KeepsLocals,
           KeepsRegistry, TypeOK
  <2> QED
    BY <2>1 DEF StepShape, PC, Ended
<1>12. CASE RunAborts(r)
  <2>1. pc[r] \in Inside
    BY <1>12 DEF RunAborts, WriteRaises, Inside, Live, LoopHeld, LoopAwaits
  <2>2. Leaves(r, "aborted")
    BY <1>0, <1>12, <2>1
       DEF RunAborts, Abort, Release, Goto, Leaves, Ended, Inside, KeepsLocals, KeepsRegistry
  <2> QED
    BY <2>2 DEF StepShape, PC, Ended
<1> QED
  BY <1>1, <1>2, <1>3, <1>4, <1>5, <1>6, <1>7, <1>8, <1>9, <1>10, <1>11, <1>12 DEF Coroutine

LEMMA ShapeOfRest ==
    ASSUME TypeInv, [Next]_vars,
           ~ \E r \in Runs : StartRun(r) \/ Coroutine(r)
    PROVE  StepShape
<1>0. TypeOK
  BY DEF TypeInv
<1>1. CASE \E r \in Runs : Worker(r)
  <2>1. PICK r \in Runs : Worker(r)
    BY <1>1
  <2>2. \E to \in {"wrote", "returned", "raised"} : Goto(r, to)
    BY <2>1 DEF Worker, WorkerWrites, WorkerReturns, WorkerRaises
  <2>3. /\ pc[r] \in Inside /\ {"wrote", "returned", "raised"} \subseteq Inside
        /\ UNCHANGED <<busy, env, cancel>> /\ KeepsLocals
    BY <2>1 DEF Worker, WorkerWrites, WorkerReturns, WorkerRaises, Inside, Live, LoopAwaits,
                KeepsLocals
  <2> QED
    BY <1>0, <2>2, <2>3, InsideMoves
<1>2. CASE \E r \in Runs : CancelRun(r) \/ DeleteRead(r)
  <2>1. UNCHANGED taskVars /\ KeepsRegistry(Runs)
    BY <1>0, <1>2 DEF CancelRun, DeleteRead, KeepsRegistry, TypeOK
  <2> QED
    BY <2>1 DEF taskVars, StepShape, Aside, KeepsLocals
<1>3. CASE DeleteThread
  <2>1. UNCHANGED taskVars /\ KeepsRegistry(Runs)
    BY <1>0, <1>3 DEF DeleteThread, DeleteRefused, DeleteStale, DeleteStamp, DeleteRemove,
                      KeepsRegistry, TypeOK
  <2> QED
    BY <2>1 DEF taskVars, StepShape, Aside, KeepsLocals
<1>4. CASE PurgeList \/ PurgeThread
  <2>1. UNCHANGED taskVars
    BY <1>4 DEF PurgeThread, PurgeList, PurgeCancel, PurgeRemove
  <2>2. KeepsRegistry(Runs)
    BY <1>0, <1>4 DEF PurgeThread, PurgeList, PurgeCancel, PurgeRemove, KeepsRegistry, TypeOK
  <2> QED
    BY <2>1, <2>2 DEF taskVars, StepShape, Aside, KeepsLocals
<1>5. CASE ServerIdle \/ UNCHANGED vars
  BY <1>5 DEF ServerIdle, vars, StepShape, Aside, KeepsLocals, KeepsRegistry
<1> QED
  BY <1>1, <1>2, <1>3, <1>4, <1>5 DEF Next, StepShape

LEMMA ShapeOfNext == TypeInv /\ [Next]_vars => StepShape
BY ShapeOfStart, ShapeOfCoroutine, ShapeOfRest

Core == TypeInv /\ SingleFlight /\ BusyIffLive

\* While a run is inside _run, what it will restore is the base value; the
\* variables hold its window, or the base value when nobody asked for one.
EnvInv == EnvScoped /\ \A r \in Runs : pc[r] \in Inside => job[r].saved = BaseWindow

LEMMA SlotStep ==
    ASSUME Core, StepShape, pc' \in [Runs -> PC]
    PROVE  (SingleFlight /\ BusyIffLive)'
<1>0. pc \in [Runs -> PC] /\ "unborn" \notin Live /\ Live \cap Ended = {}
  BY DEF Core, TypeInv, TypeOK, Live, LoopHeld, LoopAwaits, Ended
<1>1. CASE Aside
  BY <1>1 DEF Core, Aside, SingleFlight, BusyIffLive
<1>2. CASE \E r \in Runs : Claims(r)
  <2>1. "claimed" \in Live
    BY DEF Live, LoopHeld
  <2> QED
    BY <1>0, <1>2, <2>1 DEF Core, Claims, SingleFlight, BusyIffLive
<1>3. CASE \E r \in Runs : Enters(r)
  <2>1. "scheduled" \in Live /\ "entered" \in Live
    BY DEF Live, LoopHeld, LoopAwaits
  <2> QED
    BY <1>0, <1>3, <2>1 DEF Core, Enters, SingleFlight, BusyIffLive
<1>4. CASE \E r \in Runs, to \in PC : Moves(r, to)
  BY <1>0, <1>4 DEF Core, Moves, SingleFlight, BusyIffLive
<1>5. CASE \E r \in Runs, to \in PC : Leaves(r, to)
  BY <1>0, <1>5 DEF Core, Leaves, SingleFlight, BusyIffLive
<1>6. CASE Crash
  <2>1. \A r \in Runs : pc'[r] \notin Live
    BY <1>0, <1>6 DEF Crash, Live, LoopHeld, LoopAwaits
  <2> QED
    BY <1>6, <2>1 DEF Crash, SingleFlight, BusyIffLive
<1> QED
  BY <1>1, <1>2, <1>3, <1>4, <1>5, <1>6 DEF StepShape

LEMMA CoreNext == Core /\ [Next]_vars => Core'
<1> SUFFICES ASSUME Core, [Next]_vars PROVE Core'
  OBVIOUS
<1>1. TypeInv' /\ StepShape
  BY TypeNext, ShapeOfNext DEF Core
<1> QED
  BY <1>1, SlotStep DEF Core, TypeInv, TypeOK

LEMMA CoreInit == Init => Core
<1> SUFFICES ASSUME Init PROVE Core
  OBVIOUS
<1>1. \A r \in Runs : pc[r] \notin Live
  BY DEF Init, Live, LoopHeld, LoopAwaits
<1> QED
  BY <1>1, TypeInit DEF Init, Core, SingleFlight, BusyIffLive

LEMMA EnvStep ==
    ASSUME Core, EnvInv, StepShape, TypeInv'
    PROVE  EnvInv'
<1>0. /\ pc \in [Runs -> PC]
      /\ "claimed" \notin Inside /\ "scheduled" \notin Inside /\ "unborn" \notin Inside
      /\ "entered" \in Inside /\ "scheduled" \in Live
      /\ Inside \subseteq Live /\ Live \cap Ended = {}
  BY DEF Core, TypeInv, TypeOK, Live, LoopHeld, LoopAwaits, Ended, Inside
<1>1. CASE Aside
  BY <1>1 DEF EnvInv, EnvScoped, Aside, KeepsLocals
<1>2. CASE \E r \in Runs : Claims(r)
  BY <1>0, <1>2 DEF EnvInv, EnvScoped, Claims
<1>3. CASE \E r \in Runs : Enters(r)
  <2>1. PICK r \in Runs : Enters(r)
    BY <1>3
  <2>2. \A q \in Runs : pc[q] \notin Inside
    BY <1>0, <2>1 DEF Core, SingleFlight, Enters
  <2>3. env = BaseWindow
    BY <2>2 DEF EnvInv, EnvScoped
  <2>4. \A q \in Runs : pc'[q] \in Inside <=> q = r
    BY <1>0, <2>1, <2>2 DEF Enters
  <2> QED
    BY <2>1, <2>3, <2>4 DEF EnvInv, EnvScoped, Enters
<1>4. CASE \E r \in Runs, to \in PC : Moves(r, to)
  <2>1. PICK r \in Runs, to \in PC : Moves(r, to)
    BY <1>4
  <2>2. \A q \in Runs : pc'[q] \in Inside <=> pc[q] \in Inside
    BY <1>0, <2>1 DEF Moves
  <2> QED
    BY <2>1, <2>2 DEF EnvInv, EnvScoped, Moves, KeepsLocals
<1>5. CASE \E r \in Runs, to \in PC : Leaves(r, to)
  <2>1. PICK r \in Runs, to \in PC : Leaves(r, to)
    BY <1>5
  <2>2. \A q \in Runs : pc'[q] \notin Inside /\ (pc[q] \in Inside => q = r)
    BY <1>0, <2>1 DEF Core, SingleFlight, Leaves
  <2>3. env' = BaseWindow
    BY <2>1, <2>2 DEF EnvInv, EnvScoped, Leaves
  <2> QED
    BY <2>2, <2>3 DEF EnvInv, EnvScoped
<1>6. CASE Crash
  <2>1. \A r \in Runs : pc'[r] \notin Inside
    BY <1>0, <1>6 DEF Crash, Live, LoopHeld, LoopAwaits, Inside
  <2> QED
    BY <1>6, <2>1 DEF Crash, EnvInv, EnvScoped
<1> QED
  BY <1>1, <1>2, <1>3, <1>4, <1>5, <1>6 DEF StepShape

LEMMA RegistryStep ==
    ASSUME Core, CancelRegistered, StepShape
    PROVE  CancelRegistered'
<1> DEFINE Unregistered == {"claimed", "created"}
<1>0. /\ pc \in [Runs -> PC] /\ cancel \in [Runs -> {"none", "clear", "set"}]
      /\ "unborn" \notin Live /\ Live \cap Ended = {}
      /\ "scheduled" \in Live \ Unregistered
  BY DEF Core, TypeInv, TypeOK, Live, LoopHeld, LoopAwaits, Ended
<1>1. CASE Aside
  BY <1>1 DEF CancelRegistered, Aside, KeepsRegistry
<1>2. CASE \E r \in Runs : Claims(r)
  BY <1>0, <1>2 DEF CancelRegistered, Claims, KeepsRegistry
<1>3. CASE \E r \in Runs : Enters(r)
  BY <1>0, <1>3 DEF CancelRegistered, Enters, KeepsRegistry
<1>4. CASE \E r \in Runs, to \in PC : Moves(r, to)
  <2>1. PICK r \in Runs, to \in PC : Moves(r, to)
    BY <1>4
  <2>2. ASSUME NEW q \in Runs, pc'[q] \in Live \ Unregistered PROVE cancel'[q] # "none"
    <3>1. CASE q = r /\ pc[r] \in Unregistered
      BY <1>0, <2>1, <2>2, <3>1 DEF Moves
    <3>2. CASE ~ (q = r /\ pc[r] \in Unregistered)
      BY <1>0, <2>1, <2>2, <3>2 DEF Moves, CancelRegistered, KeepsRegistry
    <3> QED
      BY <3>1, <3>2
  <2> QED
    BY <2>2 DEF CancelRegistered
<1>5. CASE \E r \in Runs, to \in PC : Leaves(r, to)
  BY <1>0, <1>5 DEF CancelRegistered, Leaves, KeepsRegistry
<1>6. CASE Crash
  <2>1. \A r \in Runs : pc'[r] \notin Live
    BY <1>0, <1>6 DEF Crash, Live, LoopHeld, LoopAwaits
  <2> QED
    BY <2>1 DEF CancelRegistered
<1> QED
  BY <1>1, <1>2, <1>3, <1>4, <1>5, <1>6 DEF StepShape

\* One run at a time: no two runs are ever between the claim in start and the
\* finally block of _run, and _busy says whether one is.
THEOREM OneRunAtATime == Spec => [](SingleFlight /\ BusyIffLive)
<1>1. Core => SingleFlight /\ BusyIffLive
  BY DEF Core
<1> QED
  BY <1>1, CoreInit, CoreNext, PTL DEF Spec

\* _busy is neither leaked by a run that dies nor cleared under one that lives.
THEOREM BusyFlagTrue == Spec => []BusyIffLive
BY OneRunAtATime, PTL

\* The SMA_*_DAYS overrides of a run last exactly as long as the run is inside
\* _run, however it leaves.
THEOREM EnvironmentScoped == Spec => []EnvScoped
<1>1. Init => EnvInv
  <2> SUFFICES ASSUME Init PROVE EnvInv
    OBVIOUS
  <2>1. \A r \in Runs : pc[r] \notin Inside
    BY DEF Init, Inside, Live, LoopHeld, LoopAwaits
  <2> QED
    BY <2>1 DEF Init, EnvInv, EnvScoped
<1>2. Core /\ EnvInv /\ [Next]_vars => EnvInv'
  BY EnvStep, ShapeOfNext, CoreNext DEF Core
<1>3. EnvInv => EnvScoped
  BY DEF EnvInv
<1> QED
  BY <1>1, <1>2, <1>3, CoreInit, CoreNext, PTL DEF Spec

\* From create_task to the end of _run a run has its entry in _cancel, so the
\* cancel endpoint always reaches it.
THEOREM LiveRunsCancellable == Spec => []CancelRegistered
<1>1. Init => CancelRegistered
  <2> SUFFICES ASSUME Init PROVE CancelRegistered
    OBVIOUS
  <2>1. \A r \in Runs : pc[r] \notin Live
    BY DEF Init, Live, LoopHeld, LoopAwaits
  <2> QED
    BY <2>1 DEF CancelRegistered
<1>2. Core /\ CancelRegistered /\ [Next]_vars => CancelRegistered'
  BY RegistryStep, ShapeOfNext DEF Core
<1> QED
  BY <1>1, <1>2, CoreInit, CoreNext, PTL DEF Spec

-----------------------------------------------------------------------------

(* What one step does to the files of a run.                                *)

HasMeta(q) == meta[q].status # "none"

\* The step leaves run q alone, but for its cancel event being set.
Untouched(q) ==
    /\ pc'[q] = pc[q] /\ job'[q] = job[q] /\ meta'[q] = meta[q] /\ art'[q] = art[q]
    /\ log'[q] = log[q] /\ (q \in dir' <=> q \in dir)
    /\ cancel'[q] # cancel[q] => cancel[q] = "clear" /\ cancel'[q] = "set"

\* run.json's entries of the modules r is not at are kept.
OthersKept(r) ==
    \A n \in Modules \ {First(job[r].left)} : meta'[r].mods[n] = meta[r].mods[n]

\* What update_module leaves in run.json.
LEMMA Updated ==
    ASSUME TypeOK, NEW r \in Runs, NEW m \in Modules, NEW st, UpdateModule(r, m, st)
    PROVE  /\ \A q \in Runs \ {r} : meta'[q] = meta[q]
           /\ meta'[r].status = meta[r].status
           /\ meta'[r].mods[m] = st
           /\ \A n \in Modules \ {m} : meta'[r].mods[n] = meta[r].mods[n]
<1>1. meta \in [Runs -> MetaType] /\ meta[r] \in MetaType
  BY DEF TypeOK
<1>2. meta' = [meta EXCEPT ![r] = [meta[r] EXCEPT !.mods = [meta[r].mods EXCEPT ![m] = st]]]
  BY <1>1 DEF UpdateModule
<1>3. meta'[r] = [meta[r] EXCEPT !.mods = [meta[r].mods EXCEPT ![m] = st]]
  BY <1>1, <1>2
<1>4. meta'[r].mods = [meta[r].mods EXCEPT ![m] = st] /\ meta'[r].status = meta[r].status
  BY <1>1, <1>3 DEF MetaType
<1>5. /\ meta'[r].mods[m] = st
      /\ \A n \in Modules \ {m} : meta'[r].mods[n] = meta[r].mods[n]
  BY <1>1, <1>4 DEF MetaType
<1> QED
  BY <1>1, <1>2, <1>4, <1>5

\* update_module for the module the run is at.
LEMMA CurrentUpdated ==
    ASSUME TypeOK, NEW r \in Runs, NEW st, job[r].left # {},
           UpdateModule(r, First(job[r].left), st)
    PROVE  /\ meta'[r].status = meta[r].status
           /\ meta'[r].mods[First(job[r].left)] = st
           /\ OthersKept(r)
<1> DEFINE m == First(job[r].left)
<1>1. m \in Modules /\ UpdateModule(r, m, st)
  BY CurrentModule
<1> HIDE DEF m
<1>2. /\ meta'[r].status = meta[r].status /\ meta'[r].mods[m] = st
      /\ \A n \in Modules \ {m} : meta'[r].mods[n] = meta[r].mods[n]
  <2>1. meta'[r].status = meta[r].status
    BY <1>1, Updated
  <2>2. meta'[r].mods[m] = st
    BY <1>1, Updated
  <2>3. \A n \in Modules \ {m} : meta'[r].mods[n] = meta[r].mods[n]
    BY <1>1, Updated
  <2> QED
    BY <2>1, <2>2, <2>3
<1> USE DEF m
<1> QED
  BY <1>2 DEF OthersKept

\* A step of start, _run or a worker concerns the run it serves and no other.
LEMMA OthersUntouched ==
    ASSUME TypeInv, NEW r \in Runs, StartRun(r) \/ Coroutine(r) \/ Worker(r),
           NEW q \in Runs \ {r}
    PROVE  Untouched(q)
<1>0. TypeOK /\ LeftInv
  BY DEF TypeInv
<1>1. CASE StartRun(r)
  BY <1>0, <1>1
     DEF StartRun, StartClaim, StartFails, StartCreate, StartSchedule, Goto, Untouched, TypeOK,
         diskVars, apiVars
<1>2. CASE Worker(r)
  BY <1>0, <1>2
     DEF Worker, WorkerWrites, WorkerReturns, WorkerRaises, Goto, Untouched, TypeOK, diskVars,
         apiVars
<1>3. CASE RunEnter(r) \/ ModuleChosen(r) \/ RunRelease(r) \/ RunAborts(r) \/ RunDecide(r)
  BY <1>0, <1>3
     DEF RunEnter, ModuleChosen, RunRelease, RunAborts, Abort, RunDecide, Goto, Untouched,
         TypeOK, diskVars, apiVars
<1>4. CASE RunBegin(r) \/ RunSettle(r)
  BY <1>0, <1>4 DEF RunBegin, RunSettle, Publish, Goto, Untouched, TypeOK, apiVars
<1>5. CASE CarryModule(r)
  BY <1>0, <1>5 DEF CarryModule, CopyArtefact, Untouched, TypeOK, apiVars
<1>6. CASE CarryEnd(r)
  BY <1>0, <1>6 DEF CarryEnd, AnnounceCarry, Publish, Goto, Untouched, TypeOK, apiVars
<1>7. CASE ModuleCancelled(r)
  BY <1>0, <1>7, CurrentModule, Updated DEF ModuleCancelled, Publish, Untouched, TypeOK, apiVars
<1>8. CASE ModuleStart(r)
  BY <1>0, <1>8, CurrentModule, Updated
     DEF ModuleStart, LeftInv, Picked, Publish, Goto, Untouched, TypeOK, apiVars
<1>9. CASE ModuleOk(r) \/ ModuleFails(r)
  <2>1. PICK st \in {"ok", "failed"}, from \in {"returned", "raised"} : ModuleEnd(r, from, st)
    BY <1>9 DEF ModuleOk, ModuleFails
  <2> QED
    BY <1>0, <2>1, CurrentModule, Updated
       DEF ModuleEnd, LeftInv, Picked, Publish, Goto, Untouched, TypeOK, apiVars
<1> QED
  BY <1>1, <1>2, <1>3, <1>4, <1>5, <1>6, <1>7, <1>8, <1>9 DEF Coroutine

----------------------------------------------------------------------------
(* Artefacts.                                                               *)

Reported == {"ok", "carried"}
Fresh == {"unborn", "claimed"}
Early == {"created", "scheduled", "entered"}
Looping == {"choosing"} \cup Picked

\* Every module that mods reports has its artefact; mods reports none.
Held(q, mods) == \A m \in Modules : mods[m] \in Reported => m \in art[q]
NoneReported(mods) == \A m \in Modules : mods[m] \notin Reported

\* run.json, the artefacts and the directory of a run come and go together, but
\* for what a worker writes once the directory was removed under it.
Disk(q) ==
    /\ HasMeta(q) => q \in dir
    /\ ~HasMeta(q) => meta[q] = NoMeta
    /\ pc[q] \in Fresh \cup {"refused"} => ~HasMeta(q) /\ art[q] = {}
    /\ pc[q] \in Fresh => q \notin dir
    /\ pc[q] \in Fresh \cup Early => job[q].carry = {}
    /\ pc[q] \in Early \cup {"carrying", "choosing", "starting", "settling"} /\ q \in dir
           => HasMeta(q)

\* What run.json reports is there, and so is what _run is about to report.
Files(q) ==
    /\ Held(q, meta[q].mods)
    /\ pc[q] = "created" => NoneReported(meta[q].mods)
    /\ pc[q] = "carrying" /\ q \in dir => job[q].carry \subseteq art[q]
    /\ pc[q] \in {"wrote", "returned"} /\ q \in dir => First(job[q].left) \in art[q]
    /\ pc[q] = "settling" => /\ job[q].final.status # "none"
                             /\ q \in dir => Held(q, job[q].final.mods)

\* The directory of a run was removed while its worker was at work, which has
\* made it again.  The run can only raise, and keeps its cancel event.
Gutted(q) == /\ pc[q] \in {"wrote", "returned", "raised", "aborted"}
             /\ ~HasMeta(q) /\ cancel[q] # "none"

\* The RunMeta a delete has read may be written back without harm: what it
\* reports is still there, or nothing is, or the delete will be refused.
DelInv ==
    del.pc \in {"test", "stamp"} =>
        /\ del.run \in Runs /\ pc[del.run] \notin Fresh \cup {"refused"}
        /\ pc[del.run] = "created" \/ (del.pc = "stamp" /\ pc[del.run] \in Live)
               => NoneReported(del.seen.mods)
        /\ \/ Held(del.run, del.seen.mods)
           \/ del.run \notin dir
           \/ Gutted(del.run) /\ del.pc = "test"

FileInv == (\A q \in Runs : Disk(q) /\ Files(q)) /\ DelInv

LEMMA FilesUntouched ==
    ASSUME TypeOK, NEW q \in Runs, Untouched(q), Disk(q), Files(q)
    PROVE  (Disk(q) /\ Files(q))'
BY DEF Untouched, Disk, Files, HasMeta, Held, NoneReported

LEMMA NoMetaFacts ==
    /\ NoMeta.status = "none" /\ \A m \in Modules : NoMeta.mods[m] = "none"
BY DEF NoMeta

LEMMA MemMetaFacts ==
    ASSUME NEW r \in Runs, NEW st
    PROVE  /\ MemMeta(r, st).status = st
           /\ \A m \in Modules : MemMeta(r, st).mods[m] = IF m \in job[r].sel THEN "queued"
                                                         ELSE IF m \in job[r].carry THEN "carried"
                                                         ELSE "none"
BY DEF MemMeta

LEMMA FilesStart ==
    ASSUME TypeInv, NEW r \in Runs, Disk(r), Files(r), StartRun(r)
    PROVE  (Disk(r) /\ Files(r))'
<1>0. TypeOK /\ meta \in [Runs -> MetaType] /\ job \in [Runs -> JobType]
  BY DEF TypeInv, TypeOK
<1>1. CASE \E ms \in SUBSET Modules \ {{}}, d \in Windows \cup {0} : StartClaim(r, ms, d)
  <2>1. PICK ms, d : StartClaim(r, ms, d)
    BY <1>1
  <2>2. job'[r].carry = job[r].carry
    BY <1>0, <2>1 DEF StartClaim, JobType
  <2> QED
    BY <1>0, <2>1, <2>2
       DEF StartClaim, Goto, Disk, Files, HasMeta, Held, NoneReported, TypeOK, diskVars, Fresh,
           Early
<1>2. CASE StartFails(r)
  BY <1>0, <1>2
     DEF StartFails, Goto, Disk, Files, HasMeta, Held, NoneReported, TypeOK, Fresh, Early
<1>3. CASE StartCreate(r)
  <2>1. meta'[r] = MemMeta(r, "queued") /\ r \in dir' /\ pc'[r] = "created"
    BY <1>0, <1>3 DEF StartCreate, Goto, TypeOK
  <2>2. job' = job /\ art' = art /\ job[r].carry = {}
    BY <1>3 DEF StartCreate, Disk, Fresh
  <2>3. NoneReported(meta'[r].mods) /\ meta'[r].status = "queued"
    BY <2>1, <2>2, MemMetaFacts DEF NoneReported, Reported
  <2> QED
    BY <2>1, <2>2, <2>3 DEF Disk, Files, HasMeta, Held, NoneReported, Fresh, Early
<1>4. CASE StartSchedule(r)
  BY <1>0, <1>4
     DEF StartSchedule, Goto, Disk, Files, HasMeta, Held, NoneReported, TypeOK, diskVars, Fresh,
         Early
<1> QED
  BY <1>1, <1>2, <1>3, <1>4 DEF StartRun

LEMMA FilesWorker ==
    ASSUME TypeInv, NEW r \in Runs, Disk(r), Files(r), Worker(r)
    PROVE  (Disk(r) /\ Files(r))'
<1>0. TypeOK
  BY DEF TypeInv
<1>1. CASE WorkerWrites(r)
  BY <1>0, <1>1
     DEF WorkerWrites, Goto, Disk, Files, HasMeta, Held, NoneReported, TypeOK, Fresh, Early
<1>2. CASE WorkerReturns(r) \/ WorkerRaises(r)
  BY <1>0, <1>2
     DEF WorkerReturns, WorkerRaises, Goto, Disk, Files, HasMeta, Held, NoneReported, TypeOK,
         diskVars, Fresh, Early
<1> QED
  BY <1>1, <1>2 DEF Worker

LEMMA FilesCoroutine ==
    ASSUME TypeInv, NEW r \in Runs, Disk(r), Files(r), Coroutine(r)
    PROVE  (Disk(r) /\ Files(r))'
<1> USE DEF Disk, Files, HasMeta, Held, NoneReported, Fresh, Early
<1>0. /\ TypeOK /\ LeftInv
      /\ meta \in [Runs -> MetaType] /\ job \in [Runs -> JobType] /\ pc \in [Runs -> PC]
      /\ art \in [Runs -> SUBSET Modules]
  BY DEF TypeInv, TypeOK
<1>1. CASE RunEnter(r)
  <2>1. job'[r].carry = job[r].carry
    BY <1>0, <1>1 DEF RunEnter, JobType
  <2> QED
    BY <1>0, <1>1, <2>1 DEF RunEnter, Goto, diskVars
<1>2. CASE RunBegin(r)
  <2>1. /\ meta'[r] = MemMeta(r, "running") /\ pc'[r] = "carrying" /\ dir' = dir /\ art' = art
        /\ r \in dir /\ job'[r].carry = job[r].carry /\ job[r].carry = {}
    BY <1>0, <1>2 DEF RunBegin, Goto, JobType
  <2>2. NoneReported(meta'[r].mods) /\ meta'[r].status = "running"
    BY <2>1, MemMetaFacts DEF Reported
  <2> QED
    BY <2>1, <2>2
<1>3. CASE CarryModule(r)
  <2>1. meta' = meta /\ pc' = pc /\ dir' = dir /\ pc[r] = "carrying"
    BY <1>3 DEF CarryModule
  <2>2. r \in dir => job'[r].carry \subseteq art'[r] /\ art[r] \subseteq art'[r]
    <3>1. CASE CopyArtefact(r, First(job[r].left))
      BY <1>0, <2>1, <3>1 DEF CopyArtefact, JobType
    <3>2. CASE job' = [job EXCEPT ![r].left = @ \ {First(job[r].left)}] /\ UNCHANGED art
      BY <1>0, <2>1, <3>2 DEF JobType
    <3> QED
      BY <1>3, <3>1, <3>2 DEF CarryModule
  <2>3. r \notin dir => art' = art
    BY <1>3 DEF CarryModule, CopyArtefact
  <2> QED
    BY <2>1, <2>2, <2>3
<1>4. CASE CarryEnd(r)
  <2>1. /\ pc[r] = "carrying" /\ pc'[r] = "choosing" /\ dir' = dir /\ art' = art
        /\ meta'[r] = meta[r] \/ (r \in dir /\ meta'[r] = MemMeta(r, "running"))
    BY <1>0, <1>4 DEF CarryEnd, Goto
  <2>2. CASE meta'[r] = meta[r]
    BY <2>1, <2>2
  <2>3. CASE r \in dir /\ meta'[r] = MemMeta(r, "running")
    <3>1. Held(r, meta'[r].mods) /\ meta'[r].status = "running"
      BY <2>1, <2>3, MemMetaFacts DEF Reported
    <3> QED
      BY <2>1, <2>3, <3>1
  <2> QED
    BY <2>1, <2>2, <2>3
<1>5. CASE ModuleCancelled(r)
  <2>2. /\ pc' = pc /\ pc[r] = "choosing" /\ dir' = dir /\ art' = art /\ HasMeta(r)
        /\ meta'[r].status = meta[r].status
        /\ meta'[r].mods[First(job[r].left)] = "cancelled" /\ OthersKept(r)
    <3>1. UpdateModule(r, First(job[r].left), "cancelled")
      BY <1>5 DEF ModuleCancelled
    <3>2. /\ meta'[r].status = meta[r].status
          /\ meta'[r].mods[First(job[r].left)] = "cancelled" /\ OthersKept(r)
      BY <1>0, <1>5, <3>1, CurrentUpdated DEF ModuleCancelled
    <3> QED
      BY <1>0, <1>5, <3>2 DEF ModuleCancelled
  <2> QED
    BY <2>2 DEF Reported, OthersKept
<1>6. CASE ModuleChosen(r)
  BY <1>0, <1>6 DEF ModuleChosen, Goto, diskVars
<1>7. CASE ModuleStart(r)
  <2>2. /\ pc'[r] = "working" /\ dir' = dir /\ art' = art /\ HasMeta(r)
        /\ meta'[r].status = meta[r].status
        /\ meta'[r].mods[First(job[r].left)] = "running" /\ OthersKept(r)
    <3>1. UpdateModule(r, First(job[r].left), "running")
      BY <1>7 DEF ModuleStart
    <3>2. /\ meta'[r].status = meta[r].status
          /\ meta'[r].mods[First(job[r].left)] = "running" /\ OthersKept(r)
      BY <1>0, <1>7, <3>1, CurrentUpdated DEF ModuleStart, LeftInv, Picked
    <3> QED
      BY <1>0, <1>7, <3>2 DEF ModuleStart, Goto
  <2> QED
    BY <2>2 DEF Reported, OthersKept
<1>8. CASE ModuleOk(r) \/ ModuleFails(r)
  <2>1. PICK st \in {"ok", "failed"}, from \in {"returned", "raised"} :
            ModuleEnd(r, from, st) /\ (st = "ok" => from = "returned")
    BY <1>8 DEF ModuleOk, ModuleFails
  <2>3. /\ pc[r] = from /\ pc'[r] = "choosing" /\ dir' = dir /\ art' = art /\ HasMeta(r)
        /\ meta'[r].status = meta[r].status
        /\ meta'[r].mods[First(job[r].left)] = st /\ OthersKept(r)
    <3>1. UpdateModule(r, First(job[r].left), st)
      BY <2>1 DEF ModuleEnd
    <3>2. /\ meta'[r].status = meta[r].status
          /\ meta'[r].mods[First(job[r].left)] = st /\ OthersKept(r)
      BY <1>0, <2>1, <3>1, CurrentUpdated DEF ModuleEnd, LeftInv, Picked
    <3> QED
      BY <1>0, <2>1, <3>2 DEF ModuleEnd, Goto
  <2>4. st = "ok" => First(job[r].left) \in art[r]
    BY <2>1, <2>3
  <2>5. Held(r, meta'[r].mods)
    BY <2>3, <2>4, <2>1 DEF Reported, OthersKept
  <2> QED
    BY <2>3, <2>5
<1>9. CASE RunDecide(r)
  <2>1. PICK read : /\ read = IF meta[r].status = "none" THEN MemMeta(r, "running") ELSE meta[r]
                    /\ job' = [job EXCEPT ![r].final = [read EXCEPT !.status = Verdict(r)]]
    BY <1>9 DEF RunDecide
  <2>2. read \in MetaType
    BY <1>0, <2>1, MemMetaType DEF RunState
  <2>3. /\ job'[r].final.status = Verdict(r) /\ job'[r].final.mods = read.mods
        /\ job'[r].carry = job[r].carry
    BY <1>0, <2>1, <2>2 DEF JobType, MetaType
  <2>4. Verdict(r) # "none"
    BY DEF Verdict
  <2>5. pc[r] = "choosing" /\ pc'[r] = "settling" /\ UNCHANGED <<meta, dir, art>>
    BY <1>0, <1>9 DEF RunDecide, Goto, diskVars
  <2>6. r \in dir => Held(r, read.mods)
    BY <2>1, <2>5
  <2> QED
    BY <2>3, <2>4, <2>5, <2>6
<1>10. CASE RunSettle(r)
  BY <1>0, <1>10 DEF RunSettle, Goto
<1>11. CASE RunRelease(r)
  BY <1>0, <1>11 DEF RunRelease, Goto, diskVars
<1>12. CASE RunAborts(r)
  BY <1>0, <1>12 DEF RunAborts, Abort, Goto, diskVars
<1> QED
  BY <1>1, <1>2, <1>3, <1>4, <1>5, <1>6, <1>7, <1>8, <1>9, <1>10, <1>11, <1>12 DEF Coroutine

\* repository.delete of x.
LEMMA Removed ==
    ASSUME TypeOK, NEW x, Remove(x), NEW q \in Runs
    PROVE  /\ q = x => q \notin dir' /\ meta'[q] = NoMeta /\ art'[q] = {} /\ log'[q] = <<>>
           /\ q # x => /\ q \in dir' <=> q \in dir
                       /\ meta'[q] = meta[q] /\ art'[q] = art[q] /\ log'[q] = log[q]
BY DEF TypeOK, Remove

LEMMA FilesRemoved ==
    ASSUME TypeOK, NEW x, Remove(x), UNCHANGED <<pc, job>>, NEW q \in Runs, Disk(q), Files(q)
    PROVE  (Disk(q) /\ Files(q))'
<1>1. CASE q = x
  BY <1>1, Removed, NoMetaFacts
     DEF Disk, Files, HasMeta, Held, NoneReported, Fresh, Early, Reported
<1>2. CASE q # x
  BY <1>2, Removed DEF Disk, Files, HasMeta, Held, NoneReported
<1> QED
  BY <1>1, <1>2

\* After a restart the disk is as it was, and no run is on its way.
LEMMA FilesCrash ==
    ASSUME TypeOK, Crash, NEW q \in Runs, Disk(q), Files(q)
    PROVE  (Disk(q) /\ Files(q))'
<1>1. /\ UNCHANGED <<job, meta, dir, art>>
      /\ \/ pc'[q] = "refused" /\ pc[q] = "claimed"
         \/ pc'[q] = "lost"
         \/ pc'[q] = pc[q]
  BY DEF Crash, diskVars
<1> QED
  BY <1>1 DEF Disk, Files, HasMeta, Held, NoneReported, Fresh, Early

LEMMA FilesStamp ==
    ASSUME TypeOK, DelInv, DeleteStamp, NEW q \in Runs, Disk(q), Files(q)
    PROVE  (Disk(q) /\ Files(q))'
<1>1. UNCHANGED <<pc, job, dir, art>>
  BY DEF DeleteStamp, taskVars
<1>2. CASE q = del.run /\ q \in dir
  <2>1. del.seen \in MetaType
    BY DEF TypeOK
  <2>2. meta'[q] = [del.seen EXCEPT !.status = "failed"]
    BY <1>2 DEF DeleteStamp, TypeOK
  <2>3. meta'[q].status = "failed" /\ meta'[q].mods = del.seen.mods
    BY <2>1, <2>2 DEF MetaType
  <2>4. /\ Held(q, del.seen.mods) /\ pc[q] \notin Fresh \cup {"refused"}
        /\ pc[q] = "created" => NoneReported(del.seen.mods)
    BY <1>2 DEF DelInv, DeleteStamp
  <2> QED
    BY <1>1, <1>2, <2>3, <2>4 DEF Disk, Files, HasMeta, Held, NoneReported, Fresh
<1>3. CASE ~ (q = del.run /\ q \in dir)
  <2>1. meta'[q] = meta[q]
    BY <1>3 DEF DeleteStamp, TypeOK
  <2> QED
    BY <1>1, <2>1 DEF Disk, Files, HasMeta, Held, NoneReported
<1> QED
  BY <1>2, <1>3

\* A step is one of a run, or of an endpoint that leaves every run alone, or
\* rewrites or removes one run on disk, or it is a restart.
LEMMA NextCases ==
    ASSUME TypeOK, [Next]_vars
    PROVE  \/ \E r \in Runs : StartRun(r) \/ Coroutine(r) \/ Worker(r)
           \/ \A q \in Runs : Untouched(q)
           \/ DeleteStamp
           \/ \E x : Remove(x) /\ UNCHANGED <<pc, job, cancel>>
           \/ Crash
<1>1. CASE Next
  <2>1. CASE \E r \in Runs : CancelRun(r) \/ DeleteRead(r)
    BY <2>1 DEF CancelRun, DeleteRead, Untouched, taskVars, diskVars, TypeOK
  <2>2. CASE DeleteRefused \/ DeleteStale \/ PurgeList \/ PurgeCancel \/ ServerIdle
    BY <2>2 DEF DeleteRefused, DeleteStale, PurgeList, PurgeCancel, ServerIdle, Untouched,
                taskVars, diskVars, vars, TypeOK
  <2>3. CASE DeleteRemove
    BY <2>3 DEF DeleteRemove, taskVars
  <2>4. CASE PurgeRemove
    BY <2>4 DEF PurgeRemove, taskVars
  <2> QED
    BY <1>1, <2>1, <2>2, <2>3, <2>4 DEF Next, DeleteThread, PurgeThread
<1>2. CASE UNCHANGED vars
  BY <1>2 DEF vars, Untouched
<1> QED
  BY <1>1, <1>2

LEMMA FilesNext ==
    ASSUME TypeInv, FileInv, [Next]_vars, NEW q \in Runs
    PROVE  (Disk(q) /\ Files(q))'
<1>0. TypeOK /\ Disk(q) /\ Files(q) /\ DelInv
  BY DEF TypeInv, FileInv
<1>1. CASE \E r \in Runs : StartRun(r) \/ Coroutine(r) \/ Worker(r)
  <2>1. PICK r \in Runs : StartRun(r) \/ Coroutine(r) \/ Worker(r)
    BY <1>1
  <2>2. CASE q = r
    BY <1>0, <2>1, <2>2, FilesStart, FilesCoroutine, FilesWorker
  <2>3. CASE q # r
    BY <1>0, <2>1, <2>3, OthersUntouched, FilesUntouched
  <2> QED
    BY <2>2, <2>3
<1>2. CASE \A x \in Runs : Untouched(x)
  BY <1>0, <1>2, FilesUntouched
<1>3. CASE DeleteStamp \/ Crash
  BY <1>0, <1>3, FilesStamp, FilesCrash
<1>4. CASE \E x : Remove(x) /\ UNCHANGED <<pc, job, cancel>>
  BY <1>0, <1>4, FilesRemoved
<1> QED
  BY <1>0, <1>1, <1>2, <1>3, <1>4, NextCases

\* What a step of its own does to a run a delete may have read: no artefact
\* goes, the coroutine does not go back, only the worker makes the directory
\* again, and a run without run.json can only raise.
Onward(r) ==
    /\ art[r] \subseteq art'[r]
    /\ pc'[r] \notin Fresh \cup {"refused", "created"}
    /\ pc'[r] \in Live => pc[r] \in Live
    /\ r \notin dir /\ r \in dir' => pc[r] = "working" /\ pc'[r] = "wrote" /\ meta'[r] = meta[r]
    /\ pc[r] \in {"wrote", "returned", "raised", "aborted"} /\ ~HasMeta(r) =>
           /\ pc'[r] \in {"wrote", "returned", "raised", "aborted"}
           /\ meta'[r] = meta[r]
    /\ pc'[r] # "over" => cancel[r] = "none" \/ cancel'[r] # "none"

LEMMA RunOnward ==
    ASSUME TypeInv, NEW r \in Runs, StartRun(r) \/ Coroutine(r) \/ Worker(r),
           pc[r] \notin Fresh \cup {"refused"}
    PROVE  Onward(r)
<1> USE DEF Onward, Fresh, HasMeta, Live, LoopHeld, LoopAwaits
<1>0. TypeOK
  BY DEF TypeInv
<1>1. CASE StartRun(r)
  BY <1>0, <1>1
     DEF StartRun, StartClaim, StartFails, StartCreate, StartSchedule, Goto, TypeOK, diskVars
<1>2. CASE Worker(r)
  BY <1>0, <1>2
     DEF Worker, WorkerWrites, WorkerReturns, WorkerRaises, Goto, TypeOK, diskVars
<1>3. CASE RunEnter(r) \/ ModuleChosen(r) \/ RunRelease(r) \/ RunDecide(r)
  BY <1>0, <1>3 DEF RunEnter, ModuleChosen, RunRelease, RunDecide, Goto, TypeOK, diskVars
<1>4. CASE RunAborts(r)
  BY <1>0, <1>4 DEF RunAborts, WriteRaises, Abort, Goto, TypeOK, diskVars
<1>5. CASE RunBegin(r) \/ RunSettle(r) \/ CarryEnd(r)
  BY <1>0, <1>5 DEF RunBegin, RunSettle, CarryEnd, Goto, TypeOK
<1>6. CASE CarryModule(r)
  BY <1>0, <1>6 DEF CarryModule, CopyArtefact, TypeOK
<1>7. CASE ModuleCancelled(r) \/ ModuleStart(r)
  BY <1>0, <1>7 DEF ModuleCancelled, ModuleStart, Goto, TypeOK
<1>8. CASE ModuleOk(r) \/ ModuleFails(r)
  BY <1>0, <1>8 DEF ModuleOk, ModuleFails, ModuleEnd, Goto, TypeOK
<1> QED
  BY <1>1, <1>2, <1>3, <1>4, <1>5, <1>6, <1>7, <1>8 DEF Coroutine

\* The endpoints' threads do not move in the steps of the runs.
LEMMA ThreadsKept ==
    ASSUME NEW r \in Runs, StartRun(r) \/ Coroutine(r) \/ Worker(r)
    PROVE  UNCHANGED apiVars
<1>1. CASE StartRun(r) \/ Worker(r)
  BY <1>1 DEF StartRun, StartClaim, StartFails, StartCreate, StartSchedule, Worker, WorkerWrites,
              WorkerReturns, WorkerRaises
<1>2. CASE Coroutine(r)
  BY <1>2 DEF Coroutine, RunEnter, RunBegin, CarryModule, CarryEnd, ModuleCancelled,
              ModuleChosen, ModuleStart, ModuleOk, ModuleFails, ModuleEnd, RunDecide, RunSettle,
              RunRelease, RunAborts, Abort
<1> QED
  BY <1>1, <1>2

LEMMA DelRun ==
    ASSUME Core, CancelRegistered, FileInv, UNCHANGED del,
           NEW r \in Runs, StartRun(r) \/ Coroutine(r) \/ Worker(r)
    PROVE  DelInv'
<1> SUFFICES ASSUME del.pc \in {"test", "stamp"} PROVE DelInv'
  BY DEF DelInv
<1> DEFINE x == del.run
<1>0. /\ TypeInv /\ TypeOK /\ x \in Runs /\ pc[x] \notin Fresh \cup {"refused"}
      /\ Disk(x) /\ DelInv
  BY DEF Core, TypeInv, FileInv, DelInv
<1>1. CASE x # r
  <2>1. Untouched(x)
    BY <1>0, <1>1, OthersUntouched
  <2> QED
    BY <1>0, <2>1 DEF Untouched, DelInv, Held, NoneReported, Gutted, HasMeta
<1>2. CASE x = r
  <2>1. Onward(x)
    BY <1>0, <1>2, RunOnward
  <2>2. CASE Held(x, del.seen.mods)
    <3>1. Held(x, del.seen.mods)'
      BY <2>1, <2>2 DEF Held, Onward
    <3> QED
      BY <1>0, <2>1, <3>1 DEF DelInv, Onward, NoneReported
  <2>3. CASE x \notin dir /\ x \notin dir'
    BY <1>0, <2>1, <2>3 DEF DelInv, Onward, NoneReported
  <2>4. CASE x \notin dir /\ x \in dir'
    <3>1. pc[x] = "working" /\ pc'[x] = "wrote" /\ meta'[x] = meta[x] /\ ~HasMeta(x)
      BY <1>0, <2>1, <2>4 DEF Onward, Disk
    <3>2. cancel[x] # "none"
      BY <1>0, <3>1 DEF CancelRegistered, Live, LoopAwaits
    <3>3. CASE del.pc = "test"
      BY <1>0, <2>1, <3>1, <3>2, <3>3 DEF DelInv, Onward, NoneReported, Gutted, HasMeta
    <3>4. CASE del.pc = "stamp"
      <4>1. NoneReported(del.seen.mods)
        BY <1>0, <3>1, <3>4 DEF DelInv, Live, LoopAwaits
      <4> QED
        BY <1>0, <2>1, <4>1 DEF DelInv, Onward, NoneReported, Held
    <3> QED
      BY <3>3, <3>4
  <2>5. CASE Gutted(x) /\ del.pc = "test"
    <3>1. Gutted(x)'
      BY <2>1, <2>5 DEF Gutted, Onward, HasMeta
    <3> QED
      BY <1>0, <2>1, <2>5, <3>1 DEF DelInv, Onward
  <2> QED
    BY <1>0, <2>2, <2>3, <2>4, <2>5 DEF DelInv
<1> QED
  BY <1>1, <1>2

LEMMA DelNext ==
    ASSUME Core, CancelRegistered, FileInv, [Next]_vars
    PROVE  DelInv'
<1>0. TypeInv /\ TypeOK /\ DelInv
  BY DEF Core, TypeInv, FileInv
<1>1. CASE \E r \in Runs : StartRun(r) \/ Coroutine(r) \/ Worker(r)
  <2>1. PICK r \in Runs : StartRun(r) \/ Coroutine(r) \/ Worker(r)
    BY <1>1
  <2>2. UNCHANGED del
    BY <2>1, ThreadsKept DEF apiVars
  <2> QED
    BY <2>1, <2>2, DelRun
<1>2. CASE \E r \in Runs : CancelRun(r)
  BY <1>0, <1>2
     DEF CancelRun, taskVars, diskVars, apiVars, DelInv, Held, NoneReported, Gutted, HasMeta, TypeOK
<1>3. CASE \E r \in Runs : DeleteRead(r)
  <2>1. PICK r \in Runs : DeleteRead(r)
    BY <1>3
  <2>2. Disk(r) /\ Files(r) /\ HasMeta(r)
    BY <2>1 DEF FileInv, DeleteRead, HasMeta
  <2>3. /\ del'.run = r /\ del'.seen = meta[r] /\ del'.pc # "stamp"
        /\ UNCHANGED <<pc, art>>
    BY <2>1 DEF DeleteRead, taskVars, diskVars
  <2> QED
    BY <2>2, <2>3 DEF DelInv, Disk, Files, Held, NoneReported
<1>4. CASE DeleteStale
  <2>1. /\ del.pc = "test" /\ cancel[del.run] = "none"
        /\ del'.run = del.run /\ del'.seen = del.seen /\ del'.pc = "stamp"
        /\ UNCHANGED <<pc, art, dir>>
    BY <1>0, <1>4 DEF DeleteStale, taskVars, diskVars, TypeOK
  <2>2. pc[del.run] \in Live => pc[del.run] \in {"claimed", "created"}
    BY <1>0, <2>1 DEF CancelRegistered, DelInv
  <2> QED
    BY <1>0, <2>1, <2>2 DEF DelInv, Held, NoneReported, Gutted, Fresh
<1>5. CASE DeleteRefused \/ DeleteStamp \/ DeleteRemove \/ Crash
  <2>1. del'.pc \in {"idle", "remove"}
    BY <1>0, <1>5 DEF DeleteRefused, DeleteStamp, DeleteRemove, Crash, NoDel, TypeOK
  <2> QED
    BY <2>1 DEF DelInv
<1>6. CASE PurgeList \/ ServerIdle \/ UNCHANGED vars
  BY <1>0, <1>6
     DEF PurgeList, ServerIdle, vars, taskVars, diskVars, DelInv, Held, NoneReported, Gutted,
         HasMeta
<1>7. CASE PurgeCancel
  BY <1>0, <1>7
     DEF PurgeCancel, taskVars, diskVars, DelInv, Held, NoneReported, Gutted, HasMeta, TypeOK
<1>8. CASE PurgeRemove
  <2>1. PICK x : Remove(x) /\ UNCHANGED <<pc, cancel, del>>
    BY <1>8 DEF PurgeRemove, taskVars
  <2>2. CASE x = del.run
    BY <1>0, <2>1, <2>2, Removed DEF DelInv, NoneReported
  <2>3. CASE x # del.run
    BY <1>0, <2>1, <2>3, Removed DEF DelInv, NoneReported, Held, Gutted, HasMeta
  <2> QED
    BY <2>2, <2>3
<1> QED
  BY <1>1, <1>2, <1>3, <1>4, <1>5, <1>6, <1>7, <1>8 DEF Next, DeleteThread, PurgeThread

LEMMA FilesInit == Init => FileInv
<1> SUFFICES ASSUME Init PROVE FileInv
  OBVIOUS
<1>1. \A q \in Runs : pc[q] = "unborn" /\ meta[q] = NoMeta /\ job[q] = NoJob /\ q \notin dir
                     /\ art[q] = {}
  BY DEF Init
<1>2. NoJob.carry = {} /\ NoDel.pc = "idle"
  BY DEF NoJob, NoDel
<1> QED
  BY <1>1, <1>2, NoMetaFacts DEF Init, FileInv, DelInv, Disk, Files, HasMeta, Held, Fresh, Early,
     Reported

\* Whatever is deleted, purged, carried or lost in a restart in between, a
\* module run.json reports ok or carried has its <module>.json.
THEOREM ReportsHaveArtefacts == Spec => []ReportedModulesHaveArtefacts
<1>1. Core /\ CancelRegistered /\ FileInv /\ [Next]_vars => FileInv'
  BY FilesNext, DelNext DEF FileInv, Core
<1>2. FileInv => ReportedModulesHaveArtefacts
  BY DEF FileInv, Files, Held, Reported, ReportedModulesHaveArtefacts
<1> QED
  BY <1>1, <1>2, FilesInit, CoreInit, CoreNext, LiveRunsCancellable, PTL DEF Spec

----------------------------------------------------------------------------
(* The verdict and the event log.                                           *)

\* A delete takes a run for stale only when a restart has cut it short.
StaleIsLost == del.pc = "stamp" => pc[del.run] = "lost"

\* run.json's modules as start wrote them, and the selected ones done with.
AsQueued(q) == [m \in Modules |-> IF m \in job[q].sel THEN "queued" ELSE "none"]
Done(q) == job[q].sel \ job[q].left

\* VerdictHonest, of the RunMeta mt.
Honest(q, mt) ==
    LET states == {mt.mods[m] : m \in Modules}
    IN CASE mt.status = "ok" -> /\ states \subseteq {"ok", "carried", "none"}
                                /\ \A m \in job[q].sel : mt.mods[m] = "ok"
         [] mt.status = "failed" -> "failed" \in states /\ InFlight \cap states = {}
         [] mt.status = "cancelled" -> InFlight \cap states = {}
         [] OTHER -> FALSE

\* The module loop has dealt with Done(q): each of those modules has ended, one
\* that failed counts against the run, and one is skipped only for a cancel.
NotSelected(q) == \A m \in Modules \ job[q].sel : meta[q].mods[m] \in {"carried", "none"}
Outcome(q, m) == /\ meta[q].mods[m] \in {"ok", "failed", "cancelled"}
                 /\ meta[q].mods[m] = "cancelled" => cancel[q] = "set"
                 /\ meta[q].mods[m] = "failed" => job[q].partial
Outcomes(q) == \A m \in Done(q) : Outcome(q, m)
PartialShown(q) == job[q].partial => \E m \in Done(q) : meta[q].mods[m] = "failed"

InLoop(q) == /\ job[q].left \subseteq job[q].sel
             /\ HasMeta(q) => NotSelected(q) /\ Outcomes(q) /\ PartialShown(q)

Course(q) ==
    /\ pc[q] \in Fresh \cup Early \cup {"carrying"} => job[q].partial = FALSE
    /\ pc[q] = "carrying" => job[q].left \cap job[q].sel = {} /\ job[q].carry \cap job[q].sel = {}
    /\ pc[q] = "aborted" => ~HasMeta(q)
    /\ pc[q] \in Looping => InLoop(q)
    /\ HasMeta(q) =>
         /\ pc[q] \in Early => meta[q].status = "queued"
         /\ pc[q] \in {"carrying", "settling"} \cup Looping => meta[q].status = "running"
         /\ pc[q] \in Early \cup {"carrying"} => meta[q].mods = AsQueued(q)
         /\ pc[q] = "settling" => job[q].final.mods = meta[q].mods /\ Honest(q, job[q].final)
         /\ pc[q] \in {"settled", "over"} => Honest(q, meta[q])

\* The log holds what was published, and done once the verdict was written.
Dones(q) == {i \in 1..Len(log[q]) : log[q][i].type = "done"}
Logged(q) ==
    /\ pc[q] \in Fresh \cup Early \cup {"refused"} => log[q] = <<>>
    /\ pc[q] # "lost" /\ HasMeta(q) => \A m \in Modules : Replayed(q, m) = meta[q].mods[m]
    /\ pc[q] \notin {"settled", "over", "lost"} => Dones(q) = {}
    /\ pc[q] \in {"settled", "over"} /\ HasMeta(q) =>
           Dones(q) = {Len(log[q])} /\ log[q][Len(log[q])].state = meta[q].status

CourseInv == \A q \in Runs : Course(q) /\ Logged(q)

\* What a delete is about to write back to a lost run is what it would find.
StampInv ==
    del.pc \in {"test", "stamp"} =>
        /\ del.seen.status \in InFlight
        /\ pc[del.run] = "lost" /\ del.run \in dir => meta[del.run] = del.seen

(* Replaying a log.                                                         *)

LEMMA ReplayKept ==
    ASSUME NEW q \in Runs, log'[q] = log[q], job'[q].sel = job[q].sel
    PROVE  (\A m \in Modules : Replayed(q, m)' = Replayed(q, m)) /\ Dones(q)' = Dones(q)
BY DEF Replayed, Dones

LEMMA ReplayEmpty ==
    ASSUME NEW q \in Runs, log[q] = <<>>
    PROVE  /\ \A m \in Modules : Replayed(q, m) = IF m \in job[q].sel THEN "queued" ELSE "none"
           /\ Dones(q) = {}
<1>1. 1..Len(log[q]) = {}
  OBVIOUS
<1> QED
  BY <1>1 DEF Replayed, Dones

\* One more event: a client takes the state of the modules it is about from it.
LEMMA ReplayAppend ==
    ASSUME TypeOK, NEW r \in Runs, NEW ev \in EventType, r \in dir, Publish(r, ev),
           job'[r].sel = job[r].sel
    PROVE  /\ \A m \in Modules :
                  Replayed(r, m)' = IF m \in ev.mods THEN ev.state ELSE Replayed(r, m)
           /\ Dones(r)' = IF ev.type = "done" THEN Dones(r) \cup {Len(log'[r])} ELSE Dones(r)
           /\ log'[r][Len(log'[r])] = ev
<1> DEFINE old == log[r]
           new == log'[r]
           N == Len(old)
<1>1. old \in Seq(EventType) /\ new = Append(old, ev)
  BY DEF TypeOK, Publish
<1>2. /\ N \in Nat /\ Len(new) = N + 1 /\ new[N + 1] = ev
      /\ \A i \in 1..N : new[i] = old[i]
  BY <1>1
<1>3. 1..Len(new) = (1..N) \cup {N + 1} /\ N + 1 \notin 1..N
  BY <1>2
<1> HIDE DEF old, new, N
<1>4. ASSUME NEW m \in Modules
      PROVE  Replayed(r, m)' = IF m \in ev.mods THEN ev.state ELSE Replayed(r, m)
  <2> DEFINE was == {i \in 1..N : m \in old[i].mods}
             is == {i \in 1..Len(new) : m \in new[i].mods}
  <2>0. /\ Replayed(r, m) = IF was = {} THEN IF m \in job[r].sel THEN "queued" ELSE "none"
                            ELSE old[CHOOSE i \in was : \A j \in was : j <= i].state
        /\ Replayed(r, m)' = IF is = {} THEN IF m \in job[r].sel THEN "queued" ELSE "none"
                             ELSE new[CHOOSE i \in is : \A j \in is : j <= i].state
    BY DEF Replayed, old, new, N
  <2>1. CASE m \in ev.mods
    <3>1. N + 1 \in is /\ \A j \in is : j \in Nat /\ j <= N + 1
      BY <1>2, <1>3, <2>1
    <3>2. \A i \in is : (\A j \in is : j <= i) => i = N + 1
      BY <1>2, <3>1
    <3> HIDE DEF is, was
    <3>3. (CHOOSE i \in is : \A j \in is : j <= i) = N + 1
      BY <3>1, <3>2
    <3> QED
      BY <1>2, <2>0, <2>1, <3>1, <3>3
  <2>2. CASE m \notin ev.mods
    <3>1. is = was
      BY <1>2, <1>3, <2>2
    <3>2. was # {} => (CHOOSE i \in was : \A j \in was : j <= i) \in 1..N
      <4>1. was \subseteq 1..N
        OBVIOUS
      <4> HIDE DEF was
      <4> QED
        BY <1>2, <4>1, LargestExists
    <3> HIDE DEF is, was
    <3> QED
      BY <1>2, <2>0, <2>2, <3>1, <3>2
  <2> QED
    BY <2>1, <2>2
<1>5. Dones(r)' = IF ev.type = "done" THEN Dones(r) \cup {Len(new)} ELSE Dones(r)
  <2>1. /\ Dones(r) = {i \in 1..N : old[i].type = "done"}
        /\ Dones(r)' = {i \in 1..Len(new) : new[i].type = "done"}
    BY DEF Dones, old, new, N
  <2> QED
    BY <1>2, <1>3, <2>1
<1> QED
  BY <1>2, <1>4, <1>5 DEF new

LEMMA CourseUntouched ==
    ASSUME TypeOK, NEW q \in Runs, Untouched(q), Course(q), Logged(q)
    PROVE  (Course(q) /\ Logged(q))'
<1>1. Course(q)'
  BY DEF Untouched, Course, InLoop, NotSelected, Outcomes, Outcome, PartialShown,
         Done, Honest, AsQueued, HasMeta
<1>2. Logged(q)'
  BY ReplayKept DEF Untouched, Logged, HasMeta
<1> QED
  BY <1>1, <1>2

(* What the steps of a run do to its course and its log.                    *)

LEMMA CourseStart ==
    ASSUME TypeInv, NEW r \in Runs, Disk(r), Course(r), Logged(r), StartRun(r)
    PROVE  (Course(r) /\ Logged(r))'
<1> USE DEF HasMeta, Fresh, Early, Looping, Picked
<1>0. TypeOK /\ meta \in [Runs -> MetaType] /\ job \in [Runs -> JobType] /\ pc \in [Runs -> PC]
  BY DEF TypeInv, TypeOK
<1>1. CASE \E ms \in SUBSET Modules \ {{}}, d \in Windows \cup {0} : StartClaim(r, ms, d)
  <2>1. PICK ms, d : StartClaim(r, ms, d)
    BY <1>1
  <2>2. /\ job'[r].partial = job[r].partial /\ pc[r] = "unborn" /\ pc'[r] = "claimed"
        /\ UNCHANGED <<meta, log>>
    BY <1>0, <2>1 DEF StartClaim, Goto, JobType, diskVars
  <2>3. Dones(r)' = Dones(r) /\ ~HasMeta(r)
    BY <2>2 DEF Dones, Disk
  <2> QED
    BY <2>2, <2>3 DEF Course, Logged
<1>2. CASE StartFails(r)
  <2>1. /\ pc[r] = "claimed" /\ pc'[r] = "refused" /\ UNCHANGED <<meta, log, job>> /\ ~HasMeta(r)
    BY <1>0, <1>2 DEF StartFails, Goto, Disk
  <2> QED
    BY <2>1, ReplayKept DEF Course, Logged
<1>3. CASE StartCreate(r)
  <2>1. /\ pc[r] = "claimed" /\ pc'[r] = "created" /\ UNCHANGED <<log, job>>
        /\ meta'[r] = MemMeta(r, "queued") /\ job[r].carry = {} /\ log[r] = <<>>
    BY <1>0, <1>3 DEF StartCreate, Goto, Disk, Logged
  <2>2. meta'[r].status = "queued" /\ meta'[r].mods = AsQueued(r)
    BY <2>1 DEF MemMeta, AsQueued
  <2>3. AsQueued(r)' = AsQueued(r)
    BY <2>1 DEF AsQueued
  <2>4. \A m \in Modules : Replayed(r, m)' = meta'[r].mods[m]
    BY <2>1, <2>2, ReplayEmpty, ReplayKept DEF AsQueued
  <2> QED
    BY <2>1, <2>2, <2>3, <2>4, ReplayKept DEF Course, Logged
<1>4. CASE StartSchedule(r)
  <2>1. /\ pc[r] = "created" /\ pc'[r] = "scheduled" /\ UNCHANGED <<log, job, meta>>
    BY <1>0, <1>4 DEF StartSchedule, Goto, diskVars
  <2> QED
    BY <2>1, ReplayKept DEF Course, Logged, AsQueued
<1> QED
  BY <1>1, <1>2, <1>3, <1>4 DEF StartRun

LEMMA CourseWorker ==
    ASSUME TypeInv, NEW r \in Runs, Course(r), Logged(r), Worker(r)
    PROVE  (Course(r) /\ Logged(r))'
<1>1. /\ pc[r] \in {"working", "wrote"} /\ pc'[r] \in {"wrote", "returned", "raised"}
      /\ UNCHANGED <<log, job, meta, cancel>>
  BY DEF TypeInv, TypeOK, Worker, WorkerWrites, WorkerReturns, WorkerRaises, Goto, diskVars
<1> QED
  BY <1>1, ReplayKept
    DEF Course, Logged, HasMeta, InLoop, NotSelected, Outcomes, Outcome,
        PartialShown, Done, Fresh, Early, Looping, Picked

LEMMA CourseCarry ==
    ASSUME TypeInv, NEW r \in Runs, Disk(r), Course(r), Logged(r),
           RunEnter(r) \/ RunBegin(r) \/ CarryModule(r) \/ CarryEnd(r)
    PROVE  (Course(r) /\ Logged(r))'
<1> USE DEF HasMeta, Fresh, Early, Looping, Picked
<1>0. TypeOK /\ meta \in [Runs -> MetaType] /\ job \in [Runs -> JobType] /\ pc \in [Runs -> PC]
  BY DEF TypeInv, TypeOK
<1>1. CASE RunEnter(r)
  <2>1. /\ pc[r] = "scheduled" /\ pc'[r] = "entered" /\ UNCHANGED <<log, meta>>
        /\ job'[r].partial = job[r].partial /\ job'[r].sel = job[r].sel
    BY <1>0, <1>1 DEF RunEnter, Goto, JobType, diskVars
  <2> QED
    BY <2>1, ReplayKept DEF Course, Logged, AsQueued
<1>2. CASE RunBegin(r)
  <2>1. /\ pc[r] = "entered" /\ pc'[r] = "carrying" /\ r \in dir /\ job[r].carry = {}
        /\ job'[r].partial = job[r].partial /\ job'[r].sel = job[r].sel
        /\ job'[r].left = Modules \ job[r].sel /\ job'[r].carry = job[r].carry
        /\ meta'[r] = MemMeta(r, "running") /\ HasMeta(r)
        /\ Publish(r, Event("run_started", {}, "running"))
    BY <1>0, <1>2 DEF RunBegin, Goto, JobType, Disk
  <2>2. meta'[r].status = "running" /\ meta'[r].mods = AsQueued(r)
    BY <2>1 DEF MemMeta, AsQueued
  <2>3. AsQueued(r)' = AsQueued(r)
    BY <2>1 DEF AsQueued
  <2>4. (\A m \in Modules : Replayed(r, m)' = Replayed(r, m)) /\ Dones(r)' = Dones(r)
    BY <1>0, <2>1, EventTypes, ReplayAppend DEF Event
  <2>5. Course(r)'
    BY <2>1, <2>2, <2>3 DEF Course
  <2>6. Logged(r)'
    BY <2>1, <2>2, <2>4 DEF Course, Logged
  <2> QED
    BY <2>5, <2>6
<1>3. CASE CarryModule(r)
  <2> DEFINE m == First(job[r].left)
  <2>1. m \in job[r].left /\ m \in Modules
    BY <1>0, <1>3, FirstInSet DEF CarryModule, JobType
  <2> HIDE DEF m
  <2>2. /\ pc[r] = "carrying" /\ pc'[r] = "carrying" /\ UNCHANGED <<log, meta>>
        /\ job'[r].partial = job[r].partial /\ job'[r].sel = job[r].sel
        /\ job'[r].left = job[r].left \ {m}
        /\ job'[r].carry = job[r].carry \/ job'[r].carry = job[r].carry \cup {m}
    <3>1. CASE CopyArtefact(r, m)
      BY <1>0, <1>3, <3>1 DEF CarryModule, CopyArtefact, JobType
    <3>2. CASE job' = [job EXCEPT ![r].left = @ \ {m}]
      BY <1>0, <1>3, <3>2 DEF CarryModule, JobType
    <3> QED
      BY <1>3, <3>1, <3>2 DEF CarryModule, m
  <2> QED
    BY <2>1, <2>2, ReplayKept DEF Course, Logged, AsQueued
<1>4. CASE CarryEnd(r)
  <2>1. /\ pc[r] = "carrying" /\ pc'[r] = "choosing"
        /\ job'[r].partial = FALSE /\ job'[r].sel = job[r].sel /\ job'[r].left = job[r].sel
        /\ job[r].carry \cap job[r].sel = {} /\ job[r].carry \in SUBSET Modules
        /\ HasMeta(r) => meta[r].status = "running" /\ meta[r].mods = AsQueued(r)
    BY <1>0, <1>4 DEF CarryEnd, Goto, JobType, Course
  <2>2. CASE job[r].carry = {}
    <3>1. meta'[r] = meta[r] /\ log'[r] = log[r]
      BY <1>4, <2>2 DEF CarryEnd
    <3>2. Course(r)'
      BY <2>1, <3>1 DEF Course, InLoop, NotSelected, Outcomes, Outcome, PartialShown, Done, AsQueued
    <3> QED
      BY <2>1, <3>1, <3>2, ReplayKept DEF Logged
  <2>3. CASE job[r].carry # {}
    <3>1. /\ meta'[r] = MemMeta(r, "running") /\ r \in dir /\ HasMeta(r)
          /\ Publish(r, Event("modules_carried", job[r].carry, "carried"))
      BY <1>0, <1>4, <2>1, <2>3 DEF CarryEnd, AnnounceCarry, Disk
    <3>2. /\ \A m \in Modules : Replayed(r, m)' = IF m \in job[r].carry THEN "carried"
                                                ELSE Replayed(r, m)
          /\ Dones(r)' = Dones(r)
      BY <1>0, <2>1, <3>1, EventTypes, ReplayAppend DEF Event
    <3>3. Course(r)'
      BY <2>1, <3>1, MemMetaFacts
         DEF Course, InLoop, NotSelected, Outcomes, Outcome, PartialShown, Done
    <3>4. \A m \in Modules : Replayed(r, m) = IF m \in job[r].sel THEN "queued" ELSE "none"
      BY <2>1, <3>1 DEF Logged, AsQueued
    <3>5. \A m \in Modules : Replayed(r, m)' = meta'[r].mods[m]
      BY <2>1, <3>1, <3>2, <3>4, MemMetaFacts
    <3> QED
      BY <2>1, <3>2, <3>3, <3>5 DEF Logged
  <2> QED
    BY <2>2, <2>3
<1> QED
  BY <1>1, <1>2, <1>3, <1>4

LEMMA CourseLoop ==
    ASSUME TypeInv, NEW r \in Runs, Disk(r), Course(r), Logged(r),
           \/ ModuleCancelled(r) \/ ModuleChosen(r) \/ ModuleStart(r)
           \/ ModuleOk(r) \/ ModuleFails(r)
    PROVE  (Course(r) /\ Logged(r))'
<1> DEFINE m == First(job[r].left)
<1> USE DEF HasMeta, Fresh, Early, Looping, Picked
<1>0. /\ TypeOK /\ LeftInv /\ meta \in [Runs -> MetaType] /\ job \in [Runs -> JobType]
      /\ pc \in [Runs -> PC]
  BY DEF TypeInv, TypeOK
<1>1. CASE ModuleChosen(r)
  <2>1. pc[r] = "choosing" /\ pc'[r] = "starting" /\ UNCHANGED <<job, cancel, meta, log>>
    BY <1>0, <1>1 DEF ModuleChosen, Goto, diskVars
  <2> QED
    BY <2>1, ReplayKept
       DEF Course, Logged, InLoop, NotSelected, Outcomes, Outcome, PartialShown,
           Done
<1>2. ASSUME ~ ModuleChosen(r)
      PROVE  job[r].left # {} /\ pc[r] \in Looping /\ HasMeta(r)
  BY <1>0, <1>2
     DEF ModuleCancelled, ModuleStart, ModuleOk, ModuleFails, ModuleEnd, LeftInv
<1>3. ASSUME ~ ModuleChosen(r)
      PROVE  /\ m \in job[r].left /\ m \in Modules /\ r \in dir
             /\ job[r].left \subseteq job[r].sel /\ job[r].sel \subseteq Modules
             /\ meta[r].status = "running" /\ InLoop(r)
  BY <1>0, <1>2, <1>3, FirstInSet DEF JobType, Disk, Course, InLoop
<1> HIDE DEF m
<1>4. ASSUME NEW st, NEW ev \in EventType,
             ~ ModuleChosen(r), pc'[r] \in Looping, UpdateModule(r, First(job[r].left), st),
             Publish(r, ev), ev.mods = {m}, ev.state = st, ev.type # "done",
             job'[r].sel = job[r].sel
      PROVE  /\ meta'[r].status = meta[r].status /\ meta'[r].mods[m] = st
             /\ \A n \in Modules \ {m} : meta'[r].mods[n] = meta[r].mods[n]
             /\ Logged(r)'
  <2>1. /\ meta'[r].status = meta[r].status /\ meta'[r].mods[m] = st
        /\ \A n \in Modules \ {m} : meta'[r].mods[n] = meta[r].mods[n]
    BY <1>0, <1>2, <1>4, CurrentUpdated DEF OthersKept, m
  <2>2. /\ \A n \in Modules : Replayed(r, n)' = IF n = m THEN st ELSE Replayed(r, n)
        /\ Dones(r)' = Dones(r)
    BY <1>0, <1>3, <1>4, ReplayAppend
  <2>3. \A n \in Modules : Replayed(r, n) = meta[r].mods[n]
    BY <1>2, <1>4 DEF Logged
  <2>4. \A n \in Modules : Replayed(r, n)' = meta'[r].mods[n]
    BY <2>1, <2>2, <2>3
  <2> QED
    BY <1>2, <1>4, <2>1, <2>2, <2>4 DEF Logged
<1>5. CASE ModuleStart(r)
  <2>1. /\ ~ ModuleChosen(r) /\ pc[r] = "starting" /\ pc'[r] = "working"
        /\ UNCHANGED <<job, cancel>>
        /\ UpdateModule(r, First(job[r].left), "running")
        /\ Publish(r, Event("module_started", {m}, "running"))
    BY <1>0, <1>5 DEF ModuleStart, ModuleChosen, Goto, m
  <2>2. Event("module_started", {m}, "running") \in EventType
    BY <1>3, <2>1, EventTypes
  <2>3. /\ meta'[r].status = meta[r].status /\ meta'[r].mods[m] = "running"
        /\ \A n \in Modules \ {m} : meta'[r].mods[n] = meta[r].mods[n]
        /\ Logged(r)'
    BY <1>4, <2>1, <2>2 DEF Event
  <2> QED
    BY <1>2, <1>3, <2>1, <2>3 DEF Course, InLoop, NotSelected, Outcomes, Outcome, PartialShown, Done
<1>6. ASSUME NEW st \in {"ok", "failed", "cancelled"},
             ~ ModuleChosen(r), pc'[r] = "choosing", UpdateModule(r, First(job[r].left), st),
             Publish(r, Event("module_finished", {m}, st)), UNCHANGED cancel,
             st = "cancelled" => cancel[r] = "set",
             job'[r].sel = job[r].sel, job'[r].left = job[r].left \ {m},
             job'[r].partial = (job[r].partial \/ st = "failed")
      PROVE  (Course(r) /\ Logged(r))'
  <2>1. Event("module_finished", {m}, st) \in EventType
    BY <1>3, <1>6, EventTypes DEF ModuleState
  <2>2. /\ meta'[r].status = meta[r].status /\ meta'[r].mods[m] = st
        /\ \A n \in Modules \ {m} : meta'[r].mods[n] = meta[r].mods[n]
        /\ Logged(r)'
    BY <1>4, <1>6, <2>1 DEF Event
  <2>3. Done(r)' = Done(r) \cup {m}
    BY <1>3, <1>6 DEF Done
  <2>4. /\ Done(r) \subseteq Modules \ {m}
        /\ \A n \in Modules \ job[r].sel : meta'[r].mods[n] \in {"carried", "none"}
    BY <1>2, <1>3, <1>6, <2>2 DEF InLoop, NotSelected, Outcomes, Outcome, PartialShown, Done
  <2>5. job'[r].partial <=> job[r].partial \/ st = "failed"
    BY <1>6
  <2>6. ASSUME NEW n \in Done(r)' PROVE Outcome(r, n)'
    <3>1. CASE n = m
      BY <1>6, <2>2, <2>5, <3>1 DEF Outcome
    <3>2. CASE n # m
      <4>1. n \in Done(r) /\ Outcome(r, n)
        BY <1>2, <1>3, <1>6, <2>3, <2>6, <3>2 DEF InLoop, Outcomes
      <4>2. meta'[r].mods[n] = meta[r].mods[n]
        BY <2>2, <2>4, <4>1
      <4> QED
        BY <1>6, <2>5, <4>1, <4>2 DEF Outcome
    <3> QED
      BY <3>1, <3>2
  <2>7. ASSUME job'[r].partial
        PROVE  \E n \in Done(r)' : meta'[r].mods[n] = "failed"
    <3>1. CASE st = "failed"
      BY <2>2, <2>3, <3>1
    <3>2. CASE st # "failed"
      <4>1. PICK n \in Done(r) : meta[r].mods[n] = "failed"
        BY <1>2, <1>3, <1>6, <2>5, <2>7, <3>2 DEF InLoop, PartialShown
      <4> QED
        BY <2>2, <2>3, <2>4, <4>1
    <3> QED
      BY <3>1, <3>2
  <2>8. InLoop(r)'
    <3>1. (job[r].left \subseteq job[r].sel)'
      BY <1>3, <1>6
    <3>2. NotSelected(r)'
      BY <1>6, <2>4 DEF NotSelected
    <3>3. Outcomes(r)'
      BY <2>6 DEF Outcomes
    <3>4. PartialShown(r)'
      BY <2>7 DEF PartialShown
    <3> QED
      BY <3>1, <3>2, <3>3, <3>4 DEF InLoop
  <2> QED
    BY <1>3, <1>6, <2>2, <2>8 DEF Course
<1>7. CASE ModuleCancelled(r)
  <2>1. /\ ~ ModuleChosen(r) /\ pc'[r] = "choosing" /\ UNCHANGED cancel /\ cancel[r] = "set"
        /\ UpdateModule(r, First(job[r].left), "cancelled")
        /\ Publish(r, Event("module_finished", {m}, "cancelled"))
    BY <1>0, <1>7 DEF ModuleCancelled, ModuleChosen, m
  <2>2. /\ job'[r].sel = job[r].sel /\ job'[r].left = job[r].left \ {m}
        /\ job'[r].partial = job[r].partial
    BY <1>0, <1>7 DEF ModuleCancelled, JobType, m
  <2> QED
    BY <1>0, <1>6, <2>1, <2>2 DEF JobType
<1>8. CASE ModuleOk(r) \/ ModuleFails(r)
  <2>1. PICK st \in {"ok", "failed"}, from \in {"returned", "raised"} : ModuleEnd(r, from, st)
    BY <1>8 DEF ModuleOk, ModuleFails
  <2>2. /\ ~ ModuleChosen(r) /\ pc'[r] = "choosing" /\ UNCHANGED cancel
        /\ UpdateModule(r, First(job[r].left), st)
        /\ Publish(r, Event("module_finished", {m}, st))
    BY <1>0, <2>1 DEF ModuleEnd, ModuleChosen, Goto, m
  <2>3. /\ job'[r].sel = job[r].sel /\ job'[r].left = job[r].left \ {m}
        /\ job'[r].partial = (job[r].partial \/ st = "failed")
    BY <1>0, <2>1 DEF ModuleEnd, Partial, JobType, m
  <2> QED
    BY <1>6, <2>1, <2>2, <2>3
<1> QED
  BY <1>1, <1>5, <1>7, <1>8

\* The verdict chosen after the last module is the truth about the modules.
LEMMA VerdictTrue ==
    ASSUME TypeOK, NEW r \in Runs, job[r].left = {}, HasMeta(r), InLoop(r),
           NEW mt, mt.status = Verdict(r), mt.mods = meta[r].mods
    PROVE  Honest(r, mt)
<1> DEFINE states == {mt.mods[m] : m \in Modules}
<1>1. /\ Done(r) = job[r].sel /\ job[r].sel \subseteq Modules /\ job[r].partial \in BOOLEAN
      /\ \A m \in Modules \ job[r].sel : mt.mods[m] \in {"carried", "none"}
      /\ \A m \in job[r].sel : mt.mods[m] = meta[r].mods[m] /\ Outcome(r, m)
  BY DEF TypeOK, JobType, InLoop, NotSelected, Outcomes, Done
<1>2. \A m \in Modules : mt.mods[m] \in {"carried", "none", "ok", "failed", "cancelled"}
  BY <1>1 DEF Outcome
<1>3. InFlight \cap states = {}
  BY <1>2 DEF InFlight
<1>4. CASE cancel[r] = "set"
  BY <1>3, <1>4 DEF Verdict, Honest
<1>5. CASE cancel[r] # "set" /\ job[r].partial
  <2>1. "failed" \in states
    BY <1>1, <1>5 DEF InLoop, PartialShown
  <2> QED
    BY <1>3, <1>5, <2>1 DEF Verdict, Honest
<1>6. CASE cancel[r] # "set" /\ ~job[r].partial
  <2>1. \A m \in job[r].sel : mt.mods[m] = "ok"
    BY <1>1, <1>6 DEF Outcome
  <2>2. states \subseteq {"ok", "carried", "none"}
    BY <1>1, <2>1
  <2> QED
    BY <1>6, <2>1, <2>2 DEF Verdict, Honest
<1> QED
  BY <1>4, <1>5, <1>6

LEMMA CourseEnd ==
    ASSUME TypeInv, NEW r \in Runs, Disk(r), Course(r), Logged(r),
           RunDecide(r) \/ RunSettle(r) \/ RunRelease(r) \/ RunAborts(r)
    PROVE  (Course(r) /\ Logged(r))'
<1> USE DEF HasMeta, Fresh, Early, Looping, Picked
<1>0. TypeOK /\ meta \in [Runs -> MetaType] /\ job \in [Runs -> JobType] /\ pc \in [Runs -> PC]
  BY DEF TypeInv, TypeOK
<1>1. CASE RunDecide(r)
  <2>1. /\ pc[r] = "choosing" /\ pc'[r] = "settling" /\ job[r].left = {} /\ UNCHANGED <<meta, log>>
    BY <1>0, <1>1 DEF RunDecide, Goto, diskVars
  <2>2. PICK read : /\ read = IF meta[r].status = "none" THEN MemMeta(r, "running") ELSE meta[r]
                    /\ job' = [job EXCEPT ![r].final = [read EXCEPT !.status = Verdict(r)]]
    BY <1>1 DEF RunDecide
  <2>3. read \in MetaType
    BY <1>0, <2>2, MemMetaType DEF RunState
  <2>4. /\ job'[r].final.status = Verdict(r) /\ job'[r].final.mods = read.mods
        /\ job'[r].sel = job[r].sel
    BY <1>0, <2>2, <2>3 DEF JobType, MetaType
  <2>5. HasMeta(r) => meta[r].status = "running" /\ read = meta[r] /\ Honest(r, job'[r].final)
    BY <1>0, <2>1, <2>2, <2>4, VerdictTrue DEF Course
  <2>6. HasMeta(r) => Honest(r, job[r].final)'
    BY <2>4, <2>5 DEF Honest
  <2>7. Course(r)'
    BY <2>1, <2>4, <2>5, <2>6 DEF Course
  <2>8. (\A m \in Modules : Replayed(r, m)' = Replayed(r, m)) /\ Dones(r)' = Dones(r)
    BY <2>1, <2>4, ReplayKept
  <2>9. Logged(r)'
    BY <2>1, <2>8 DEF Logged
  <2> QED
    BY <2>7, <2>9
<1>2. CASE RunSettle(r)
  <2>1. /\ pc[r] = "settling" /\ pc'[r] = "settled" /\ r \in dir /\ HasMeta(r) /\ UNCHANGED job
        /\ meta'[r] = job[r].final /\ job[r].final \in MetaType
        /\ Publish(r, Event("done", {}, job[r].final.status))
    BY <1>0, <1>2 DEF RunSettle, Goto, Disk, JobType
  <2>2. job[r].final.mods = meta[r].mods /\ Honest(r, job[r].final)
    BY <2>1 DEF Course
  <2>3. /\ \A m \in Modules : Replayed(r, m)' = Replayed(r, m)
        /\ Dones(r)' = Dones(r) \cup {Len(log'[r])}
        /\ log'[r][Len(log'[r])].state = job[r].final.status
    BY <1>0, <2>1, EventTypes, ReplayAppend DEF Event, MetaType
  <2>4. Honest(r, meta[r])'
    BY <2>1, <2>2 DEF Honest
  <2>5. Course(r)'
    BY <2>1, <2>4 DEF Course
  <2> QED
    BY <2>1, <2>2, <2>3, <2>5 DEF Logged
<1>3. CASE RunRelease(r)
  <2>1. pc[r] = "settled" /\ pc'[r] = "over" /\ UNCHANGED <<job, meta, log>>
    BY <1>0, <1>3 DEF RunRelease, Goto, diskVars
  <2>2. Honest(r, meta[r])' <=> Honest(r, meta[r])
    BY <2>1 DEF Honest
  <2>3. Course(r)'
    BY <2>1, <2>2 DEF Course
  <2>4. (\A m \in Modules : Replayed(r, m)' = Replayed(r, m)) /\ Dones(r)' = Dones(r)
    BY <2>1, ReplayKept
  <2>5. Logged(r)'
    BY <2>1, <2>4 DEF Logged
  <2> QED
    BY <2>3, <2>5
<1>4. CASE RunAborts(r)
  <2>1. /\ pc[r] \notin {"settled", "over", "lost", "aborted"} /\ pc'[r] = "aborted"
        /\ ~HasMeta(r) /\ UNCHANGED <<job, meta, log>>
    BY <1>0, <1>4 DEF RunAborts, WriteRaises, Abort, Goto, diskVars, Disk
  <2>2. Course(r)'
    BY <2>1 DEF Course
  <2>3. Dones(r)' = Dones(r)
    BY <2>1, ReplayKept
  <2>4. Logged(r)'
    BY <2>1, <2>3 DEF Logged
  <2> QED
    BY <2>2, <2>4
<1> QED
  BY <1>1, <1>2, <1>3, <1>4

LEMMA CourseRun ==
    ASSUME TypeInv, NEW r \in Runs, Disk(r), Course(r), Logged(r),
           StartRun(r) \/ Coroutine(r) \/ Worker(r)
    PROVE  (Course(r) /\ Logged(r))'
BY CourseStart, CourseCarry, CourseLoop, CourseEnd, CourseWorker DEF Coroutine

LEMMA CourseRemoved ==
    ASSUME TypeOK, NEW x, Remove(x), UNCHANGED <<pc, job, cancel>>,
           NEW q \in Runs, Course(q), Logged(q)
    PROVE  (Course(q) /\ Logged(q))'
<1>1. CASE q = x
  <2>1. ~HasMeta(q)' /\ log'[q] = <<>>
    BY <1>1, Removed, NoMetaFacts DEF HasMeta
  <2>2. Dones(q)' = {}
    BY <2>1 DEF Dones
  <2> QED
    BY <2>1, <2>2 DEF Course, Logged, InLoop
<1>2. CASE q # x
  <2>1. Untouched(q)
    BY <1>2, Removed DEF Untouched
  <2> QED
    BY <2>1, CourseUntouched
<1> QED
  BY <1>1, <1>2

LEMMA CourseNext ==
    ASSUME TypeInv, FileInv, StaleIsLost, [Next]_vars,
           NEW q \in Runs, Course(q), Logged(q)
    PROVE  (Course(q) /\ Logged(q))'
<1>0. TypeOK /\ Disk(q)
  BY DEF TypeInv, FileInv
<1>1. CASE \E r \in Runs : StartRun(r) \/ Coroutine(r) \/ Worker(r)
  BY <1>0, <1>1, CourseRun, OthersUntouched, CourseUntouched
<1>2. CASE \A x \in Runs : Untouched(x)
  BY <1>0, <1>2, CourseUntouched
<1>3. CASE DeleteStamp
  <2>1. CASE q = del.run
    <3>1. pc[q] = "lost" /\ pc'[q] = "lost" /\ UNCHANGED <<job, log>>
      BY <1>3, <2>1 DEF DeleteStamp, StaleIsLost, taskVars
    <3> QED
      BY <3>1 DEF Course, Logged, Fresh, Early, Looping, Picked
  <2>2. CASE q # del.run
    <3>1. Untouched(q)
      BY <1>0, <1>3, <2>2 DEF DeleteStamp, Untouched, taskVars, TypeOK
    <3> QED
      BY <1>0, <3>1, CourseUntouched
  <2> QED
    BY <2>1, <2>2
<1>4. CASE \E x : Remove(x) /\ UNCHANGED <<pc, job, cancel>>
  BY <1>0, <1>4, CourseRemoved
<1>5. CASE Crash
  <2>1. /\ UNCHANGED <<job, meta, log>>
        /\ \/ pc'[q] = "refused" /\ pc[q] = "claimed"
           \/ pc'[q] = "lost"
           \/ pc'[q] = pc[q] /\ pc[q] \in {"unborn"} \cup Ended
    BY <1>0, <1>5 DEF Crash, diskVars, TypeOK, PC
  <2>2. /\ (\A m \in Modules : Replayed(q, m)' = Replayed(q, m)) /\ Dones(q)' = Dones(q)
        /\ Honest(q, meta[q])' <=> Honest(q, meta[q])
    BY <2>1, ReplayKept DEF Honest
  <2>3. CASE pc'[q] = pc[q]
    <3>1. Course(q)'
      BY <2>1, <2>2, <2>3 DEF Course, Fresh, Early, Looping, Picked, HasMeta, Ended
    <3> QED
      BY <2>1, <2>2, <2>3, <3>1 DEF Logged, HasMeta
  <2>4. CASE pc'[q] \in {"refused", "lost"} /\ pc'[q] # pc[q]
    <3>1. pc'[q] = "refused" => pc[q] = "claimed" /\ ~HasMeta(q) /\ log[q] = <<>>
      BY <1>0, <2>1, <2>4 DEF Disk, Logged, Fresh, HasMeta
    <3>2. Course(q)'
      BY <2>1, <2>4, <3>1 DEF Course, Fresh, Early, Looping, Picked, HasMeta
    <3> QED
      BY <2>1, <2>2, <2>4, <3>1, <3>2 DEF Logged, Fresh, Early, HasMeta
  <2> QED
    BY <2>1, <2>3, <2>4
<1> QED
  BY <1>0, <1>1, <1>2, <1>3, <1>4, <1>5, NextCases

LEMMA CourseInit == Init => CourseInv
<1> SUFFICES ASSUME Init, NEW q \in Runs PROVE Course(q) /\ Logged(q)
  BY DEF CourseInv
<1>1. pc[q] = "unborn" /\ ~HasMeta(q) /\ log[q] = <<>> /\ job[q].partial = FALSE
  BY NoMetaFacts DEF Init, HasMeta, NoJob
<1> QED
  BY <1>1, ReplayEmpty DEF Course, Logged, Fresh, Early, Looping, Picked

LEMMA CourseAlways == Spec /\ []StaleIsLost => [](Core /\ FileInv /\ CourseInv)
<1>1. Core /\ CancelRegistered /\ FileInv /\ [Next]_vars => FileInv'
  BY FilesNext, DelNext DEF FileInv, Core
<1>2. Core /\ FileInv /\ CourseInv /\ StaleIsLost /\ [Next]_vars => CourseInv'
  BY CourseNext DEF CourseInv, Core
<1> QED
  BY <1>1, <1>2, FilesInit, CourseInit, CoreInit, CoreNext, LiveRunsCancellable, PTL DEF Spec

\* The verdict of a settled run is the truth about its modules, however the
\* run was cancelled, carried, purged and restarted around.
THEOREM VerdictsHonest == Spec /\ []StaleIsLost => []ReportTrue
<1>1. CourseInv => VerdictHonest
  <2> SUFFICES ASSUME CourseInv, NEW r \in Runs, pc[r] = "over", HasMeta(r)
               PROVE  Honest(r, meta[r])
    BY DEF VerdictHonest, Honest, HasMeta
  <2> QED
    BY DEF CourseInv, Course
<1> QED
  BY <1>1, CourseAlways, ReportsHaveArtefacts, PTL DEF ReportTrue

\* A client that replays a run's events sees what a client that reads run.json
\* sees.
THEOREM EventsReplay == Spec /\ []StaleIsLost => []ReplayAgrees
<1>1. CourseInv => ReplayAgrees
  <2> SUFFICES ASSUME CourseInv, NEW r \in Runs, pc[r] \in LoopAwaits \cup {"over"}, HasMeta(r)
               PROVE  /\ \A m \in Modules : Replayed(r, m) = meta[r].mods[m]
                      /\ IF pc[r] = "over"
                         THEN /\ Dones(r) = {Len(log[r])}
                              /\ log[r][Len(log[r])].state = meta[r].status
                         ELSE Dones(r) = {}
    BY DEF ReplayAgrees, HasMeta, Dones
  <2> QED
    BY DEF CourseInv, Logged, LoopAwaits
<1> QED
  BY <1>1, CourseAlways, PTL

\* Without the delete endpoint nothing is taken for stale.
LEMMA NoDeletes == ASSUME MaxDeletes = 0 PROVE Spec => []StaleIsLost
<1> DEFINE Quiet == del.pc = "idle"
<1>1. Init => Quiet
  BY DEF Init, NoDel
<1>2. TypeInv /\ Quiet /\ [Next]_vars => Quiet'
  <2> SUFFICES ASSUME TypeInv, Quiet, [Next]_vars PROVE Quiet'
    OBVIOUS
  <2>1. CASE \E r \in Runs : StartRun(r) \/ Coroutine(r) \/ Worker(r)
    BY <2>1, ThreadsKept DEF apiVars
  <2>2. ASSUME NEW r \in Runs PROVE ~ DeleteRead(r)
    BY DEF DeleteRead, TypeInv, TypeOK
  <2>3. CASE Crash
    BY <2>3 DEF Crash, NoDel
  <2>4. CASE \/ \E r \in Runs : CancelRun(r)
            \/ DeleteThread \/ PurgeList \/ PurgeThread \/ ServerIdle \/ UNCHANGED vars
    BY <2>4 DEF CancelRun, DeleteThread, DeleteRefused, DeleteStale, DeleteStamp, DeleteRemove,
                PurgeList, PurgeThread, PurgeCancel, PurgeRemove, ServerIdle, vars, apiVars
  <2> QED
    BY <2>1, <2>2, <2>3, <2>4 DEF Next
<1>3. Quiet => StaleIsLost
  BY DEF StaleIsLost
<1> QED
  BY <1>1, <1>2, <1>3, TypeInit, TypeNext, PTL DEF Spec

----------------------------------------------------------------------------
(* The refinement of RunBoard.                                              *)

LEMMA LostStays ==
    ASSUME TypeInv, NEW r \in Runs, StartRun(r) \/ Coroutine(r) \/ Worker(r)
    PROVE  pc[r] # "lost" /\ pc'[r] # "lost"
<1>0. pc \in [Runs -> PC]
  BY DEF TypeInv, TypeOK
<1>1. CASE StartRun(r) \/ Worker(r)
  BY <1>0, <1>1
     DEF StartRun, StartClaim, StartFails, StartCreate, StartSchedule, Worker, WorkerWrites,
         WorkerReturns, WorkerRaises, Goto
<1>2. CASE RunEnter(r) \/ RunBegin(r) \/ CarryModule(r) \/ CarryEnd(r) \/ ModuleCancelled(r)
          \/ ModuleChosen(r) \/ ModuleStart(r)
  BY <1>0, <1>2
     DEF RunEnter, RunBegin, CarryModule, CarryEnd, ModuleCancelled, ModuleChosen, ModuleStart,
         Goto
<1>3. CASE ModuleOk(r) \/ ModuleFails(r) \/ RunDecide(r) \/ RunSettle(r) \/ RunRelease(r)
          \/ RunAborts(r)
  BY <1>0, <1>3
     DEF ModuleOk, ModuleFails, ModuleEnd, RunDecide, RunSettle, RunRelease, RunAborts,
         WriteRaises, Abort, Goto
<1> QED
  BY <1>1, <1>2, <1>3 DEF Coroutine

LEMMA StampNext ==
    ASSUME TypeInv, DelInv, StampInv, [Next]_vars
    PROVE  StampInv'
<1>0. TypeOK
  BY DEF TypeInv
<1>1. CASE \E r \in Runs : StartRun(r) \/ Coroutine(r) \/ Worker(r)
  <2>1. PICK r \in Runs : StartRun(r) \/ Coroutine(r) \/ Worker(r)
    BY <1>1
  <2>2. UNCHANGED del /\ pc[r] # "lost" /\ pc'[r] # "lost"
    BY <2>1, ThreadsKept, LostStays DEF apiVars
  <2>3. \A q \in Runs \ {r} : Untouched(q)
    BY <2>1, OthersUntouched
  <2> QED
    BY <2>2, <2>3 DEF StampInv, DelInv, Untouched
<1>2. CASE \E r \in Runs : DeleteRead(r)
  BY <1>0, <1>2 DEF DeleteRead, StampInv, taskVars, diskVars
<1>3. CASE DeleteStale
  BY <1>0, <1>3 DEF DeleteStale, StampInv, taskVars, diskVars, TypeOK
<1>4. CASE DeleteRefused \/ DeleteStamp \/ DeleteRemove \/ Crash
  <2>1. del'.pc \in {"idle", "remove"}
    BY <1>0, <1>4 DEF DeleteRefused, DeleteStamp, DeleteRemove, Crash, NoDel, TypeOK
  <2> QED
    BY <2>1 DEF StampInv
<1>5. CASE PurgeRemove
  <2>1. PICK x : Remove(x) /\ UNCHANGED <<pc, del>>
    BY <1>5 DEF PurgeRemove, taskVars
  <2> QED
    BY <1>0, <2>1, Removed DEF StampInv, DelInv
<1>6. CASE PurgeList \/ PurgeCancel \/ ServerIdle \/ UNCHANGED vars \/ \E r \in Runs : CancelRun(r)
  BY <1>6 DEF PurgeList, PurgeCancel, ServerIdle, CancelRun, vars, taskVars, diskVars, apiVars,
              StampInv
<1> QED
  BY <1>1, <1>2, <1>3, <1>4, <1>5, <1>6 DEF Next, DeleteThread, PurgeThread

\* The two variables of the board, as MCJobRunner maps them.
Owner == IF LiveRuns = {} THEN NoRun ELSE CHOOSE r \in LiveRuns : TRUE
Shown(q) == IF meta[q].status # "none" THEN meta[q].status
            ELSE IF pc[q] \in {"unborn", "claimed", "refused"} THEN "new"
            ELSE "gone"
ShownRuns == [q \in Runs |-> Shown(q)]

\* The owner of the slot is the one run on its way.
OwnerIsLive == /\ \A r \in Runs : pc[r] \in Live => Owner = r
               /\ (\A r \in Runs : pc[r] \notin Live) => Owner = 0

LEMMA OwnerFacts ==
    ASSUME SingleFlight, SingleFlight'
    PROVE  OwnerIsLive /\ OwnerIsLive'
<1>1. OwnerIsLive
  BY DEF OwnerIsLive, SingleFlight, Owner, LiveRuns, NoRun
<1>2. OwnerIsLive'
  BY DEF OwnerIsLive, SingleFlight, Owner, LiveRuns, NoRun
<1> QED
  BY <1>1, <1>2

\* The steps of the board, of those two.
LEMMA BoardSteps ==
    ASSUME NEW r \in Runs, NEW st,
           \A q \in Runs : Shown(q)' = IF q = r THEN st ELSE Shown(q),
           \/ Owner = 0 /\ Shown(r) = "new" /\ Owner' = r /\ st = Shown(r)
           \/ Owner = r /\ Shown(r) = "new" /\ Owner' = r /\ st = "queued"
           \/ Owner = r /\ Shown(r) = "queued" /\ Owner' = r /\ st = "running"
           \/ Owner = r /\ Shown(r) = "running" /\ Owner' = r
                  /\ st \in {"ok", "failed", "cancelled"}
           \/ Owner = r /\ Shown(r) \notin InFlight /\ Owner' = 0 /\ st = Shown(r)
           \/ Owner # r /\ Shown(r) \in InFlight /\ Owner' = Owner /\ st = "failed"
           \/ Shown(r) \notin {"new", "gone"} /\ Owner' = Owner /\ st = "gone"
    PROVE  Board!Next
<1>0. Board!Runs = Runs /\ r # 0
  BY BoundsAssumption DEF Board!Runs, Runs
<1>1. ShownRuns' = [ShownRuns EXCEPT ![r] = st] /\ ShownRuns[r] = Shown(r)
  BY DEF ShownRuns
<1>2. st = Shown(r) => ShownRuns' = ShownRuns
  BY <1>1 DEF ShownRuns
<1>3. /\ Owner = 0 /\ ShownRuns[r] = "new" /\ Owner' = r /\ ShownRuns' = ShownRuns => Board!Take(r)
      /\ ShownRuns[r] \notin {"new", "gone"} /\ ShownRuns' = [ShownRuns EXCEPT ![r] = "gone"]
             /\ Owner' = Owner => Board!Remove(r)
      /\ Owner # r /\ ShownRuns[r] \in {"queued", "running"} /\ Owner' = Owner
             /\ ShownRuns' = [ShownRuns EXCEPT ![r] = "failed"] => Board!Close(r)
  BY DEF Board!Take, Board!Remove, Board!Close, Board!Post, Owner, ShownRuns, Shown
<1>4. /\ Owner = r /\ ShownRuns[r] = "new" /\ Owner' = Owner
             /\ ShownRuns' = [ShownRuns EXCEPT ![r] = "queued"] => Board!Queue(r)
      /\ Owner = r /\ ShownRuns[r] = "queued" /\ Owner' = Owner
             /\ ShownRuns' = [ShownRuns EXCEPT ![r] = "running"] => Board!Begin(r)
      /\ Owner = r /\ ShownRuns[r] = "running" /\ Owner' = Owner
             /\ ShownRuns' = [ShownRuns EXCEPT ![r] = st] => Board!Settle(r, st)
  BY DEF Board!Queue, Board!Begin, Board!Settle, Board!Post, Owner, ShownRuns, Shown
<1>5. Owner # 0 /\ ShownRuns[Owner] \notin {"queued", "running"} /\ Owner' = 0
          /\ ShownRuns' = ShownRuns => Board!Free
  BY DEF Board!Free, Owner, ShownRuns, Shown
<1>6. \/ Board!Take(r) \/ Board!Remove(r) \/ Board!Close(r) \/ Board!Queue(r) \/ Board!Begin(r)
      \/ Board!Settle(r, st) /\ st \in {"ok", "failed", "cancelled"}
      \/ Board!Free
  BY <1>0, <1>1, <1>2, <1>3, <1>4, <1>5 DEF InFlight
<1> QED
  BY <1>0, <1>6 DEF Board!Next, Board!Verdicts

\* A stutter of the board.
Still == Owner' = Owner /\ ShownRuns' = ShownRuns

LEMMA BoardRun ==
    ASSUME Core, Core', NEW r \in Runs, Disk(r), Course(r),
           StartRun(r) \/ Coroutine(r) \/ Worker(r)
    PROVE  Board!Next \/ Still
<1> USE DEF HasMeta, Fresh, Early, Looping, Picked, Live, LoopHeld, LoopAwaits
<1>0. /\ TypeInv /\ TypeOK /\ LeftInv /\ SingleFlight /\ SingleFlight' /\ BusyIffLive
      /\ meta \in [Runs -> MetaType] /\ job \in [Runs -> JobType] /\ pc \in [Runs -> PC]
  BY DEF Core, TypeInv, TypeOK
<1>1. \A q \in Runs \ {r} : Shown(q)' = Shown(q) /\ pc'[q] = pc[q]
  BY <1>0, OthersUntouched DEF Untouched, Shown
<1>2. /\ pc[r] \in Live => Owner = r
      /\ pc'[r] \in Live => Owner' = r
      /\ pc[r] \in Live /\ pc'[r] \notin Live => Owner' = 0
  <2>1. (pc[r] \in Live => Owner = r) /\ (pc'[r] \in Live => Owner' = r)
    BY <1>0, OwnerFacts DEF OwnerIsLive
  <2>2. ASSUME pc[r] \in Live, pc'[r] \notin Live PROVE Owner' = 0
    <3>1. \A q \in Runs : pc'[q] \notin Live
      BY <1>0, <1>1, <2>2 DEF SingleFlight
    <3> QED
      BY <1>0, <3>1, OwnerFacts DEF OwnerIsLive
  <2> QED
    BY <2>1, <2>2
<1>3. ASSUME pc[r] \in Live, pc'[r] \in Live, Shown(r)' = Shown(r) PROVE Still
  <2>1. \A q \in Runs : Shown(q)' = Shown(q)
    BY <1>1, <1>3
  <2> QED
    BY <1>2, <1>3, <2>1 DEF Still, ShownRuns
<1>4. CASE \E ms \in SUBSET Modules \ {{}}, d \in Windows \cup {0} : StartClaim(r, ms, d)
  <2>1. ~busy /\ pc[r] = "unborn" /\ pc'[r] = "claimed" /\ UNCHANGED meta /\ ~HasMeta(r)
    BY <1>0, <1>4 DEF StartClaim, Claimable, Goto, diskVars, Disk
  <2>2. Owner = 0
    BY <1>0, <2>1, OwnerFacts DEF OwnerIsLive, BusyIffLive
  <2>3. Shown(r) = "new" /\ Shown(r)' = "new"
    BY <2>1 DEF Shown
  <2> QED
    BY <1>1, <1>2, <2>1, <2>2, <2>3, BoardSteps
<1>5. CASE StartFails(r)
  <2>1. pc[r] = "claimed" /\ pc'[r] = "refused" /\ UNCHANGED meta /\ ~HasMeta(r)
    BY <1>0, <1>5 DEF StartFails, Goto, Disk
  <2>2. Shown(r) = "new" /\ Shown(r)' = "new"
    BY <2>1 DEF Shown
  <2> QED
    BY <1>1, <1>2, <2>1, <2>2, BoardSteps DEF InFlight
<1>6. CASE StartCreate(r)
  <2>1. /\ pc[r] = "claimed" /\ pc'[r] = "created" /\ meta'[r] = MemMeta(r, "queued") /\ ~HasMeta(r)
    BY <1>0, <1>6 DEF StartCreate, Goto, Disk
  <2>2. Shown(r) = "new" /\ Shown(r)' = "queued"
    BY <2>1, MemMetaFacts DEF Shown
  <2> QED
    BY <1>1, <1>2, <2>1, <2>2, BoardSteps
<1>7. CASE StartSchedule(r) \/ RunEnter(r) \/ CarryModule(r) \/ ModuleChosen(r) \/ RunDecide(r)
  <2>1. /\ pc[r] \in Live \ {"claimed"} /\ pc'[r] \in Live \ {"claimed"} /\ UNCHANGED meta
    BY <1>0, <1>7
       DEF StartSchedule, RunEnter, CarryModule, ModuleChosen, RunDecide, Goto, diskVars
  <2> QED
    BY <1>3, <2>1 DEF Shown
<1>8. CASE Worker(r)
  <2>1. /\ pc[r] \in Live \ {"claimed"} /\ pc'[r] \in Live \ {"claimed"} /\ UNCHANGED meta
    BY <1>0, <1>8 DEF Worker, WorkerWrites, WorkerReturns, WorkerRaises, Goto, diskVars
  <2> QED
    BY <1>3, <2>1 DEF Shown
<1>9. CASE RunBegin(r)
  <2>1. /\ pc[r] = "entered" /\ pc'[r] = "carrying" /\ HasMeta(r)
        /\ meta'[r] = MemMeta(r, "running")
    BY <1>0, <1>9 DEF RunBegin, Goto, Disk
  <2>2. Shown(r) = "queued" /\ Shown(r)' = "running"
    BY <2>1, MemMetaFacts DEF Shown, Course
  <2> QED
    BY <1>1, <1>2, <2>1, <2>2, BoardSteps
<1>10. CASE CarryEnd(r)
  <2>1. /\ pc[r] = "carrying" /\ pc'[r] = "choosing"
        /\ \/ meta'[r] = meta[r]
           \/ meta'[r] = MemMeta(r, "running") /\ HasMeta(r)
    BY <1>0, <1>10 DEF CarryEnd, Goto, Disk
  <2>2. Shown(r)' = Shown(r)
    BY <2>1, MemMetaFacts DEF Shown, Course
  <2> QED
    BY <1>3, <2>1, <2>2
<1>11. CASE ModuleCancelled(r) \/ ModuleStart(r) \/ ModuleOk(r) \/ ModuleFails(r)
  <2>1. PICK st : UpdateModule(r, First(job[r].left), st)
    BY <1>11 DEF ModuleCancelled, ModuleStart, ModuleOk, ModuleFails, ModuleEnd
  <2>2. /\ pc[r] \in Live \ {"claimed"} /\ pc'[r] \in Live \ {"claimed"} /\ job[r].left # {}
    BY <1>0, <1>11
       DEF ModuleCancelled, ModuleStart, ModuleOk, ModuleFails, ModuleEnd, Goto, LeftInv
  <2>3. meta'[r].status = meta[r].status
    BY <1>0, <2>1, <2>2, CurrentUpdated
  <2> QED
    BY <1>3, <2>2, <2>3 DEF Shown
<1>12. CASE RunSettle(r)
  <2>1. /\ pc[r] = "settling" /\ pc'[r] = "settled" /\ meta'[r] = job[r].final /\ HasMeta(r)
    BY <1>0, <1>12 DEF RunSettle, Goto, Disk
  <2>2. Shown(r) = "running" /\ Honest(r, job[r].final)
    BY <2>1 DEF Shown, Course
  <2>3. job[r].final.status \in {"ok", "failed", "cancelled"}
    BY <2>2 DEF Honest
  <2>4. Shown(r)' = job[r].final.status
    BY <2>1, <2>3 DEF Shown
  <2> QED
    BY <1>1, <1>2, <2>1, <2>2, <2>3, <2>4, BoardSteps
<1>13. CASE RunRelease(r)
  <2>1. /\ pc[r] = "settled" /\ pc'[r] = "over" /\ UNCHANGED meta
    BY <1>0, <1>13 DEF RunRelease, Goto, diskVars
  <2>2. HasMeta(r) => meta[r].status \notin InFlight
    BY <2>1 DEF Course, Honest, InFlight
  <2>3. Shown(r) \notin InFlight /\ Shown(r)' = Shown(r)
    BY <2>1, <2>2 DEF Shown, InFlight
  <2> QED
    BY <1>1, <1>2, <2>1, <2>3, BoardSteps
<1>14. CASE RunAborts(r)
  <2>1. /\ pc[r] \in Live \ {"claimed"} /\ pc'[r] = "aborted" /\ ~HasMeta(r) /\ UNCHANGED meta
    BY <1>0, <1>14 DEF RunAborts, WriteRaises, Abort, Goto, diskVars, Disk
  <2>2. Shown(r) \notin InFlight /\ Shown(r)' = Shown(r)
    BY <2>1 DEF Shown, InFlight
  <2> QED
    BY <1>1, <1>2, <2>1, <2>2, BoardSteps
<1> QED
  BY <1>4, <1>5, <1>6, <1>7, <1>8, <1>9, <1>10, <1>11, <1>12, <1>13, <1>14
     DEF StartRun, Coroutine

LEMMA BoardNext ==
    ASSUME Core, Core', FileInv, CourseInv, StampInv, StaleIsLost, [Next]_vars
    PROVE  Board!Next \/ Still
<1> USE DEF HasMeta
<1>0. TypeOK /\ SingleFlight /\ SingleFlight' /\ DelInv
  BY DEF Core, TypeInv, FileInv
<1>1. CASE \E r \in Runs : StartRun(r) \/ Coroutine(r) \/ Worker(r)
  BY <1>1, BoardRun DEF FileInv, CourseInv
<1>2. ASSUME UNCHANGED pc PROVE Owner' = Owner
  BY <1>2 DEF Owner, LiveRuns
<1>3. CASE \A q \in Runs : Untouched(q)
  <2>1. \A q \in Runs : pc'[q] = pc[q] /\ Shown(q)' = Shown(q)
    BY <1>3 DEF Untouched, Shown
  <2>2. LiveRuns' = LiveRuns /\ ShownRuns' = ShownRuns
    BY <2>1 DEF LiveRuns, ShownRuns
  <2> QED
    BY <2>2 DEF Still, Owner
<1>4. CASE DeleteStamp
  <2>0. PICK x \in Runs : x = del.run
    BY <1>0, <1>4 DEF DelInv, DeleteStamp
  <2>1. /\ UNCHANGED pc /\ pc[x] = "lost" /\ del.seen.status \in InFlight
        /\ \A q \in Runs \ {x} : Shown(q)' = Shown(q)
    BY <1>0, <1>4, <2>0 DEF DeleteStamp, StaleIsLost, StampInv, taskVars, Shown, TypeOK
  <2>2. CASE x \in dir
    <3>1. meta[x] = del.seen /\ meta'[x] = [del.seen EXCEPT !.status = "failed"]
      BY <1>0, <1>4, <2>0, <2>1, <2>2 DEF DeleteStamp, StampInv, TypeOK
    <3>2. Shown(x) \in InFlight /\ Shown(x)' = "failed"
      <4>1. del.seen \in MetaType
        BY <1>0 DEF TypeOK
      <4>2. meta[x].status \in InFlight /\ meta'[x].status = "failed"
        BY <2>1, <3>1, <4>1 DEF MetaType
      <4> QED
        BY <4>2 DEF Shown, InFlight
    <3>3. Owner # x
      <4>1. "lost" \notin Live /\ 0 \notin Runs
        BY BoundsAssumption DEF Live, LoopHeld, LoopAwaits, Runs
      <4>2. CASE \E r \in Runs : pc[r] \in Live
        BY <1>0, <2>1, <4>1, <4>2, OwnerFacts DEF OwnerIsLive
      <4>3. CASE ~ \E r \in Runs : pc[r] \in Live
        BY <1>0, <2>1, <4>1, <4>3, OwnerFacts DEF OwnerIsLive
      <4> QED
        BY <4>2, <4>3
    <3>4. \A q \in Runs : Shown(q)' = IF q = x THEN "failed" ELSE Shown(q)
      BY <2>1, <3>2
    <3> QED
      BY <1>2, <2>1, <3>2, <3>3, <3>4, BoardSteps
  <2>3. CASE x \notin dir
    BY <1>2, <1>4, <2>0, <2>1, <2>3 DEF DeleteStamp, Still, ShownRuns, Shown
  <2> QED
    BY <2>2, <2>3
<1>5. CASE \E x : Remove(x) /\ UNCHANGED <<pc, job, cancel>>
  <2>1. PICK x : Remove(x) /\ UNCHANGED pc
    BY <1>5
  <2>2. \A q \in Runs : q # x => Shown(q)' = Shown(q)
    BY <1>0, <2>1, Removed DEF Shown
  <2>3. CASE x \in Runs /\ HasMeta(x)
    <3>1. pc[x] \notin {"unborn", "claimed", "refused"} /\ meta[x].status \in RunState
      BY <1>0, <2>3 DEF FileInv, Disk, Fresh, TypeOK, MetaType
    <3>2. Shown(x)' = "gone" /\ Shown(x) \notin {"new", "gone"}
      BY <1>0, <2>1, <2>3, <3>1, Removed, NoMetaFacts DEF Shown, RunState
    <3> QED
      BY <1>2, <2>1, <2>2, <2>3, <3>2, BoardSteps
  <2>4. CASE ~ (x \in Runs /\ HasMeta(x))
    <3>1. \A q \in Runs : Shown(q)' = Shown(q)
      BY <1>0, <2>1, <2>2, <2>4, Removed, NoMetaFacts DEF Shown
    <3> QED
      BY <1>2, <2>1, <3>1 DEF Still, ShownRuns
  <2> QED
    BY <2>3, <2>4
<1>6. CASE Crash
  <2>1. PICK r \in Runs : pc[r] \in Live
    BY <1>6 DEF Crash
  <2>2. \A q \in Runs : pc'[q] \notin Live
    BY <1>0, <1>6 DEF Crash, Live, LoopHeld, LoopAwaits, TypeOK
  <2>3. Owner = r /\ Owner' = 0 /\ r # 0
    BY <1>0, <2>1, <2>2, OwnerFacts, BoundsAssumption DEF OwnerIsLive, Runs
  <2>4. \A q \in Runs : Shown(q)' = Shown(q)
    BY <1>0, <1>6 DEF Crash, diskVars, Shown, Live, LoopHeld, LoopAwaits, TypeOK
  <2>5. ShownRuns' = ShownRuns
    BY <2>4 DEF ShownRuns
  <2>6. Owner # 0 /\ Owner' = 0 /\ ShownRuns' = ShownRuns => Board!Restart
    BY DEF Board!Restart, Owner, ShownRuns, Shown
  <2> QED
    BY <2>3, <2>5, <2>6 DEF Board!Next
<1> QED
  BY <1>0, <1>1, <1>3, <1>4, <1>5, <1>6, NextCases

LEMMA BoardInit == Init => Board!Init
<1> SUFFICES ASSUME Init PROVE Board!Init
  OBVIOUS
<1>1. LiveRuns = {}
  BY DEF Init, LiveRuns, Live, LoopHeld, LoopAwaits
<1>2. \A q \in Runs : meta[q].status = "none" /\ pc[q] = "unborn"
  BY NoMetaFacts DEF Init
<1> QED
  BY <1>1, <1>2 DEF Board!Init, Board!Runs, Runs, NoRun

\* The run lifecycle implements the board a client watches: one slot, statuses
\* that only move forward and only under their owner, runs that stay removed.
THEOREM RunsImplementBoard == Spec /\ []StaleIsLost => ImplementsBoard
<1>1. Init => StampInv
  BY DEF Init, NoDel, StampInv
<1>2. Core /\ FileInv /\ StampInv /\ [Next]_vars => StampInv'
  BY StampNext DEF Core, FileInv
<1>3. Core /\ Core' /\ FileInv /\ CourseInv /\ StampInv /\ StaleIsLost /\ [Next]_vars
          => [Board!Next]_(Board!vars)
  BY BoardNext DEF Still, Board!vars, Owner, ShownRuns, Shown
<1> QED
  BY <1>1, <1>2, <1>3, BoardInit, CourseAlways, PTL DEF Spec, ImplementsBoard, Board!Spec

=============================================================================
