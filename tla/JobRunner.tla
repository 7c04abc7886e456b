----------------------------- MODULE JobRunner -----------------------------
(***************************************************************************)
(* The run lifecycle of the control plane: web/jobs.py (JobRunner.start,   *)
(* cancel, _run, _carry_forward_from_prior), the part of web/storage.py    *)
(* they write through, and the delete endpoints of web/api/runs.py.        *)
(*                                                                         *)
(* Three kinds of thread interleave.  Coroutines run on the one asyncio    *)
(* thread and give it up only where they await, so a coroutine whose pc is *)
(* in LoopHeld excludes every other coroutine.  The analyzers run in       *)
(* worker threads (asyncio.to_thread).  The synchronous endpoints (cancel, *)
(* delete, delete all) run in the server's thread pool and interleave with *)
(* every step of the other two, one repository call at a time because each *)
(* call takes the repository's RLock.                                      *)
(***************************************************************************)
EXTENDS Naturals, Sequences, FiniteSets

CONSTANTS
    MaxRuns,     \* run ids 1..MaxRuns, handed out in order (new_id sorts by time)
    NumModules,  \* KNOWN_MODULES, numbered in canonical execution order
    Windows,     \* the look-back windows (days) a caller may ask for
    BaseWindow,  \* the value of the SMA_*_DAYS variables outside any run
    MaxDeletes,  \* bound on calls of DELETE /api/runs/{id}/data
    MaxPurges,   \* bound on calls of DELETE /api/runs
    MaxCrashes   \* bound on process restarts

ASSUME BoundsAssumption ==
    /\ MaxRuns \in Nat \ {0}
    /\ NumModules \in Nat \ {0}
    /\ MaxDeletes \in Nat /\ MaxPurges \in Nat /\ MaxCrashes \in Nat

ASSUME WindowsAssumption ==
    /\ Windows \subseteq Nat \ {0}       \* the request schema has ge=1
    /\ BaseWindow \in Nat \ {0}

Runs == 1..MaxRuns
Modules == 1..NumModules
NoRun == 0

RunState == {"queued", "running", "ok", "failed", "cancelled"}
ModuleState == {"queued", "running", "ok", "failed", "cancelled", "carried"}
InFlight == {"queued", "running"}

VARIABLES
    busy,      \* JobRunner._busy
    pc,        \* pc[r]: where the coroutine, or the worker, of run r stands
    job,       \* job[r]: the local variables of start and _run for run r
    env,       \* the SMA_*_DAYS environment variables of the process
    cancel,    \* JobRunner._cancel: "none" when r has no entry
    meta,      \* meta[r]: runs/<r>/run.json ("none" when the file is missing)
    dir,       \* the run directories that exist
    art,       \* art[r]: the modules m with a file runs/<r>/<m>.json
    log,       \* log[r]: runs/<r>/events.ndjson
    del,       \* the thread serving DELETE /api/runs/{id}/data
    purge,     \* the thread serving DELETE /api/runs
    calls      \* how often each bounded action has happened

taskVars == <<busy, pc, job, env>>
diskVars == <<meta, dir, art, log>>
apiVars  == <<del, purge, calls>>
vars == <<busy, pc, job, env, cancel, meta, dir, art, log, del, purge, calls>>

----------------------------------------------------------------------------
(* Where a run stands.                                                      *)

\* Sections of a coroutine without an await: the event loop is held.
LoopHeld == {"claimed", "created", "entered", "carrying", "choosing",
             "starting", "settling", "settled"}
\* The event loop is free: the task waits to be scheduled or for its worker.
LoopAwaits == {"scheduled", "working", "wrote", "returned", "raised"}
Live == LoopHeld \cup LoopAwaits
Ended == {"refused", "over", "aborted", "lost"}
PC == {"unborn"} \cup Live \cup Ended

LoopFree == \A r \in Runs : pc[r] \notin LoopHeld

\* The next module in canonical order.
First(S) == CHOOSE m \in S : \A n \in S : m <= n

NoMeta == [status |-> "none", mods |-> [m \in Modules |-> "none"]]

\* run.json as the in-memory RunMeta of _run would write it: the selected
\* modules as they were queued, and the modules carried forward.
MemMeta(r, st) ==
    [status |-> st,
     mods |-> [m \in Modules |-> IF m \in job[r].sel THEN "queued"
                                 ELSE IF m \in job[r].carry THEN "carried"
                                 ELSE "none"]]

NoJob == [sel |-> {}, days |-> 0, saved |-> BaseWindow, left |-> {}, carry |-> {},
          prior |-> NoRun, partial |-> FALSE, final |-> NoMeta]

Event(t, ms, st) == [type |-> t, mods |-> ms, state |-> st]

\* _publish, the persisted half: append_event opens the file in append mode,
\* which fails (and is swallowed) when the run directory is gone.
Publish(r, ev) ==
    log' = IF r \in dir THEN [log EXCEPT ![r] = Append(@, ev)] ELSE log

Goto(r, label) == pc' = [pc EXCEPT ![r] = label]

\* Mutants: the finally block forgets the environment, or the slot.
ReleaseKeepsEnv(r) == busy' = FALSE /\ UNCHANGED env
ReleaseKeepsBusy(r) == UNCHANGED busy /\ env' = IF job[r].days = 0 THEN env ELSE job[r].saved

\* The finally block of _run: free the slot and restore the environment (no
\* window asked for: prev_env is empty and there is nothing to restore).
Release(r) == /\ busy' = FALSE
              /\ env' = IF job[r].days = 0 THEN env ELSE job[r].saved

\* An exception leaves _run: the finally block runs, the cancel entry stays.
Abort(r) == /\ Goto(r, "aborted")
            /\ Release(r)
            /\ UNCHANGED <<job, cancel, diskVars, apiVars>>

\* update_module: read-modify-write of run.json under the repository lock.
UpdateModule(r, m, st) == meta' = [meta EXCEPT ![r].mods[m] = st]

\* repository.delete(run_id)
Remove(r) == /\ dir' = dir \ {r}
             /\ meta' = [meta EXCEPT ![r] = NoMeta]
             /\ art' = [art EXCEPT ![r] = {}]
             /\ log' = [log EXCEPT ![r] = <<>>]

NoPurge == [pc |-> "idle", left |-> {}, flight |-> {}]
NoDel == [pc |-> "idle", run |-> NoRun, seen |-> NoMeta]

Init ==
    /\ busy = FALSE
    /\ pc = [r \in Runs |-> "unborn"]
    /\ job = [r \in Runs |-> NoJob]
    /\ env = BaseWindow
    /\ cancel = [r \in Runs |-> "none"]
    /\ meta = [r \in Runs |-> NoMeta]
    /\ dir = {}
    /\ art = [r \in Runs |-> {}]
    /\ log = [r \in Runs |-> <<>>]
    /\ del = NoDel
    /\ purge = NoPurge
    /\ calls = [deletes |-> 0, purges |-> 0, crashes |-> 0]

----------------------------------------------------------------------------
(* start: no await, so it holds the loop from the check to create_task.     *)

\* Mutant: the runner is taken to be free while its asyncio lock is, which _run
\* takes only once it is scheduled.
ClaimableUnlocked(r) == \A q \in Runs : pc[q] # "carrying"

\* The check of _busy.
Claimable(r) == ~busy

\* Refuse while busy, otherwise claim the slot.  The id is the next one.
StartClaim(r, ms, d) ==
    /\ LoopFree
    /\ Claimable(r)
    /\ pc[r] = "unborn"
    /\ \A q \in Runs : q < r => pc[q] # "unborn"
    /\ busy' = TRUE
    /\ Goto(r, "claimed")
    /\ job' = [job EXCEPT ![r] = [job[r] EXCEPT !.sel = ms, !.days = d]]
    /\ UNCHANGED <<env, cancel, diskVars, apiVars>>

\* Mutant: the exception handler of start does not release the slot.
StartFailsBusy(r) ==
    /\ pc[r] = "claimed"
    /\ Goto(r, "refused")
    /\ UNCHANGED <<busy, job, env, cancel, diskVars, apiVars>>

\* load_config or repo.create raises: the slot is released.  A create that
\* fails after mkdir leaves a directory without run.json.
StartFails(r) ==
    /\ pc[r] = "claimed"
    /\ busy' = FALSE
    /\ Goto(r, "refused")
    /\ dir' \in {dir, dir \cup {r}}
    /\ UNCHANGED <<job, env, cancel, meta, art, log, apiVars>>

\* repo.create(meta): from here on the other endpoints see the run.
StartCreate(r) ==
    /\ pc[r] = "claimed"
    /\ Goto(r, "created")
    /\ dir' = dir \cup {r}
    /\ meta' = [meta EXCEPT ![r] = MemMeta(r, "queued")]
    /\ UNCHANGED <<busy, job, env, cancel, art, log, apiVars>>

\* Mutant: the cancel event of the run is never registered.
StartScheduleUnregistered(r) ==
    /\ pc[r] = "created"
    /\ Goto(r, "scheduled")
    /\ UNCHANGED <<busy, job, env, cancel, diskVars, apiVars>>

\* Register the cancel event and schedule _run.
StartSchedule(r) ==
    /\ pc[r] = "created"
    /\ cancel' = [cancel EXCEPT ![r] = "clear"]
    /\ Goto(r, "scheduled")
    /\ UNCHANGED <<busy, job, env, diskVars, apiVars>>

----------------------------------------------------------------------------
(* _run.                                                                    *)

\* The task is scheduled: override the SMA_*_DAYS variables.
RunEnter(r) ==
    /\ LoopFree
    /\ pc[r] = "scheduled"
    /\ Goto(r, "entered")
    /\ job' = [job EXCEPT ![r].saved = env]
    /\ env' = IF job[r].days = 0 THEN env ELSE job[r].days
    /\ UNCHANGED <<busy, cancel, diskVars, apiVars>>

\* latest_for_workspace: the newest other run that is ok or failed (every run
\* of this module belongs to one workspace).
Prior(r) ==
    LET done == {q \in Runs \ {r} : meta[q].status \in {"ok", "failed"}}
    IN IF done = {} THEN NoRun ELSE CHOOSE q \in done : \A p \in done : p <= q

\* Write status running, publish run_started, and look up the prior run.
RunBegin(r) ==
    /\ pc[r] = "entered"
    /\ r \in dir
    /\ meta' = [meta EXCEPT ![r] = MemMeta(r, "running")]
    /\ Publish(r, Event("run_started", {}, "running"))
    /\ job' = [job EXCEPT ![r] = [job[r] EXCEPT !.prior = Prior(r), !.left = Modules \ job[r].sel]]
    /\ Goto(r, "carrying")
    /\ UNCHANGED <<busy, env, cancel, dir, art, apiVars>>

\* Mutant: the carry is claimed without looking for the copied json.
CopyArtefactClaimed(r, m) ==
    /\ job[r].prior # NoRun /\ m \in art[job[r].prior]
    /\ UNCHANGED art
    /\ job' = [job EXCEPT ![r] = [job[r] EXCEPT !.left = @ \ {m}, !.carry = @ \cup {m}]]

\* The prior run's <module>.json is there and its copy arrives.
CopyArtefact(r, m) ==
    /\ job[r].prior # NoRun /\ m \in art[job[r].prior]
    /\ r \in dir
    /\ art' = [art EXCEPT ![r] = @ \cup {m}]
    /\ job' = [job EXCEPT ![r] = [job[r] EXCEPT !.left = @ \ {m}, !.carry = @ \cup {m}]]

\* Copy one unselected module's files from the prior run.  A module the prior
\* directory does not hold is skipped, and so is one whose copy fails; the
\* copy can fail for any reason and does when either directory is gone.
CarryModule(r) ==
    /\ pc[r] = "carrying"
    /\ job[r].left # {}
    /\ LET m == First(job[r].left)
       IN \/ CopyArtefact(r, m)
          \/ /\ job' = [job EXCEPT ![r].left = @ \ {m}]
             /\ UNCHANGED art
    /\ UNCHANGED <<busy, pc, env, cancel, meta, dir, log, apiVars>>

\* Mutant: the carried modules are persisted and not announced.
AnnounceCarrySilent(r) == UNCHANGED log

\* The modules_carried event.
AnnounceCarry(r) == Publish(r, Event("modules_carried", job[r].carry, "carried"))

\* The end of _carry_forward_from_prior: persist and announce what was
\* carried, if anything.
CarryEnd(r) ==
    /\ pc[r] = "carrying"
    /\ job[r].left = {}
    /\ job[r].carry = {} \/ r \in dir
    /\ job' = [job EXCEPT ![r].left = job[r].sel]
    /\ IF job[r].carry = {}
       THEN UNCHANGED <<meta, log>>
       ELSE /\ meta' = [meta EXCEPT ![r] = MemMeta(r, "running")]
            /\ AnnounceCarry(r)
    /\ Goto(r, "choosing")
    /\ UNCHANGED <<busy, env, cancel, dir, art, apiVars>>

\* The head of the module loop with the cancel event set: the module is
\* marked cancelled and skipped.
ModuleCancelled(r) ==
    /\ pc[r] = "choosing"
    /\ job[r].left # {}
    /\ cancel[r] = "set"
    /\ meta[r].status # "none"
    /\ LET m == First(job[r].left)
       IN /\ UpdateModule(r, m, "cancelled")
          /\ Publish(r, Event("module_finished", {m}, "cancelled"))
          /\ job' = [job EXCEPT ![r].left = @ \ {m}]
    /\ UNCHANGED <<busy, pc, env, cancel, dir, art, apiVars>>

\* The head of the module loop with the cancel event clear.  The event may be
\* set between this test and the update that follows it.
ModuleChosen(r) ==
    /\ pc[r] = "choosing"
    /\ job[r].left # {}
    /\ cancel[r] # "set"
    /\ Goto(r, "starting")
    /\ UNCHANGED <<busy, job, env, cancel, diskVars, apiVars>>

\* Mark the module running, announce it, and hand it to a worker thread.
ModuleStart(r) ==
    /\ pc[r] = "starting"
    /\ meta[r].status # "none"
    /\ LET m == First(job[r].left)
       IN /\ UpdateModule(r, m, "running")
          /\ Publish(r, Event("module_started", {m}, "running"))
    /\ Goto(r, "working")
    /\ UNCHANGED <<busy, job, env, cancel, dir, art, apiVars>>

\* The worker: the analyzer returns and the writer creates the directory if
\* it has to and writes <module>.json.  Either may raise, the writer also
\* after the json is written.
WorkerWrites(r) ==
    /\ pc[r] = "working"
    /\ art' = [art EXCEPT ![r] = @ \cup {First(job[r].left)}]
    /\ dir' = dir \cup {r}
    /\ Goto(r, "wrote")
    /\ UNCHANGED <<busy, job, env, cancel, meta, log, apiVars>>

WorkerReturns(r) ==
    /\ pc[r] = "wrote"
    /\ Goto(r, "returned")
    /\ UNCHANGED <<busy, job, env, cancel, diskVars, apiVars>>

WorkerRaises(r) ==
    /\ pc[r] \in {"working", "wrote"}
    /\ Goto(r, "raised")
    /\ UNCHANGED <<busy, job, env, cancel, diskVars, apiVars>>

\* Mutant: a failed module does not count against the run.
PartialForgotten(r, st) == job[r].partial

\* partial_failure after a module ended in state st.
Partial(r, st) == job[r].partial \/ st = "failed"

\* Back on the loop: record the module's outcome.
ModuleEnd(r, from, st) ==
    /\ LoopFree
    /\ pc[r] = from
    /\ meta[r].status # "none"
    /\ LET m == First(job[r].left)
       IN /\ UpdateModule(r, m, st)
          /\ Publish(r, Event("module_finished", {m}, st))
          /\ job' = [job EXCEPT ![r] = [job[r] EXCEPT !.left = @ \ {m},
                                                    !.partial = Partial(r, st)]]
    /\ Goto(r, "choosing")
    /\ UNCHANGED <<busy, env, cancel, dir, art, apiVars>>

ModuleOk(r) == ModuleEnd(r, "returned", "ok")
ModuleFails(r) == ModuleEnd(r, "raised", "failed")

\* Mutant: a run with some failed modules is called partial.
VerdictPartial(r) == IF cancel[r] = "set" THEN "cancelled"
                     ELSE IF job[r].partial THEN "partial" ELSE "ok"

\* The loop is over: read the final RunMeta (or fall back to the one in
\* memory) and choose the verdict.
Verdict(r) == IF cancel[r] = "set" THEN "cancelled"
              ELSE IF job[r].partial THEN "failed" ELSE "ok"

RunDecide(r) ==
    /\ pc[r] = "choosing"
    /\ job[r].left = {}
    /\ LET read == IF meta[r].status = "none" THEN MemMeta(r, "running") ELSE meta[r]
       IN job' = [job EXCEPT ![r].final = [read EXCEPT !.status = Verdict(r)]]
    /\ Goto(r, "settling")
    /\ UNCHANGED <<busy, env, cancel, diskVars, apiVars>>

\* Mutants of the final write: it makes the directory it needs, or it is left
\* out and only the event is published.
RunSettleMkdir(r) ==
    /\ pc[r] = "settling"
    /\ dir' = dir \cup {r}
    /\ meta' = [meta EXCEPT ![r] = job[r].final]
    /\ Goto(r, "settled")
    /\ UNCHANGED <<busy, job, env, cancel, art, log, apiVars>>
RunSettleUnsaved(r) ==
    /\ pc[r] = "settling"
    /\ Publish(r, Event("done", {}, job[r].final.status))
    /\ Goto(r, "settled")
    /\ UNCHANGED <<busy, job, env, cancel, meta, dir, art, apiVars>>

\* Persist the verdict and publish it; the write raises without a directory.
RunSettle(r) ==
    /\ pc[r] = "settling"
    /\ r \in dir
    /\ meta' = [meta EXCEPT ![r] = job[r].final]
    /\ Publish(r, Event("done", {}, job[r].final.status))
    /\ Goto(r, "settled")
    /\ UNCHANGED <<busy, job, env, cancel, dir, art, apiVars>>

\* A write raises out of _run: repo.update in a directory that is gone,
\* update_module without run.json (after an analyzer that raised, or returned,
\* both the try body and its handler raise).
WriteRaises(r) ==
    \/ /\ r \notin dir
       /\ \/ pc[r] \in {"entered", "settling"}
          \/ pc[r] = "carrying" /\ job[r].left = {} /\ job[r].carry # {}
    \/ /\ meta[r].status = "none"
       /\ \/ pc[r] = "choosing" /\ job[r].left # {} /\ cancel[r] = "set"
          \/ pc[r] = "starting"
          \/ pc[r] \in {"returned", "raised"} /\ LoopFree

RunAborts(r) == WriteRaises(r) /\ Abort(r)

\* Drop the cancel entry and run the finally block.
RunRelease(r) ==
    /\ pc[r] = "settled"
    /\ cancel' = [cancel EXCEPT ![r] = "none"]
    /\ Release(r)
    /\ Goto(r, "over")
    /\ UNCHANGED <<job, diskVars, apiVars>>

----------------------------------------------------------------------------
(* The synchronous endpoints.                                               *)

\* DELETE /api/runs/{id}: set the event of a registered run.
CancelRun(r) ==
    /\ cancel[r] = "clear"
    /\ cancel' = [cancel EXCEPT ![r] = "set"]
    /\ UNCHANGED <<taskVars, diskVars, apiVars>>

\* DELETE /api/runs/{id}/data, one repository call per step.
DeleteRead(r) ==
    /\ del.pc = "idle"
    /\ calls.deletes < MaxDeletes
    /\ meta[r].status # "none"
    /\ del' = [pc |-> IF meta[r].status \in InFlight THEN "test" ELSE "remove",
               run |-> r, seen |-> meta[r]]
    /\ calls' = [calls EXCEPT !.deletes = @ + 1]
    /\ UNCHANGED <<taskVars, diskVars, cancel, purge>>

\* A registered run is cancelled and the call refused with 409.
DeleteRefused ==
    /\ del.pc = "test"
    /\ cancel[del.run] # "none"
    /\ cancel' = [cancel EXCEPT ![del.run] = "set"]
    /\ del' = NoDel
    /\ UNCHANGED <<taskVars, diskVars, purge, calls>>

\* Nothing registered under the id: the run is taken to have crashed.
DeleteStale ==
    /\ del.pc = "test"
    /\ cancel[del.run] = "none"
    /\ del' = [del EXCEPT !.pc = "stamp"]
    /\ UNCHANGED <<taskVars, diskVars, cancel, purge, calls>>

\* Write back the RunMeta read earlier with status failed (a write into a
\* directory that is gone raises, and is swallowed).
DeleteStamp ==
    /\ del.pc = "stamp"
    /\ meta' = IF del.run \in dir
               THEN [meta EXCEPT ![del.run] = [del.seen EXCEPT !.status = "failed"]]
               ELSE meta
    /\ del' = [del EXCEPT !.pc = "remove"]
    /\ UNCHANGED <<taskVars, cancel, dir, art, log, purge, calls>>

DeleteRemove ==
    /\ del.pc = "remove"
    /\ Remove(del.run)
    /\ del' = NoDel
    /\ UNCHANGED <<taskVars, cancel, purge, calls>>

\* DELETE /api/runs: list every run, then for each, newest first, cancel it
\* if it was in flight when listed and remove it whatever its status.
PurgeList ==
    /\ purge.pc = "idle"
    /\ calls.purges < MaxPurges
    /\ \E r \in Runs : meta[r].status # "none"
    /\ purge' = [pc |-> "cancel",
                 left |-> {r \in Runs : meta[r].status # "none"},
                 flight |-> {r \in Runs : meta[r].status \in InFlight}]
    /\ calls' = [calls EXCEPT !.purges = @ + 1]
    /\ UNCHANGED <<taskVars, diskVars, cancel, del>>

Newest(S) == CHOOSE r \in S : \A q \in S : q <= r

PurgeCancel ==
    /\ purge.pc = "cancel"
    /\ LET r == Newest(purge.left)
       IN cancel' = IF r \in purge.flight /\ cancel[r] # "none"
                    THEN [cancel EXCEPT ![r] = "set"] ELSE cancel
    /\ purge' = [purge EXCEPT !.pc = "remove"]
    /\ UNCHANGED <<taskVars, diskVars, del, calls>>

PurgeRemove ==
    /\ purge.pc = "remove"
    /\ LET r == Newest(purge.left)
       IN /\ Remove(r)
          /\ purge' = IF purge.left = {r} THEN NoPurge
                      ELSE [purge EXCEPT !.pc = "cancel", !.left = @ \ {r}]
    /\ UNCHANGED <<taskVars, cancel, del, calls>>

----------------------------------------------------------------------------
\* The process dies and is started again: what is on disk stays, threads,
\* tasks, _busy, _cancel and the environment overrides do not.
Crash ==
    /\ calls.crashes < MaxCrashes
    /\ \E r \in Runs : pc[r] \in Live
    /\ calls' = [calls EXCEPT !.crashes = @ + 1]
    /\ busy' = FALSE
    /\ pc' = [r \in Runs |-> IF pc[r] = "claimed" THEN "refused"
                             ELSE IF pc[r] \in Live THEN "lost" ELSE pc[r]]
    /\ env' = BaseWindow
    /\ cancel' = [r \in Runs |-> "none"]
    /\ del' = NoDel
    /\ purge' = NoPurge
    /\ UNCHANGED <<job, diskVars>>

\* Nothing left to do within the bounds: an idle server.
ServerIdle ==
    /\ \A r \in Runs : pc[r] \in Ended
    /\ del.pc = "idle" /\ purge.pc = "idle"
    /\ UNCHANGED vars

StartRun(r) == \/ \E ms \in SUBSET Modules \ {{}}, d \in Windows \cup {0} :
                     StartClaim(r, ms, d)
               \/ StartFails(r) \/ StartCreate(r) \/ StartSchedule(r)

\* What the event loop runs once a run is scheduled, and its worker thread.
Coroutine(r) ==
    \/ RunEnter(r) \/ RunBegin(r) \/ CarryModule(r) \/ CarryEnd(r)
    \/ ModuleCancelled(r) \/ ModuleChosen(r) \/ ModuleStart(r)
    \/ ModuleOk(r) \/ ModuleFails(r)
    \/ RunDecide(r) \/ RunSettle(r) \/ RunRelease(r) \/ RunAborts(r)

Worker(r) == WorkerWrites(r) \/ WorkerReturns(r) \/ WorkerRaises(r)

DeleteThread == DeleteRefused \/ DeleteStale \/ DeleteStamp \/ DeleteRemove
PurgeThread == PurgeCancel \/ PurgeRemove

Next ==
    \/ \E r \in Runs : StartRun(r) \/ Coroutine(r) \/ Worker(r)
                       \/ CancelRun(r) \/ DeleteRead(r)
    \/ DeleteThread
    \/ PurgeList \/ PurgeThread
    \/ Crash
    \/ ServerIdle

Spec == Init /\ [][Next]_vars

\* The event loop runs what is ready and the analyzers terminate; a thread
\* serving a request is scheduled.  Nothing makes a client call an endpoint.
Fairness ==
    /\ \A r \in Runs : /\ WF_vars(StartFails(r) \/ StartCreate(r) \/ StartSchedule(r))
                        /\ WF_vars(Coroutine(r))
                        /\ WF_vars(Worker(r))
    /\ WF_vars(DeleteThread)
    /\ WF_vars(PurgeThread)

FairSpec == Spec /\ Fairness

----------------------------------------------------------------------------
(* Properties.                                                              *)

MetaType == [status : RunState \cup {"none"}, mods : [Modules -> ModuleState \cup {"none"}]]
JobType == [sel : SUBSET Modules, days : Nat, saved : Nat, left : SUBSET Modules,
            carry : SUBSET Modules, prior : Runs \cup {NoRun}, partial : BOOLEAN,
            final : MetaType]
EventType == [type : {"run_started", "modules_carried", "module_started",
                      "module_finished", "done"},
              mods : SUBSET Modules, state : RunState \cup ModuleState \cup {"none"}]

\* The type of every variable.
TypeOK ==
    /\ busy \in BOOLEAN
    /\ pc \in [Runs -> PC]
    /\ job \in [Runs -> JobType]
    /\ env \in Nat
    /\ cancel \in [Runs -> {"none", "clear", "set"}]
    /\ meta \in [Runs -> MetaType]
    /\ dir \in SUBSET Runs
    /\ art \in [Runs -> SUBSET Modules]
    /\ log \in [Runs -> Seq(EventType)]
    /\ del \in [pc : {"idle", "test", "stamp", "remove"}, run : Runs \cup {NoRun},
                seen : MetaType]
    /\ purge \in [pc : {"idle", "cancel", "remove"}, left : SUBSET Runs,
                  flight : SUBSET Runs]
    /\ calls \in [deletes : Nat, purges : Nat, crashes : Nat]

\* At most one run is anywhere between claiming the slot in start and the
\* finally block of _run ("Only one analyzer run executes at a time"), across
\* failures of start, exceptions out of _run, deletes and restarts.
SingleFlight == \A r, q \in Runs : pc[r] \in Live /\ pc[q] \in Live => r = q

\* _busy is set exactly while such a run exists: it is neither leaked by a run
\* that dies of an exception nor cleared under a run that is still going.
BusyIffLive == busy <=> \E r \in Runs : pc[r] \in Live

\* The SMA_*_DAYS variables hold the window of the run that is inside _run,
\* when it asked for one, and the base value at any other time.
Inside == Live \ {"claimed", "created", "scheduled"}
EnvScoped ==
    /\ \A r \in Runs : pc[r] \in Inside /\ job[r].days # 0 => env = job[r].days
    /\ (\A r \in Runs : pc[r] \in Inside => job[r].days = 0) => env = BaseWindow

\* A run that start has scheduled can be cancelled until it is over: its entry
\* in _cancel is there from create_task to the pop at the end of _run.
CancelRegistered ==
    \A r \in Runs : pc[r] \in Live \ {"claimed", "created"} => cancel[r] # "none"

\* A module reported ok or carried has its <module>.json on disk, whatever was
\* deleted, purged, carried or lost in a crash in between.
ReportedModulesHaveArtefacts ==
    \A r \in Runs, m \in Modules :
        meta[r].mods[m] \in {"ok", "carried"} => m \in art[r]

\* The status of a settled run tells the truth about its modules: ok means
\* every selected module is ok and every other one carried or absent, failed
\* means at least one failed, cancelled means none is still queued or running.
VerdictHonest ==
    \A r \in Runs : pc[r] = "over" =>
        LET states == {meta[r].mods[m] : m \in Modules}
        IN CASE meta[r].status = "ok" -> /\ states \subseteq {"ok", "carried", "none"}
                                         /\ \A m \in job[r].sel : meta[r].mods[m] = "ok"
             [] meta[r].status = "failed" -> "failed" \in states /\ InFlight \cap states = {}
             [] meta[r].status = "cancelled" -> InFlight \cap states = {}
             [] OTHER -> meta[r].status = "none"

\* The state of module m as a client that replays events.ndjson reconstructs it.
Replayed(r, m) ==
    LET about == {i \in 1..Len(log[r]) : m \in log[r][i].mods}
    IN IF about = {} THEN IF m \in job[r].sel THEN "queued" ELSE "none"
       ELSE log[r][CHOOSE i \in about : \A j \in about : j <= i].state

\* Whenever the event loop is free, replaying a run's event log gives the module
\* states of its run.json, and the log of a settled run ends with the one done
\* event, carrying run.json's status.
ReplayAgrees ==
    \A r \in Runs : pc[r] \in LoopAwaits \cup {"over"} /\ meta[r].status # "none" =>
        /\ \A m \in Modules : Replayed(r, m) = meta[r].mods[m]
        /\ LET dones == {i \in 1..Len(log[r]) : log[r][i].type = "done"}
           IN IF pc[r] = "over"
              THEN dones = {Len(log[r])} /\ log[r][Len(log[r])].state = meta[r].status
              ELSE dones = {}

\* The slot does not stay taken: under a fair event loop and analyzers that
\* terminate, a busy runner becomes free, also when the run's directory is
\* deleted under it.
SlotFreed == busy ~> ~busy

\* Every run that is queued or running reaches a verdict, is removed, or is cut
\* short by a restart.
RunSettles ==
    \A r \in Runs : meta[r].status \in InFlight
                        ~> meta[r].status \notin InFlight \/ pc[r] = "lost"

\* What a run reports at its end is what it left behind (JobRunner._run, the
\* status of run.json against the artefacts of the run directory).
ReportTrue == ReportedModulesHaveArtefacts /\ VerdictHonest
=============================================================================
