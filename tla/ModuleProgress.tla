--------------------------- MODULE ModuleProgress ---------------------------
(***************************************************************************)
(* The progress of one running module: CallbackProgress (progress.py), the *)
(* throttled callback _emit of JobRunner._run (web/jobs.py), and the last  *)
(* snapshot kept in run.json (update_module_progress, web/storage.py).     *)
(*                                                                         *)
(* The threads of an analyzer share one reporter.  A call of theirs is     *)
(* four steps that interleave with those of the others: the counters under *)
(* the reporter's lock, the throttle under its own, the hand-over to the   *)
(* event loop, and the write of run.json under the repository's lock.  The *)
(* loop publishes what it is handed in order.                              *)
(***************************************************************************)
EXTENDS Integers, Sequences, SequencesExt

CONSTANTS
    Threads,       \* the analyzer's threads
    Scripts,       \* the analyzers: each gives every thread t a sequence of
                   \* "step", "grow" and "message"
    FirstTotal     \* the total the analyzer passes to start

ASSUME ScriptAssumption ==
    /\ Scripts # {} /\ Scripts \subseteq [Threads -> Seq({"step", "grow", "message"})]
    /\ FirstTotal \in Nat

Snapshots == [current : Nat, total : Nat, message : BOOLEAN]
Finished == [finished |-> TRUE]     \* the module_finished event

VARIABLES
    script,      \* the analyzer that is running
    counter,     \* the reporter's fields (message: whether there is one)
    todo,        \* todo[t]: the rest of t's script
    stage,       \* stage[t]: where t stands in a call
    snap,        \* snap[t]: the snapshot of t's call
    handed,       \* the callbacks handed to the event loop
    shown,   \* the module's events, in the order _publish got them
    persisted    \* the module's progress in run.json

progressVars == <<script, counter, todo, stage, snap, handed, shown, persisted>>

Zero == [current |-> 0, total |-> 0, message |-> FALSE]

\* The analyzer's thread has called start and its snapshot is on its way.
ProgressInit ==
    /\ counter = [Zero EXCEPT !.total = FirstTotal]
    /\ script \in Scripts /\ todo = script
    /\ stage = [t \in Threads |-> "idle"]
    /\ snap = [t \in Threads |-> Zero]
    /\ handed = <<[Zero EXCEPT !.total = FirstTotal]>>
    /\ shown = <<>>
    /\ persisted = [Zero EXCEPT !.total = FirstTotal]

----------------------------------------------------------------------------
\* step, add_total and message: what they do to the counters.
CountedOn(call) ==
    CASE call = "step" -> [counter EXCEPT !.current = @ + 1]
      [] call = "grow" -> [counter EXCEPT !.total = @ + 1]
      [] call = "message" -> [counter EXCEPT !.message = TRUE]

\* Mutant: the snapshot is taken before the counters move.
UpdateStale(t) ==
    /\ stage[t] = "idle" /\ todo[t] # <<>>
    /\ counter' = CountedOn(Head(todo[t]))
    /\ snap' = [snap EXCEPT ![t] = counter]
    /\ stage' = [stage EXCEPT ![t] = "throttle"]
    /\ UNCHANGED <<script, todo, handed, shown, persisted>>

\* A call updates the counters and takes its snapshot under the lock.
Update(t) ==
    /\ stage[t] = "idle" /\ todo[t] # <<>>
    /\ counter' = CountedOn(Head(todo[t]))
    /\ snap' = [snap EXCEPT ![t] = counter']
    /\ stage' = [stage EXCEPT ![t] = "throttle"]
    /\ UNCHANGED <<script, todo, handed, shown, persisted>>

Complete(s) == s.total > 0 /\ s.current >= s.total

\* Mutant: completion is throttled like any other step.
PassesUnlessEarly(s, elapsed) == elapsed \/ s.message

\* The throttle lets a snapshot through when its window has elapsed, on
\* completion, and when the snapshot carries a message.  (start has already
\* set last_emit_ts.)
Passes(s, elapsed) == elapsed \/ Complete(s) \/ s.message

\* The snapshot is emitted or the call is over.
Throttle(t) ==
    /\ stage[t] = "throttle"
    /\ \E elapsed \in BOOLEAN :
          LET emitted == Passes(snap[t], elapsed)
          IN /\ stage' = [stage EXCEPT ![t] = IF emitted THEN "hand" ELSE "idle"]
             /\ todo' = IF emitted THEN todo ELSE [todo EXCEPT ![t] = Tail(@)]
    /\ UNCHANGED <<script, counter, snap, handed, shown, persisted>>

\* call_soon_threadsafe(self._publish, ...)
HandOver(t) ==
    /\ stage[t] = "hand"
    /\ handed' = Append(handed, snap[t])
    /\ stage' = [stage EXCEPT ![t] = "persist"]
    /\ UNCHANGED <<script, counter, todo, snap, shown, persisted>>

\* update_module_progress
Persist(t) ==
    /\ stage[t] = "persist"
    /\ persisted' = snap[t]
    /\ stage' = [stage EXCEPT ![t] = "idle"]
    /\ todo' = [todo EXCEPT ![t] = Tail(@)]
    /\ UNCHANGED <<script, counter, snap, handed, shown>>

Joined == \A t \in Threads : stage[t] = "idle" /\ todo[t] = <<>>
ReportedBy == Finished \in ToSet(handed \o shown)

\* Mutant: module_finished is shown at once, not handed to the loop.
ReturnPublishes ==
    /\ Joined /\ ~ReportedBy
    /\ shown' = Append(shown, Finished)
    /\ UNCHANGED <<script, counter, todo, stage, snap, handed, persisted>>

\* The analyzer's threads are joined and the worker's result is handed to the
\* loop the way the snapshots were; its callback publishes module_finished.
Return ==
    /\ Joined /\ ~ReportedBy
    /\ handed' = Append(handed, Finished)
    /\ UNCHANGED <<script, counter, todo, stage, snap, shown, persisted>>

\* The loop runs the next callback.
LoopPublish ==
    /\ handed # <<>>
    /\ shown' = Append(shown, Head(handed))
    /\ handed' = Tail(handed)
    /\ UNCHANGED <<script, counter, todo, stage, snap, persisted>>

ProgressNext == \/ \E t \in Threads : Update(t) \/ Throttle(t) \/ HandOver(t) \/ Persist(t)
        \/ Return \/ LoopPublish

ProgressSpec == ProgressInit /\ [][ProgressNext]_progressVars

----------------------------------------------------------------------------
(* Properties.                                                              *)

\* No progress event of the module follows its module_finished, although the
\* snapshots come from several threads and the throttle lets some through late.
NothingAfterFinish ==
    \A i \in 1..Len(shown) : shown[i] = Finished => i = Len(shown)

Over == Finished \in ToSet(shown)

\* When the module did all it announced, a page that followed it was shown the
\* completed bar, however the throttle and the threads fell.
CompletionShown ==
    Over /\ Complete(counter) => \E s \in ToSet(shown) \ {Finished} : s = counter

\* An analyzer that reports from one thread.
Solo == \E t \in Threads : \A u \in Threads \ {t} : script[u] = <<>>

\* With one thread what remains in run.json, and on the page, after the module
\* completed are its final counters.
FinalSnapshotExact ==
    Solo /\ Over /\ Complete(counter) => /\ persisted = counter
                                         /\ shown[Len(shown) - 1] = counter

\* What a page and run.json show of a module that is over is its end
\* (CallbackProgress, _emit of JobRunner._run).
ProgressTrue == NothingAfterFinish /\ CompletionShown /\ FinalSnapshotExact

=============================================================================
