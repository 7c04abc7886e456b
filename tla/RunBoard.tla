------------------------------ MODULE RunBoard ------------------------------
(***************************************************************************)
(* What the run lifecycle promises a client that only watches GET          *)
(* /api/runs: one slot; every run moves forward through queued, running    *)
(* and one verdict, only while it owns the slot; it may be removed at any  *)
(* time, and a removed run never comes back.                               *)
(***************************************************************************)
EXTENDS Naturals

CONSTANT MaxRuns
Runs == 1..MaxRuns
Verdicts == {"ok", "failed", "cancelled"}

VARIABLES slot,    \* the run that owns the runner, 0 when it is free
          board    \* board[r]: the status a client reads, "new" before, "gone" after

vars == <<slot, board>>

Init == slot = 0 /\ board = [r \in Runs |-> "new"]

Post(r, s) == board' = [board EXCEPT ![r] = s]

Take(r) == slot = 0 /\ board[r] = "new" /\ slot' = r /\ UNCHANGED board

Queue(r) == slot = r /\ board[r] = "new" /\ Post(r, "queued") /\ UNCHANGED slot

Begin(r) == slot = r /\ board[r] = "queued" /\ Post(r, "running") /\ UNCHANGED slot

Settle(r, v) == slot = r /\ board[r] = "running" /\ Post(r, v) /\ UNCHANGED slot

\* The slot is freed once the run has its verdict, was removed, or was never
\* put on the board.
Free == /\ slot # 0 /\ board[slot] \notin {"queued", "running"}
        /\ slot' = 0 /\ UNCHANGED board

\* A restart frees the slot whatever the run's status, and leaves the status.
Restart == slot # 0 /\ slot' = 0 /\ UNCHANGED board

\* A run cut short by a restart is closed as failed before it is removed.
Close(r) == slot # r /\ board[r] \in {"queued", "running"} /\ Post(r, "failed") /\ UNCHANGED slot

Remove(r) == board[r] \notin {"new", "gone"} /\ Post(r, "gone") /\ UNCHANGED slot

Next == \/ \E r \in Runs : \/ Take(r) \/ Queue(r) \/ Begin(r) \/ Close(r) \/ Remove(r)
                           \/ \E v \in Verdicts : Settle(r, v)
        \/ Free
        \/ Restart

Spec == Init /\ [][Next]_vars
=============================================================================
