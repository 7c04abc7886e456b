---------------------------- MODULE MCJobRunner ----------------------------
(***************************************************************************)
(* The runs of JobRunner that need more than its own definitions: the      *)
(* refinement of RunBoard, and what web/api/runs.py says of deletes.       *)
(***************************************************************************)
EXTENDS JobRunner

LiveRuns == {r \in Runs : pc[r] \in Live}

Board == INSTANCE RunBoard WITH
    slot <- IF LiveRuns = {} THEN NoRun ELSE CHOOSE r \in LiveRuns : TRUE,
    board <- [r \in Runs |->
                IF meta[r].status # "none" THEN meta[r].status
                ELSE IF pc[r] \in {"unborn", "claimed", "refused"} THEN "new"
                ELSE "gone"]

\* Every behaviour of the runner, with cancels, "delete all" and restarts at
\* any point, is one the abstract board allows: statuses only move forward,
\* only the owner of the slot moves, and a purged run does not come back.
ImplementsBoard == Board!Spec

\* web/api/runs.py:102 says of DELETE /api/runs/{id}/data that it "Refuses
\* while the run is genuinely in flight": the call never treats a run as stale
\* while its coroutine is live.
DeleteSparesLiveRuns == del.pc = "stamp" => pc[del.run] \notin Live
=============================================================================
