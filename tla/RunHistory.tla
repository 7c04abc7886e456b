----------------------------- MODULE RunHistory -----------------------------
(***************************************************************************)
(* The run directory over many runs: what a run carries forward from an    *)
(* earlier one (web/jobs.py, _carry_forward_from_prior, and                *)
(* latest_for_workspace of web/storage.py), per-row delete, and the export *)
(* and import of web/archive.py.                                           *)
(*                                                                         *)
(* Runs of several workspaces follow one another, one at a time.  A run is *)
(* two steps here, its carry-forward and its outcome (JobRunner has the    *)
(* steps between); an import is one step per run of the archive, because   *)
(* deletes interleave with it (it holds the event loop, so no run begins   *)
(* or ends meanwhile).  A restart may fall anywhere.                       *)
(*                                                                         *)
(* An artefact is represented by the moment its analyzer run started: two  *)
(* <module>.json files are the same exactly when these are equal.          *)
(***************************************************************************)
EXTENDS Naturals, FiniteSets

CONSTANTS
    MaxRuns,      \* run ids 1..MaxRuns; an id is the moment it was given out
    Modules,
    Workspaces,   \* the identities, records [sub, name, ...] of RunMeta's fields
    Outcomes,     \* how an executed module may end: "ok", "failed", "cancelled",
                  \* or "late", failed after <module>.json was written
    Layouts,      \* subset of {"flat", "scoped"}: one scope, several scopes
    Modes,        \* the import modes in use
    MaxDeletes, MaxExports, MaxImports, MaxRestarts    \* bounds on calls

ASSUME RunHistoryAssumption ==
    /\ MaxRuns \in Nat
    /\ Workspaces # {}
    /\ Outcomes \subseteq {"ok", "failed", "cancelled", "late"}
    /\ Layouts \subseteq {"flat", "scoped"}
    /\ Modes \subseteq {"skip_existing", "overwrite", "rename"}

Ids == 1..MaxRuns
None == 0

VARIABLES
    runs,      \* runs[i]: the run directory with id i
    next,      \* the next id to be given out
    current,   \* the run in flight in this process
    archive,   \* the downloaded export
    import,    \* the import being served
    calls      \* how often each bounded action has happened

vars == <<runs, next, current, archive, import, calls>>

NoFiles == [m \in Modules |-> None]

\* born: started_at.  state: the ModuleStatus entries.  from: carried_from.
\* since: carried_from_started_at.  file: <module>.json at the top level.
NoDir == [on |-> FALSE, ws |-> CHOOSE w \in Workspaces : TRUE, layout |-> "flat",
          status |-> "none", born |-> None, state |-> [m \in Modules |-> "none"],
          from |-> NoFiles, since |-> NoFiles, file |-> NoFiles]

Idle == [on |-> FALSE, mode |-> "skip_existing", left |-> {}, removed |-> FALSE]

Init ==
    /\ runs = [i \in Ids |-> NoDir]
    /\ next = 1
    /\ current = None
    /\ archive = [i \in Ids |-> NoDir]
    /\ import = Idle
    /\ calls = [deletes |-> 0, exports |-> 0, imports |-> 0, restarts |-> 0]

----------------------------------------------------------------------------
(* A run.                                                                   *)

\* Mutant: the subscription is not compared.
SameNameOnly(a, b) == a.name = b.name

\* The identity test of latest_for_workspace.
SameIdentity(a, b) == a = b

\* Mutant: cancelled runs are sources too.
SourceStatusAny == {"ok", "failed", "cancelled"}
SourceStatus == {"ok", "failed"}

\* What latest_for_workspace accepts.
Sources(w) == {i \in Ids : /\ runs[i].on /\ runs[i].status \in SourceStatus
                           /\ SameIdentity(runs[i].ws, w)}

\* latest_for_workspace, newest id first: its one result, or None.
Prior(w) == IF Sources(w) = {} THEN {None}
            ELSE {i \in Sources(w) : \A j \in Sources(w) : j <= i}

\* Mutant: the producer is the run the file was copied from.
ProducerIsPrior(p, m) == p

\* prior.carried_from.get(module, prior.id)
Producer(p, m) == IF runs[p].from[m] # None THEN runs[p].from[m] ELSE p

\* Mutant: a carried file is dated with the run it was copied from.
ProducedAtPrior(p, m) == runs[p].born

\* carried_from_started_at of the prior's entry when it carried the module
\* itself, otherwise the time at which the prior ran it.
ProducedAt(p, m) == IF runs[p].state[m] = "carried" THEN runs[p].since[m] ELSE runs[p].born

\* What the new run copies: the modules not selected that the prior run has a
\* file of.
Carried(p, sel) == {m \in Modules \ sel : p # None /\ runs[p].file[m] # None}

\* The directory of a run of sel that carries from p.
Begun(w, sel, layout, p) ==
    [on |-> TRUE, ws |-> w, layout |-> layout, status |-> "running", born |-> next,
     state |-> [m \in Modules |-> IF m \in sel THEN "queued"
                                  ELSE IF m \in Carried(p, sel) THEN "carried" ELSE "none"],
     from  |-> [m \in Modules |-> IF m \in Carried(p, sel) THEN Producer(p, m) ELSE None],
     since |-> [m \in Modules |-> IF m \in Carried(p, sel) THEN ProducedAt(p, m) ELSE None],
     file  |-> [m \in Modules |-> IF m \in Carried(p, sel) THEN runs[p].file[m] ELSE None]]

\* start and the carry-forward.
RunBegins(w, sel, layout) ==
    /\ current = None /\ ~import.on /\ next \in Ids
    /\ \E p \in Prior(w) : runs' = [runs EXCEPT ![next] = Begun(w, sel, layout, p)]
    /\ current' = next
    /\ next' = next + 1
    /\ UNCHANGED <<archive, import, calls>>

Queued(i) == {m \in Modules : runs[i].state[m] = "queued"}

\* Mutant: a run some of whose modules failed is partial, as the manual shows it.
VerdictPartial(how, cut) ==
    IF cut THEN "cancelled" ELSE IF how \cap {"failed", "late"} # {} THEN "partial" ELSE "ok"

Verdict(how, cut) ==
    IF cut THEN "cancelled" ELSE IF how \cap {"failed", "late"} # {} THEN "failed" ELSE "ok"

\* The directory of the run in flight once its modules have run: a flat run has
\* the files they wrote at its top level, a run of several scopes has them in
\* its scope directories.
Ended(out, cut) ==
    [runs[current] EXCEPT
        !.status = Verdict({out[m] : m \in Queued(current)}, cut),
        !.state = [m \in Modules |-> IF m \notin Queued(current) THEN runs[current].state[m]
                                     ELSE IF out[m] = "late" THEN "failed" ELSE out[m]],
        !.file = [m \in Modules |->
            IF m \in Queued(current) /\ out[m] \in {"ok", "late"} /\ runs[current].layout = "flat"
            THEN runs[current].born ELSE runs[current].file[m]]]

\* A cancel (cut) takes effect between modules, or comes too late for any.
RunEnds(out, cut) ==
    /\ current # None /\ ~import.on
    /\ cut => "cancelled" \in Outcomes
    /\ "cancelled" \in {out[m] : m \in Queued(current)} => cut
    /\ runs' = [runs EXCEPT ![current] = Ended(out, cut)]
    /\ current' = None
    /\ UNCHANGED <<next, archive, import, calls>>

\* DELETE /api/runs/{id}/data of a run that is not in flight, or that a restart
\* left in flight.
Delete(i) ==
    /\ calls.deletes < MaxDeletes
    /\ runs[i].on /\ i # current
    /\ runs' = [runs EXCEPT ![i] = NoDir]
    /\ calls' = [calls EXCEPT !.deletes = @ + 1]
    /\ UNCHANGED <<next, current, archive, import>>

----------------------------------------------------------------------------
(* Export and import.                                                       *)

\* Every run directory as it is, the one in flight included.
Export ==
    /\ ~import.on /\ calls.exports < MaxExports
    /\ \E i \in Ids : runs[i].on
    /\ archive' = runs
    /\ calls' = [calls EXCEPT !.exports = @ + 1]
    /\ UNCHANGED <<runs, next, current, import>>

ImportBegins(mode) ==
    /\ ~import.on
    /\ calls.imports < MaxImports
    /\ \E i \in Ids : archive[i].on
    /\ import' = [on |-> TRUE, mode |-> mode, left |-> {i \in Ids : archive[i].on},
                  removed |-> FALSE]
    /\ calls' = [calls EXCEPT !.imports = @ + 1]
    /\ UNCHANGED <<runs, next, current, archive>>

\* The run of the archive the import is at.
AtHand(i) == import.on /\ i \in import.left /\ \A j \in import.left : i <= j

\* It is done with; the last one ends the import.
ImportNext(i) == import' = IF import.left = {i} THEN Idle
                           ELSE [import EXCEPT !.left = @ \ {i}, !.removed = FALSE]

\* Mutant: whether the existing run is in flight is not looked at.
BlockedNever(i) == FALSE

\* The existing run is in flight, or a restart left it so.
Blocked(i) == runs[i].on /\ runs[i].status = "running"

\* The import stops with what it has done.
ImportRefused(i) ==
    /\ AtHand(i) /\ Blocked(i)
    /\ import' = Idle
    /\ UNCHANGED <<runs, next, current, archive, calls>>

ImportSkips(i) ==
    /\ AtHand(i) /\ runs[i].on /\ ~Blocked(i)
    /\ import.mode = "skip_existing"
    /\ ImportNext(i)
    /\ UNCHANGED <<runs, next, current, archive, calls>>

\* The incoming run gets a fresh id; nothing but run.json's id changes.
ImportRenames(i) ==
    /\ AtHand(i) /\ runs[i].on /\ ~Blocked(i)
    /\ import.mode = "rename"
    /\ next \in Ids
    /\ runs' = [runs EXCEPT ![next] = archive[i]]
    /\ next' = next + 1
    /\ ImportNext(i)
    /\ UNCHANGED <<current, archive, calls>>

\* overwrite: remove the existing directory, then move the new one into place.
ImportRemoves(i) ==
    /\ AtHand(i) /\ runs[i].on /\ ~Blocked(i)
    /\ import.mode = "overwrite"
    /\ runs' = [runs EXCEPT ![i] = NoDir]
    /\ import' = [import EXCEPT !.removed = TRUE]
    /\ UNCHANGED <<next, current, archive, calls>>

\* There is no run with that id (any more).
ImportPlaces(i) ==
    /\ AtHand(i) /\ ~runs[i].on
    /\ runs' = [runs EXCEPT ![i] = archive[i]]
    /\ ImportNext(i)
    /\ UNCHANGED <<next, current, archive, calls>>

----------------------------------------------------------------------------
\* The process dies and is started again; the download stays with the user.
Restart ==
    /\ calls.restarts < MaxRestarts
    /\ current # None \/ import.on
    /\ current' = None
    /\ import' = Idle
    /\ calls' = [calls EXCEPT !.restarts = @ + 1]
    /\ UNCHANGED <<runs, next, archive>>

Import(i) == ImportRefused(i) \/ ImportSkips(i) \/ ImportRenames(i) \/ ImportRemoves(i)
             \/ ImportPlaces(i)

Next ==
    \/ \E w \in Workspaces, sel \in SUBSET Modules \ {{}}, l \in Layouts : RunBegins(w, sel, l)
    \/ \E out \in [Modules -> Outcomes], cut \in BOOLEAN : RunEnds(out, cut)
    \/ \E i \in Ids : Delete(i) \/ Import(i)
    \/ \E mode \in Modes : ImportBegins(mode)
    \/ Export \/ Restart

Spec == Init /\ [][Next]_vars

----------------------------------------------------------------------------
(* Properties.                                                              *)

States == {"none", "queued", "ok", "failed", "cancelled", "carried"}
RunType == [on : BOOLEAN, ws : Workspaces, layout : {"flat", "scoped"},
            status : {"none", "running", "ok", "failed", "cancelled"}, born : Ids \cup {None},
            state : [Modules -> States], from : [Modules -> Ids \cup {None}],
            since : [Modules -> Ids \cup {None}], file : [Modules -> Ids \cup {None}]]

\* The type of every variable.
TypeOK ==
    /\ runs \in [Ids -> RunType] /\ archive \in [Ids -> RunType]
    /\ next \in 1..(MaxRuns + 1) /\ current \in Ids \cup {None}
    /\ import \in [on : BOOLEAN, mode : {"skip_existing", "overwrite", "rename"},
                   left : SUBSET Ids, removed : BOOLEAN]
    /\ calls \in [deletes : Nat, exports : Nat, imports : Nat, restarts : Nat]

\* The age a carried artefact is shown with is the time its analyzer ran, along
\* any chain of carries, imports under a new id, deletes and restarts.
CarriedAgeTrue ==
    \A i \in Ids, m \in Modules :
        runs[i].state[m] = "carried" => runs[i].since[m] = runs[i].file[m]

\* The run a carried artefact is attributed to produced it: it did not carry
\* it itself ("the carry chain collapses to the original producer"), and the
\* file it has, if it is still there, is that very artefact.
CarryNamesProducer ==
    \A i \in Ids, m \in Modules :
        LET s == runs[i].from[m]
        IN runs[i].state[m] = "carried" =>
             /\ s # None
             /\ runs[s].on => /\ runs[s].state[m] # "carried"
                             /\ runs[s].file[m] \in {None, runs[i].file[m]}

\* No artefact of one workspace is ever found in a run of another.
WorkspaceIsolated ==
    \A i, j \in Ids, m \in Modules :
        runs[i].on /\ runs[j].on /\ runs[i].file[m] # None /\ runs[i].file[m] = runs[j].file[m]
            => runs[i].ws = runs[j].ws

\* The settled runs of the workspace of i.
DoneRuns(i) == {j \in Ids : runs[j].on /\ runs[j].status \in {"ok", "failed"}
                            /\ runs[j].ws = runs[i].ws}

\* While no module fails and nothing is imported, a run that begins holds of
\* every module it does not execute the newest artefact any settled run of its
\* workspace has.
CarryNewest ==
    current # None =>
        \A m \in Modules \ Queued(current), j \in DoneRuns(current) :
            runs[j].file[m] <= runs[current].file[m]

\* An import leaves the run in flight alone, and in the modes skip_existing
\* and rename every other run that is there as well.
ImportKeepsRuns ==
    [][import.on => \A i \in Ids :
          (i = current \/ import.mode # "overwrite") /\ runs[i].on /\ calls'.deletes = calls.deletes
              => runs'[i] = runs[i]]_vars

=============================================================================
