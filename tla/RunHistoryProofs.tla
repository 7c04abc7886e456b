-------------------------- MODULE RunHistoryProofs --------------------------
(***************************************************************************)
(* Proofs about RunHistory, for any number of runs, modules, workspaces,   *)
(* deletes, exports, imports and restarts: what a carried artefact says of *)
(* its age and origin is true, workspaces do not mix, an import leaves     *)
(* the runs it has no business with alone, and what is carried is the      *)
(* newest there is.                                                        *)
(***************************************************************************)
EXTENDS RunHistory, TLAPS

(***************************************************************************)
(* Every property is about the run directories on disk and in the archive. *)
(* A step gives a new value to at most one of the directories, so the      *)
(* steps fall into the seven kinds below; each part of the invariant is    *)
(* shown for each kind once, in a lemma, and the rest is bookkeeping.      *)
(***************************************************************************)

Stores == {runs, archive}

\* An artefact is the run's own unless it is carried, and then its age is known.
AgedDir(d) ==
    \A m \in Modules :
        /\ d.state[m] = "carried" => d.since[m] = d.file[m] /\ d.from[m] # None
        /\ d.state[m] # "carried" => d.file[m] \in {None, d.born} /\ d.from[m] = None
Aged == \A f \in Stores, i \in Ids : AgedDir(f[i])

\* Ids, and with them artefacts, are given out in order.
Before(d, n) == \A m \in Modules : d.file[m] < n /\ d.from[m] < n
Issued == \A f \in Stores, i \in Ids : Before(f[i], next) /\ (f[i].on => i < next)

\* The run in flight has its directory and has no artefact of its own yet.
InFlight ==
    current # None =>
        /\ runs[current].on /\ runs[current].status = "running"
        /\ runs[current].born = current /\ current < next
        /\ \A f \in Stores, i \in Ids, m \in Modules : f[i].file[m] # current

\* A run on disk and the run of its id in the archive are the same run, maybe
\* at different moments.
Alike(d, e) == d.born = e.born /\ \A m \in Modules : d.state[m] = "carried" <=> e.state[m] = "carried"
SameRun == \A i \in Ids : runs[i].on /\ archive[i].on => Alike(runs[i], archive[i])

\* The run a carried artefact is attributed to, wherever it is, produced it.
Produced(d, m, e) == e.on => e.state[m] # "carried" /\ e.born = d.file[m]
Attributed ==
    \A f, g \in Stores, i \in Ids, m \in Modules :
        f[i].state[m] = "carried" => Produced(f[i], m, g[f[i].from[m]])

\* Directories that share an artefact are of one workspace.
Shared(d, e) == \E m \in Modules : d.file[m] # None /\ d.file[m] = e.file[m]
Owned == \A f, g \in Stores, i, j \in Ids : Shared(f[i], g[j]) => f[i].ws = g[j].ws

\* The runs an import still has to deal with are in the archive.
Listed == import.on => \A i \in import.left : archive[i].on

----------------------------------------------------------------------------
(* Types.                                                                   *)

ImportType == [on : BOOLEAN, mode : {"skip_existing", "overwrite", "rename"},
               left : SUBSET Ids, removed : BOOLEAN]
CallsType == [deletes : Nat, exports : Nat, imports : Nat, restarts : Nat]

LEMMA NoDirType == NoDir \in RunType
BY RunHistoryAssumption DEF RunHistoryAssumption, NoDir, NoFiles, RunType, States, None

LEMMA PriorType == \A w \in Workspaces : Prior(w) \subseteq Ids \cup {None}
BY DEF Prior, Sources

LEMMA BeginsShape ==
    ASSUME NEW w \in Workspaces, NEW sel \in SUBSET Modules, NEW l \in Layouts, RunBegins(w, sel, l)
    PROVE  \E p \in Prior(w) : runs' = [runs EXCEPT ![next] = Begun(w, sel, l, p)]
BY DEF RunBegins

LEMMA EndsShape ==
    ASSUME NEW out \in [Modules -> Outcomes], NEW cut \in BOOLEAN, RunEnds(out, cut)
    PROVE  runs' = [runs EXCEPT ![current] = Ended(out, cut)]
BY DEF RunEnds

LEMMA BegunType ==
    ASSUME TypeOK, next \in Ids, NEW w \in Workspaces, NEW sel \in SUBSET Modules,
           NEW l \in Layouts, NEW p \in Prior(w)
    PROVE  Begun(w, sel, l, p) \in RunType
<1> DEFINE d == Begun(w, sel, l, p)
<1>1. p \in Ids \cup {None}
  BY PriorType
<1>2. \A m \in Carried(p, sel) : runs[p] \in RunType
  BY <1>1 DEF Carried, TypeOK
<1>3. \A m \in Carried(p, sel) : Producer(p, m) \in Ids \cup {None}
  BY <1>1, <1>2 DEF Producer, RunType, Carried
<1>4. \A m \in Carried(p, sel) : ProducedAt(p, m) \in Ids \cup {None}
  BY <1>1, <1>2 DEF ProducedAt, RunType, Carried
<1>5. \A m \in Carried(p, sel) : runs[p].file[m] \in Ids \cup {None}
  BY <1>1, <1>2 DEF RunType, Carried
<1>6. d.state \in [Modules -> States]
  BY DEF Begun, States
<1>7. d.from \in [Modules -> Ids \cup {None}]
  BY <1>3 DEF Begun
<1>8. d.since \in [Modules -> Ids \cup {None}]
  BY <1>4 DEF Begun
<1>9. d.file \in [Modules -> Ids \cup {None}]
  BY <1>5 DEF Begun
<1>10. l \in {"flat", "scoped"}
  BY RunHistoryAssumption DEF RunHistoryAssumption
<1> QED
  BY <1>6, <1>7, <1>8, <1>9, <1>10 DEF Begun, RunType

LEMMA EndedType ==
    ASSUME TypeOK, current # None, NEW out \in [Modules -> Outcomes], NEW cut \in BOOLEAN
    PROVE  Ended(out, cut) \in RunType
<1> DEFINE d == Ended(out, cut)
<1>1. runs[current] \in RunType
  BY DEF TypeOK
<1>2. Verdict({out[m] : m \in Queued(current)}, cut) \in {"ok", "failed", "cancelled"}
  BY DEF Verdict
<1>3. [m \in Modules |-> IF m \notin Queued(current) THEN runs[current].state[m]
                         ELSE IF out[m] = "late" THEN "failed" ELSE out[m]] \in [Modules -> States]
  BY <1>1, RunHistoryAssumption DEF RunHistoryAssumption, RunType, States
<1>4. [m \in Modules |->
         IF m \in Queued(current) /\ out[m] \in {"ok", "late"} /\ runs[current].layout = "flat"
         THEN runs[current].born ELSE runs[current].file[m]] \in [Modules -> Ids \cup {None}]
  BY <1>1 DEF RunType
<1> QED
  BY <1>1, <1>2, <1>3, <1>4 DEF Ended, RunType

----------------------------------------------------------------------------
(* One directory changes.                                                   *)

IInv == TypeOK /\ Aged /\ Issued /\ InFlight /\ SameRun /\ Attributed /\ Owned

\* What the new value d of the directory i has to satisfy.
Fits(d, i) ==
    /\ AgedDir(d)
    /\ archive[i].on /\ d.on => Alike(d, archive[i])
    /\ \A m \in Modules : d.state[m] = "carried" =>
          d.from[m] # i /\ \A g \in Stores : Produced(d, m, g[d.from[m]])
    /\ \A g \in Stores, j \in Ids, m \in Modules :
          g[j].state[m] = "carried" /\ g[j].from[m] = i => Produced(g[j], m, d)
    /\ \A g \in Stores, j \in Ids : Shared(d, g[j]) => d.ws = g[j].ws

LEMMA PutDir ==
    ASSUME IInv, NEW i \in Ids, NEW d \in RunType, Fits(d, i),
           runs' = [runs EXCEPT ![i] = d], archive' = archive
    PROVE  Aged' /\ SameRun' /\ Attributed' /\ Owned'
<1>1. runs' \in [Ids -> RunType] /\ archive \in [Ids -> RunType] /\ runs \in [Ids -> RunType]
  BY DEF IInv, TypeOK
<1>2. runs'[i] = d /\ \A j \in Ids \ {i} : runs'[j] = runs[j]
  BY <1>1
<1>3. Aged'
  <2>1. \A j \in Ids : AgedDir(archive[j]) /\ AgedDir(runs[j])
    BY DEF IInv, Aged, Stores
  <2>2. \A j \in Ids : AgedDir(runs'[j])
    BY <1>2, <2>1 DEF Fits
  <2>3. ASSUME NEW f \in Stores', NEW j \in Ids PROVE AgedDir(f[j])
    BY <2>1, <2>2 DEF Stores
  <2> QED
    BY <2>3 DEF Aged, AgedDir
<1>4. SameRun'
  BY <1>2 DEF IInv, SameRun, Alike, Fits
<1>5. Attributed'
  <2> SUFFICES ASSUME NEW f \in Stores', NEW g \in Stores', NEW j \in Ids, NEW m \in Modules,
                      f[j].state[m] = "carried"
               PROVE  Produced(f[j], m, g[f[j].from[m]])
    BY DEF Attributed, Produced
  <2>1. f[j].from[m] \in Ids
    <3>1. AgedDir(f[j])
      BY <1>3 DEF Aged
    <3>2. f[j] \in RunType
      BY <1>1 DEF Stores
    <3> QED
      BY <3>1, <3>2 DEF AgedDir, RunType
  <2>2. CASE f[j] = d /\ f = runs'
    <3>1. d.from[m] # i /\ \A h \in Stores : Produced(d, m, h[d.from[m]])
      BY <2>2 DEF Fits
    <3> QED
      BY <2>1, <2>2, <3>1, <1>2 DEF Stores
  <2>3. CASE \E h \in Stores : f[j] = h[j]
    <3> PICK h \in Stores : f[j] = h[j]
      BY <2>3
    <3>1. \A k \in Stores : Produced(h[j], m, k[h[j].from[m]])
      BY DEF IInv, Attributed
    <3>2. CASE g = runs' /\ f[j].from[m] = i
      BY <3>2, <1>2 DEF Fits
    <3>3. CASE g = archive \/ f[j].from[m] # i
      BY <3>3, <3>1, <2>1, <1>2 DEF Stores
    <3> QED
      BY <3>2, <3>3 DEF Stores
  <2> QED
    BY <2>2, <2>3, <1>2 DEF Stores
<1>6. Owned'
  <2> SUFFICES ASSUME NEW f \in Stores', NEW g \in Stores', NEW j \in Ids, NEW k \in Ids,
                      Shared(f[j], g[k])
               PROVE  f[j].ws = g[k].ws
    BY DEF Owned, Shared
  <2>1. f[j] = d \/ \E h \in Stores : f[j] = h[j]
    BY <1>2 DEF Stores
  <2>2. g[k] = d \/ \E h \in Stores : g[k] = h[k]
    BY <1>2 DEF Stores
  <2>3. Shared(g[k], f[j])
    BY DEF Shared
  <2>4. CASE f[j] = d /\ g[k] = d
    BY <2>4
  <2>5. CASE f[j] = d /\ \E h \in Stores : g[k] = h[k]
    BY <2>5 DEF Fits
  <2>6. CASE g[k] = d /\ \E h \in Stores : f[j] = h[j]
    BY <2>3, <2>6 DEF Fits
  <2>7. CASE (\E h \in Stores : f[j] = h[j]) /\ (\E h \in Stores : g[k] = h[k])
    BY <2>7 DEF IInv, Owned
  <2> QED
    BY <2>1, <2>2, <2>4, <2>5, <2>6, <2>7
<1> QED
  BY <1>3, <1>4, <1>5, <1>6

\* What every directory of either store offers when it is moved to another id.
LEMMA NoDirFits == ASSUME IInv, NEW i \in Ids PROVE Fits(NoDir, i)
<1>1. \A m \in Modules : NoDir.state[m] = "none" /\ NoDir.from[m] = None /\ NoDir.file[m] = None
  BY DEF NoDir, NoFiles
<1>2. ~NoDir.on
  BY DEF NoDir
<1>3. \A g \in Stores, j \in Ids : ~Shared(NoDir, g[j])
  BY <1>1 DEF Shared
<1> QED
  BY <1>1, <1>2, <1>3 DEF Fits, AgedDir, Produced

\* No directory names one that has not been there yet.
LEMMA NextUnnamed ==
    ASSUME IInv, NEW f \in Stores, NEW j \in Ids, NEW m \in Modules
    PROVE  f[j].from[m] # next /\ f[j].file[m] # next
<1>1. f[j] \in RunType
  BY DEF IInv, TypeOK, Stores
<1>2. f[j].from[m] < next /\ f[j].file[m] < next /\ next \in Nat
  BY DEF IInv, Issued, Before, TypeOK
<1>3. f[j].from[m] \in Nat /\ f[j].file[m] \in Nat
  BY <1>1, RunHistoryAssumption DEF RunType, Ids, None, RunHistoryAssumption
<1> QED
  BY <1>2, <1>3

\* rename: a directory of the archive under the next id.
LEMMA RenamedFits ==
    ASSUME IInv, next \in Ids, NEW i \in Ids
    PROVE  Fits(archive[i], next)
<1>1. ~archive[next].on /\ ~runs[next].on
  <2>1. next \in Nat
    BY DEF IInv, TypeOK
  <2> QED
    BY <2>1 DEF IInv, Issued, Stores
<1>2. AgedDir(archive[i])
  BY DEF IInv, Aged, Stores
<1>3. \A m \in Modules : archive[i].state[m] = "carried" =>
          archive[i].from[m] # next /\ \A g \in Stores : Produced(archive[i], m, g[archive[i].from[m]])
  BY NextUnnamed DEF IInv, Attributed, Stores
<1>4. \A g \in Stores, j \in Ids, m \in Modules : g[j].from[m] # next
  BY NextUnnamed
<1>5. \A g \in Stores, j \in Ids : Shared(archive[i], g[j]) => archive[i].ws = g[j].ws
  BY DEF IInv, Owned, Stores
<1> QED
  BY <1>1, <1>2, <1>3, <1>4, <1>5 DEF Fits

\* A directory of the archive under its own id.
LEMMA PlacedFits ==
    ASSUME IInv, NEW i \in Ids, archive[i].on
    PROVE  Fits(archive[i], i)
<1>1. Alike(archive[i], archive[i])
  BY DEF Alike
<1>2. AgedDir(archive[i])
  BY DEF IInv, Aged, Stores
<1>3. \A m \in Modules : archive[i].state[m] = "carried" =>
          archive[i].from[m] # i /\ \A g \in Stores : Produced(archive[i], m, g[archive[i].from[m]])
  <2> TAKE m \in Modules
  <2> HAVE archive[i].state[m] = "carried"
  <2>1. \A g \in Stores : Produced(archive[i], m, g[archive[i].from[m]])
    BY DEF IInv, Attributed, Stores
  <2>2. archive[i].from[m] # i
    BY <2>1 DEF Produced, Stores
  <2> QED
    BY <2>1, <2>2
<1>4. \A g \in Stores, j \in Ids, m \in Modules :
          g[j].state[m] = "carried" /\ g[j].from[m] = i => Produced(g[j], m, archive[i])
  BY DEF IInv, Attributed, Stores
<1>5. \A g \in Stores, j \in Ids : Shared(archive[i], g[j]) => archive[i].ws = g[j].ws
  BY DEF IInv, Owned, Stores
<1> QED
  BY <1>1, <1>2, <1>3, <1>4, <1>5 DEF Fits

\* The directory of a run that begins.
LEMMA BegunFits ==
    ASSUME IInv, next \in Ids, NEW w \in Workspaces, NEW sel \in SUBSET Modules,
           NEW l \in Layouts, NEW p \in Prior(w)
    PROVE  Fits(Begun(w, sel, l, p), next)
<1> DEFINE d == Begun(w, sel, l, p)
           q == runs[p]
           C == Carried(p, sel)
<1>1. \A m \in Modules :
         /\ d.state[m] = "carried" <=> m \in C
         /\ m \in C => /\ d.file[m] = q.file[m] /\ d.from[m] = Producer(p, m)
                      /\ d.since[m] = ProducedAt(p, m)
         /\ m \notin C => d.file[m] = None /\ d.from[m] = None
  BY DEF Begun, Carried
<1>2. \A m \in C : m \in Modules /\ p \in Ids /\ p # None /\ q.on /\ q.ws = w /\ q.file[m] # None
  BY DEF Carried, Prior, Sources, SameIdentity, None, Ids
<1>3. \A m \in C : AgedDir(q) /\ p # next
  <2>1. p \in Ids => AgedDir(q)
    BY DEF IInv, Aged, Stores
  <2>2. p \in Ids /\ q.on => p < next
    BY DEF IInv, Issued, Stores
  <2>3. next \in Nat
    BY DEF IInv, TypeOK
  <2> QED
    BY <1>2, <2>1, <2>2, <2>3
<1>4. d.on = TRUE /\ d.ws = w
  BY DEF Begun
<1> HIDE DEF d
<1>5. AgedDir(d)
  <2>1. ASSUME NEW m \in C PROVE d.since[m] = d.file[m] /\ d.from[m] # None
    BY <1>1, <1>2, <1>3 DEF AgedDir, Producer, ProducedAt
  <2> QED
    BY <2>1, <1>1 DEF AgedDir
<1>6. ~archive[next].on /\ ~runs[next].on
  <2>1. next \in Nat
    BY DEF IInv, TypeOK
  <2> QED
    BY <2>1 DEF IInv, Issued, Stores
<1>7. ASSUME NEW m \in C
      PROVE  d.from[m] # next /\ \A g \in Stores : Produced(d, m, g[d.from[m]])
  <2>1. d.from[m] = Producer(p, m) /\ d.file[m] = q.file[m] /\ m \in Modules /\ p \in Ids
    BY <1>1, <1>2
  <2>2. CASE q.state[m] = "carried"
    <3>1. d.from[m] = q.from[m]
      BY <2>1, <2>2, <1>3 DEF Producer, AgedDir
    <3>2. \A g \in Stores : Produced(q, m, g[q.from[m]])
      BY <2>1, <2>2 DEF IInv, Attributed, Stores
    <3>3. q.from[m] # next
      BY <2>1, NextUnnamed DEF Stores
    <3> QED
      BY <2>1, <3>1, <3>2, <3>3 DEF Produced
  <2>3. CASE q.state[m] # "carried"
    <3>1. d.from[m] = p /\ d.file[m] = q.born
      BY <2>1, <2>3, <1>2, <1>3 DEF Producer, AgedDir
    <3>2. archive[p].on => archive[p].state[m] # "carried" /\ archive[p].born = q.born
      BY <2>1, <2>3, <1>2 DEF IInv, SameRun, Alike
    <3> QED
      BY <2>3, <3>1, <3>2, <1>3 DEF Produced, Stores
  <2> QED
    BY <2>2, <2>3
<1>8. \A g \in Stores, j \in Ids, m \in Modules : g[j].from[m] # next
  BY NextUnnamed
<1>9. ASSUME NEW g \in Stores, NEW j \in Ids, Shared(d, g[j]) PROVE d.ws = g[j].ws
  <2>1. PICK m \in Modules : d.file[m] # None /\ d.file[m] = g[j].file[m]
    BY <1>9 DEF Shared
  <2>2. m \in C
    BY <2>1, <1>1
  <2>3. Shared(q, g[j])
    BY <2>1, <2>2, <1>1 DEF Shared
  <2>4. q.ws = g[j].ws
    BY <2>2, <2>3, <1>2 DEF IInv, Owned, Stores
  <2> QED
    BY <2>2, <2>4, <1>2, <1>4
<1>10. Fits(d, next)
  BY <1>1, <1>5, <1>6, <1>7, <1>8, <1>9 DEF Fits
<1> QED
  BY <1>10 DEF d

\* The directory of a run that ends.
LEMMA EndedFits ==
    ASSUME IInv, current # None, NEW out \in [Modules -> Outcomes], NEW cut \in BOOLEAN
    PROVE  Fits(Ended(out, cut), current)
<1> DEFINE d == Ended(out, cut)
           q == runs[current]
<1>1. current \in Ids /\ q \in RunType
  BY DEF IInv, TypeOK
<1>2. d.on = q.on /\ d.ws = q.ws /\ d.born = q.born /\ d.from = q.from /\ d.since = q.since
  BY <1>1 DEF Ended, RunType
<1>3. d.state = [m \in Modules |-> IF m \notin Queued(current) THEN runs[current].state[m]
                                   ELSE IF out[m] = "late" THEN "failed" ELSE out[m]]
  BY <1>1 DEF Ended, RunType
<1>4. d.file = [m \in Modules |->
         IF m \in Queued(current) /\ out[m] \in {"ok", "late"} /\ runs[current].layout = "flat"
         THEN runs[current].born ELSE runs[current].file[m]]
  BY <1>1 DEF Ended, RunType
<1> HIDE DEF d
<1>5. \A m \in Modules : d.state[m] = "carried" <=> q.state[m] = "carried"
  <2> TAKE m \in Modules
  <2>1. out[m] # "carried"
    BY RunHistoryAssumption DEF RunHistoryAssumption
  <2> QED
    BY <1>3, <2>1 DEF Queued
<1>6. \A m \in Modules :
         /\ q.state[m] = "carried" => d.file[m] = q.file[m]
         /\ d.file[m] \in {q.born, q.file[m]}
  BY <1>4 DEF Queued
<1>7. AgedDir(q) /\ q.on /\ q.born = current
  BY <1>1 DEF IInv, Aged, InFlight, Stores
<1>8. AgedDir(d)
  BY <1>2, <1>5, <1>6, <1>7 DEF AgedDir
<1>9. archive[current].on => Alike(d, archive[current])
  BY <1>1, <1>2, <1>5, <1>7 DEF IInv, SameRun, Alike
<1>10. ASSUME NEW m \in Modules, d.state[m] = "carried"
       PROVE  d.from[m] # current /\ \A g \in Stores : Produced(d, m, g[d.from[m]])
  <2>1. q.state[m] = "carried" /\ d.file[m] = q.file[m] /\ d.from[m] = q.from[m]
    BY <1>2, <1>5, <1>6, <1>10
  <2>2. \A g \in Stores : Produced(q, m, g[q.from[m]])
    BY <1>1, <2>1 DEF IInv, Attributed, Stores
  <2>3. q.from[m] # current
    BY <1>7, <2>1, <2>2 DEF Produced, Stores
  <2> QED
    BY <2>1, <2>2, <2>3 DEF Produced
<1>11. ASSUME NEW g \in Stores, NEW j \in Ids, NEW m \in Modules,
              g[j].state[m] = "carried", g[j].from[m] = current
       PROVE  Produced(g[j], m, d)
  <2>1. Produced(g[j], m, q)
    BY <1>11 DEF IInv, Attributed, Stores
  <2> QED
    BY <2>1, <1>2, <1>5 DEF Produced
<1>12. ASSUME NEW g \in Stores, NEW j \in Ids, Shared(d, g[j]) PROVE d.ws = g[j].ws
  <2>1. PICK m \in Modules : d.file[m] # None /\ d.file[m] = g[j].file[m]
    BY <1>12 DEF Shared
  <2>2. g[j].file[m] # current
    BY DEF IInv, InFlight
  <2>3. d.file[m] = q.file[m]
    BY <2>1, <2>2, <1>6, <1>7
  <2>4. Shared(q, g[j])
    BY <2>1, <2>3 DEF Shared
  <2> QED
    BY <1>1, <1>2, <2>4 DEF IInv, Owned, Stores
<1>13. Fits(d, current)
  BY <1>8, <1>9, <1>10, <1>11, <1>12 DEF Fits
<1> QED
  BY <1>13 DEF d

----------------------------------------------------------------------------
(* The steps.                                                               *)

LEMMA PutIssued ==
    ASSUME IInv, NEW i \in Ids, NEW d \in RunType, next' \in Nat, next <= next',
           Before(d, next'), d.on => i < next',
           runs' = [runs EXCEPT ![i] = d], archive' = archive
    PROVE  Issued'
<1>1. runs \in [Ids -> RunType] /\ archive \in [Ids -> RunType] /\ next \in Nat
  BY DEF IInv, TypeOK
<1>2. \A j \in Ids : j \in Nat
  BY RunHistoryAssumption DEF Ids, RunHistoryAssumption
<1>3. ASSUME NEW e \in RunType, NEW j \in Ids, Before(e, next), e.on => j < next
      PROVE  Before(e, next') /\ (e.on => j < next')
  <2>1. \A m \in Modules : e.file[m] \in Nat /\ e.from[m] \in Nat
    BY <1>2 DEF RunType, None
  <2> QED
    BY <1>1, <1>2, <1>3, <2>1 DEF Before
<1>4. ASSUME NEW j \in Ids PROVE Before(archive[j], next') /\ (archive[j].on => j < next')
  BY <1>1, <1>3 DEF IInv, Issued, Stores
<1>5. ASSUME NEW j \in Ids PROVE Before(runs'[j], next') /\ (runs'[j].on => j < next')
  <2>1. CASE j = i
    BY <1>1, <2>1
  <2>2. CASE j # i
    BY <1>1, <1>3, <2>2 DEF IInv, Issued, Stores
  <2> QED
    BY <2>1, <2>2
<1>6. ASSUME NEW f \in Stores', NEW j \in Ids PROVE Before(f[j], next') /\ (f[j].on => j < next')
  BY <1>4, <1>5 DEF Stores
<1> QED
  BY <1>6 DEF Issued, Before

LEMMA PutInFlight ==
    ASSUME IInv, NEW i \in Ids, NEW d \in RunType, i # current, next' \in Nat, next <= next',
           current # None => \A m \in Modules : d.file[m] # current,
           runs' = [runs EXCEPT ![i] = d], archive' = archive, current' = current
    PROVE  InFlight'
<1> SUFFICES ASSUME current # None
             PROVE  /\ runs'[current].on /\ runs'[current].status = "running"
                    /\ runs'[current].born = current /\ current < next'
                    /\ \A f \in Stores', j \in Ids, m \in Modules : f[j].file[m] # current
  BY DEF InFlight
<1>1. current \in Ids /\ runs \in [Ids -> RunType] /\ next \in Nat /\ current \in Nat
  BY RunHistoryAssumption DEF IInv, TypeOK, Ids, RunHistoryAssumption
<1>2. runs'[i] = d /\ \A j \in Ids \ {i} : runs'[j] = runs[j]
  BY <1>1
<1>3. runs'[current] = runs[current]
  BY <1>1, <1>2
<1>4. \A f \in Stores', j \in Ids, m \in Modules : f[j].file[m] # current
  <2>1. \A f \in Stores, j \in Ids, m \in Modules : f[j].file[m] # current
    BY DEF IInv, InFlight
  <2>2. \A j \in Ids, m \in Modules : runs'[j].file[m] # current
    BY <1>2, <2>1 DEF Stores
  <2> QED
    BY <2>1, <2>2 DEF Stores
<1>5. /\ runs[current].on /\ runs[current].status = "running"
      /\ runs[current].born = current /\ current < next
  BY DEF IInv, InFlight
<1>6. current < next'
  BY <1>1, <1>5
<1> QED
  BY <1>3, <1>4, <1>5, <1>6

\* Nothing on disk or in the archive changes.
LEMMA StillStep ==
    ASSUME IInv, TypeOK', UNCHANGED <<runs, archive, next>>, current' = current \/ current' = None
    PROVE  IInv'
<1>1. Stores' = Stores
  BY DEF Stores
<1>2. Aged'
  BY <1>1 DEF IInv, Aged, AgedDir
<1>3. Issued'
  BY <1>1 DEF IInv, Issued, Before
<1>4. InFlight'
  BY <1>1 DEF IInv, InFlight
<1>5. SameRun'
  BY DEF IInv, SameRun, Alike
<1>6. Attributed'
  BY <1>1 DEF IInv, Attributed, Produced
<1>7. Owned'
  BY <1>1 DEF IInv, Owned, Shared
<1> QED
  BY <1>2, <1>3, <1>4, <1>5, <1>6, <1>7 DEF IInv

LEMMA BeginsStep ==
    ASSUME IInv, NEW w \in Workspaces, NEW sel \in SUBSET Modules \ {{}}, NEW l \in Layouts,
           RunBegins(w, sel, l)
    PROVE  IInv'
<1>1. PICK p \in Prior(w) : runs' = [runs EXCEPT ![next] = Begun(w, sel, l, p)]
  BY BeginsShape
<1> DEFINE d == Begun(w, sel, l, p)
<1>2. next \in Ids /\ current' = next /\ next' = next + 1 /\ archive' = archive
      /\ import' = import /\ calls' = calls
  BY DEF RunBegins
<1>3. d \in RunType
  BY <1>2, BegunType DEF IInv
<1>4. Fits(d, next)
  BY <1>2, BegunFits
<1>5. next \in Nat /\ next <= MaxRuns /\ MaxRuns \in Nat
  BY <1>2, RunHistoryAssumption DEF Ids, RunHistoryAssumption
<1>6. d.on = TRUE /\ d.status = "running" /\ d.born = next
  BY DEF Begun
<1> HIDE DEF d
<1>7. runs' = [runs EXCEPT ![next] = d]
  BY <1>1 DEF d
<1>8. TypeOK'
  BY <1>2, <1>3, <1>5, <1>7 DEF IInv, TypeOK, ImportType
<1>9. Aged' /\ SameRun' /\ Attributed' /\ Owned'
  BY <1>2, <1>3, <1>4, <1>7, PutDir
<1>10. \A m \in Modules : d.file[m] # next /\ d.from[m] # next /\ d.file[m] < next /\ d.from[m] < next
  <2> TAKE m \in Modules
  <2>1. runs[p] \in RunType => runs[p].file[m] \in Nat /\ runs[p].from[m] \in Nat
    BY RunHistoryAssumption DEF RunType, Ids, None, RunHistoryAssumption
  <2>2. p \in Ids => Before(runs[p], next) /\ runs[p] \in RunType /\ (runs[p].on => p < next)
    BY DEF IInv, Issued, Stores, TypeOK
  <2>3. p \in Ids \cup {None} /\ (p \in Ids => runs[p].on /\ p \in Nat) /\ None \notin Ids
    BY RunHistoryAssumption DEF Prior, Sources, None, Ids, RunHistoryAssumption
  <2>4. d.file[m] = (IF m \in Carried(p, sel) THEN runs[p].file[m] ELSE None)
        /\ d.from[m] = (IF m \in Carried(p, sel) THEN Producer(p, m) ELSE None)
    BY DEF d, Begun
  <2>5. d.file[m] < next /\ d.file[m] \in Nat
    BY <1>2, <1>5, <2>1, <2>2, <2>3, <2>4 DEF Before, Carried, None, Ids
  <2>6. d.from[m] < next /\ d.from[m] \in Nat
    BY <1>2, <1>5, <2>1, <2>2, <2>3, <2>4 DEF Before, Carried, None, Producer, Ids
  <2> QED
    BY <1>5, <2>5, <2>6
<1>11. Before(d, next')
  <2>1. \A m \in Modules : d.file[m] \in Nat /\ d.from[m] \in Nat
    BY <1>3, RunHistoryAssumption DEF RunType, Ids, None, RunHistoryAssumption
  <2> QED
    BY <1>2, <1>5, <1>10, <2>1 DEF Before
<1>12. Issued'
  <2>1. next' \in Nat /\ next <= next' /\ next < next'
    BY <1>2, <1>5
  <2> QED
    BY <1>2, <1>3, <1>7, <1>11, <2>1, PutIssued
<1>13. InFlight'
  <2>1. runs'[next] = d /\ \A j \in Ids \ {next} : runs'[j] = runs[j]
    BY <1>2, <1>7 DEF IInv, TypeOK
  <2>2. \A f \in Stores, j \in Ids, m \in Modules : f[j].file[m] # next
    BY NextUnnamed
  <2>3. \A f \in Stores', j \in Ids, m \in Modules : f[j].file[m] # next
    BY <1>2, <1>10, <2>1, <2>2 DEF Stores
  <2> QED
    BY <1>2, <1>5, <1>6, <2>1, <2>3 DEF InFlight
<1> QED
  BY <1>8, <1>9, <1>12, <1>13 DEF IInv

LEMMA EndsStep ==
    ASSUME IInv, NEW out \in [Modules -> Outcomes], NEW cut \in BOOLEAN, RunEnds(out, cut)
    PROVE  IInv'
<1> DEFINE d == Ended(out, cut)
<1>1. /\ current # None /\ current' = None /\ next' = next
      /\ archive' = archive /\ import' = import /\ calls' = calls
  BY DEF RunEnds
<1>2. current \in Ids /\ next \in Nat /\ current < next /\ current \in Nat
  BY <1>1, RunHistoryAssumption DEF IInv, TypeOK, InFlight, Ids, RunHistoryAssumption
<1>3. d \in RunType
  BY <1>1, EndedType DEF IInv
<1>4. Fits(d, current)
  BY <1>1, EndedFits
<1>5. runs[current].born = current /\ Before(runs[current], next) /\ runs[current] \in RunType
  BY <1>1, <1>2 DEF IInv, InFlight, Issued, Stores, TypeOK
<1>6. d.from = runs[current].from
      /\ \A m \in Modules : d.file[m] \in {runs[current].born, runs[current].file[m]}
  BY <1>5 DEF Ended, RunType
<1> HIDE DEF d
<1>7. runs' = [runs EXCEPT ![current] = d]
  BY EndsShape DEF d
<1>8. TypeOK'
  BY <1>1, <1>3, <1>7 DEF IInv, TypeOK
<1>9. Aged' /\ SameRun' /\ Attributed' /\ Owned'
  BY <1>1, <1>2, <1>3, <1>4, <1>7, PutDir
<1>10. Before(d, next')
  BY <1>1, <1>2, <1>5, <1>6 DEF Before
<1>11. Issued'
  <2>1. next' \in Nat /\ next <= next' /\ current < next'
    BY <1>1, <1>2
  <2> QED
    BY <1>1, <1>2, <1>3, <1>7, <1>10, <2>1, PutIssued
<1>12. InFlight'
  BY <1>1 DEF InFlight
<1> QED
  BY <1>8, <1>9, <1>11, <1>12 DEF IInv

\* A delete, or the removal of an import that overwrites.
LEMMA RemoveStep ==
    ASSUME IInv, TypeOK', NEW i \in Ids, i # current, runs' = [runs EXCEPT ![i] = NoDir],
           UNCHANGED <<next, current, archive>>
    PROVE  IInv'
<1>1. next \in Nat /\ next' = next /\ next <= next'
  BY DEF IInv, TypeOK
<1>2. Fits(NoDir, i) /\ NoDir \in RunType
  BY NoDirFits, NoDirType
<1>3. Aged' /\ SameRun' /\ Attributed' /\ Owned'
  BY <1>2, PutDir
<1>4. ~NoDir.on /\ \A m \in Modules : NoDir.file[m] = None /\ NoDir.from[m] = None
  BY DEF NoDir, NoFiles
<1>5. Before(NoDir, next')
  BY <1>1, <1>4 DEF Before, None, IInv, TypeOK
<1>6. Issued'
  BY <1>1, <1>2, <1>4, <1>5, PutIssued
<1>7. InFlight'
  BY <1>1, <1>2, <1>4, PutInFlight
<1> QED
  BY <1>3, <1>6, <1>7 DEF IInv

LEMMA ExportStep ==
    ASSUME IInv, Export
    PROVE  IInv'
<1>1. archive' = runs /\ UNCHANGED <<runs, next, current, import>>
      /\ calls' = [calls EXCEPT !.exports = @ + 1]
  BY DEF Export
<1>2. TypeOK'
  BY <1>1 DEF IInv, TypeOK
<1>3. Stores' \subseteq Stores
  BY <1>1 DEF Stores
<1>4. Aged'
  BY <1>3 DEF IInv, Aged, AgedDir
<1>5. Issued'
  BY <1>1, <1>3 DEF IInv, Issued, Before
<1>6. InFlight'
  BY <1>1, <1>3 DEF IInv, InFlight
<1>7. SameRun'
  BY <1>1 DEF SameRun, Alike
<1>8. Attributed'
  BY <1>3 DEF IInv, Attributed, Produced
<1>9. Owned'
  BY <1>3 DEF IInv, Owned, Shared
<1> QED
  BY <1>2, <1>4, <1>5, <1>6, <1>7, <1>8, <1>9 DEF IInv

\* A run of the archive put on disk, under its own id or a fresh one.
LEMMA PutArchivedStep ==
    ASSUME IInv, TypeOK', NEW i \in Ids, NEW k \in Ids, Fits(archive[i], k), k # current,
           archive[i].on => k < next', next' \in Nat, next <= next',
           runs' = [runs EXCEPT ![k] = archive[i]], UNCHANGED <<current, archive>>
    PROVE  IInv'
<1>1. archive[i] \in RunType /\ next \in Nat
  BY DEF IInv, TypeOK
<1>2. Aged' /\ SameRun' /\ Attributed' /\ Owned'
  BY <1>1, PutDir
<1>3. Before(archive[i], next')
  <2>1. Before(archive[i], next)
    BY DEF IInv, Issued, Stores
  <2>2. \A m \in Modules : archive[i].file[m] \in Nat /\ archive[i].from[m] \in Nat
    BY <1>1, RunHistoryAssumption DEF RunType, Ids, None, RunHistoryAssumption
  <2> QED
    BY <1>1, <2>1, <2>2 DEF Before
<1>4. Issued'
  BY <1>1, <1>3, PutIssued
<1>5. current # None => \A m \in Modules : archive[i].file[m] # current
  BY DEF IInv, InFlight, Stores
<1>6. InFlight'
  BY <1>1, <1>5, PutInFlight
<1> QED
  BY <1>2, <1>4, <1>6 DEF IInv

LEMMA ImportNextType ==
    ASSUME IInv, NEW i \in Ids, ImportNext(i)
    PROVE  import' \in ImportType
BY DEF IInv, TypeOK, ImportNext, Idle, ImportType

LEMMA ImportStep ==
    ASSUME IInv, Listed, NEW i \in Ids, Import(i)
    PROVE  IInv'
<1>1. i # current \/ Blocked(i) \/ ~runs[i].on
  BY DEF IInv, InFlight, Blocked, None, Ids
<1>2. next \in Nat /\ next <= next
  BY DEF IInv, TypeOK
<1>3. runs \in [Ids -> RunType] /\ archive \in [Ids -> RunType]
  BY DEF IInv, TypeOK
<1>4. CASE ImportRefused(i)
  <2>1. UNCHANGED <<runs, next, current, archive, calls>> /\ import' \in ImportType
    BY <1>4 DEF ImportRefused, Idle, ImportType
  <2>2. TypeOK'
    BY <2>1 DEF IInv, TypeOK, ImportType
  <2> QED
    BY <2>1, <2>2, StillStep
<1>5. CASE ImportSkips(i)
  <2>1. UNCHANGED <<runs, next, current, archive, calls>> /\ import' \in ImportType
    BY <1>5, ImportNextType DEF ImportSkips
  <2>2. TypeOK'
    BY <2>1 DEF IInv, TypeOK, ImportType
  <2> QED
    BY <2>1, <2>2, StillStep
<1>6. CASE ImportRenames(i)
  <2>1. /\ next \in Ids /\ next' = next + 1 /\ UNCHANGED <<current, archive, calls>>
        /\ runs' = [runs EXCEPT ![next] = archive[i]] /\ import' \in ImportType
    BY <1>6, ImportNextType DEF ImportRenames
  <2>2. TypeOK'
    BY <1>2, <1>3, <2>1, RunHistoryAssumption
    DEF IInv, TypeOK, ImportType, Ids, RunHistoryAssumption
  <2>3. Fits(archive[i], next)
    BY <2>1, RenamedFits
  <2>4. next # current /\ next < next' /\ next <= next' /\ next' \in Nat
    BY <1>2, <2>1 DEF IInv, InFlight, None, Ids
  <2> QED
    BY <2>1, <2>2, <2>3, <2>4, PutArchivedStep
<1>7. CASE ImportRemoves(i)
  <2>1. /\ runs' = [runs EXCEPT ![i] = NoDir] /\ UNCHANGED <<next, current, archive, calls>>
        /\ import' = [import EXCEPT !.removed = TRUE] /\ i # current
    BY <1>1, <1>7 DEF ImportRemoves
  <2>2. TypeOK'
    BY <1>3, <2>1, NoDirType DEF IInv, TypeOK
  <2> QED
    BY <2>1, <2>2, RemoveStep
<1>8. CASE ImportPlaces(i)
  <2>1. /\ runs' = [runs EXCEPT ![i] = archive[i]] /\ UNCHANGED <<next, current, archive, calls>>
        /\ import' \in ImportType /\ ~runs[i].on
    BY <1>8, ImportNextType DEF ImportPlaces
  <2>2. TypeOK'
    BY <1>3, <2>1 DEF IInv, TypeOK, ImportType
  <2>3. i # current
    BY <2>1 DEF IInv, InFlight, None, Ids
  <2>4. archive[i].on => Fits(archive[i], i) /\ i < next
    BY PlacedFits DEF IInv, Issued, Stores
  <2>5. archive[i].on
    BY <1>8 DEF ImportPlaces, AtHand, Listed
  <2> QED
    BY <1>2, <2>1, <2>2, <2>3, <2>4, <2>5, PutArchivedStep
<1> QED
  BY <1>4, <1>5, <1>6, <1>7, <1>8 DEF Import

LEMMA ListedStep ==
    ASSUME TypeOK, Listed, [Next]_vars
    PROVE  Listed'
<1>1. CASE archive' = archive /\ (import' = import \/ import' = Idle)
  BY <1>1 DEF Listed, Idle
<1>2. ASSUME NEW i \in Ids, Import(i) PROVE Listed'
  <2>1. archive' = archive /\ import \in ImportType
    BY <1>2 DEF Import, ImportRefused, ImportSkips, ImportRenames, ImportRemoves, ImportPlaces,
                TypeOK, ImportType
  <2>2. import' = Idle \/ ImportNext(i) \/ import' = [import EXCEPT !.removed = TRUE]
    BY <1>2 DEF Import, ImportRefused, ImportSkips, ImportRenames, ImportRemoves, ImportPlaces
  <2>3. import'.on => import.on /\ import'.left \subseteq import.left
    <3>1. CASE import' = Idle
      BY <3>1 DEF Idle
    <3>2. CASE import' = [import EXCEPT !.left = @ \ {i}, !.removed = FALSE]
      BY <2>1, <3>2 DEF ImportType
    <3>3. CASE import' = [import EXCEPT !.removed = TRUE]
      BY <2>1, <3>3 DEF ImportType
    <3> QED
      BY <2>2, <3>1, <3>2, <3>3 DEF ImportNext
  <2> QED
    BY <2>1, <2>3 DEF Listed
<1>3. ASSUME NEW mode \in Modes, ImportBegins(mode) PROVE Listed'
  BY <1>3 DEF ImportBegins, Listed
<1>4. CASE Export
  BY <1>4 DEF Export, Listed
<1> QED
  BY <1>1, <1>2, <1>3, <1>4 DEF Next, vars, RunBegins, RunEnds, Delete, Restart

LEMMA InductiveStep ==
    ASSUME IInv, Listed, [Next]_vars
    PROVE  IInv'
<1>1. ASSUME NEW i \in Ids, Delete(i) PROVE IInv'
  <2>1. /\ runs' = [runs EXCEPT ![i] = NoDir] /\ i # current
        /\ calls' = [calls EXCEPT !.deletes = @ + 1]
        /\ UNCHANGED <<next, current, archive, import>>
    BY <1>1 DEF Delete
  <2>2. TypeOK'
    BY <2>1, NoDirType DEF IInv, TypeOK
  <2> QED
    BY <2>1, <2>2, RemoveStep
<1>2. ASSUME NEW mode \in Modes, ImportBegins(mode) PROVE IInv'
  <2>1. UNCHANGED <<runs, next, current, archive>>
    BY <1>2 DEF ImportBegins
  <2>2. calls' \in CallsType
    BY <1>2 DEF ImportBegins, IInv, TypeOK, CallsType
  <2>3. import' \in ImportType
    BY <1>2, RunHistoryAssumption DEF ImportBegins, ImportType, RunHistoryAssumption
  <2>4. TypeOK'
    BY <2>1, <2>2, <2>3 DEF IInv, TypeOK, CallsType, ImportType
  <2> QED
    BY <2>1, <2>4, StillStep
<1>3. CASE Restart
  <2>1. UNCHANGED <<runs, next, archive>> /\ current' = None
    BY <1>3 DEF Restart
  <2>2. calls' \in CallsType /\ import' \in ImportType
    BY <1>3 DEF Restart, Idle, ImportType, IInv, TypeOK, CallsType
  <2>3. TypeOK'
    BY <2>1, <2>2 DEF IInv, TypeOK, CallsType, ImportType
  <2> QED
    BY <2>1, <2>3, StillStep
<1>4. CASE UNCHANGED vars
  <2>1. TypeOK'
    BY <1>4 DEF vars, IInv, TypeOK
  <2> QED
    BY <1>4, <2>1, StillStep DEF vars
<1> QED
  BY <1>1, <1>2, <1>3, <1>4, BeginsStep, EndsStep, ImportStep, ExportStep DEF Next

LEMMA InitInv == ASSUME Init PROVE IInv /\ Listed
<1>1. \A f \in Stores, i \in Ids : f[i] = NoDir
  BY DEF Init, Stores
<1>2. /\ ~NoDir.on
      /\ \A m \in Modules : /\ NoDir.state[m] = "none" /\ NoDir.from[m] = None
                            /\ NoDir.file[m] = None
  BY DEF NoDir, NoFiles
<1>3. next = 1 /\ current = None /\ ~import.on
  BY DEF Init, Idle
<1>4. TypeOK
  <2>1. runs \in [Ids -> RunType] /\ archive \in [Ids -> RunType]
    BY NoDirType DEF Init
  <2>2. import \in ImportType /\ calls \in CallsType
    BY DEF Init, Idle, ImportType, CallsType
  <2> QED
    BY <1>3, <2>1, <2>2, RunHistoryAssumption
    DEF TypeOK, ImportType, CallsType, RunHistoryAssumption
<1>5. Aged
  BY <1>1, <1>2 DEF Aged, AgedDir
<1>6. Issued
  BY <1>1, <1>2, <1>3 DEF Issued, Before, None
<1>7. InFlight /\ Listed
  BY <1>3 DEF InFlight, Listed
<1>8. SameRun
  BY <1>1, <1>2 DEF SameRun, Stores
<1>9. Attributed
  BY <1>1, <1>2 DEF Attributed
<1>10. Owned
  BY <1>1, <1>2 DEF Owned, Shared
<1> QED
  BY <1>4, <1>5, <1>6, <1>7, <1>8, <1>9, <1>10 DEF IInv

LEMMA Invariance == Spec => [](IInv /\ Listed)
<1>1. IInv /\ Listed /\ [Next]_vars => (IInv /\ Listed)'
  BY InductiveStep, ListedStep DEF IInv
<1> QED
  BY <1>1, InitInv, PTL DEF Spec

----------------------------------------------------------------------------
(* What follows.                                                            *)

\* Every variable keeps its type, whatever runs, deletes, imports and restarts.
THEOREM TypeCorrect == Spec => []TypeOK
<1>1. IInv => TypeOK
  BY DEF IInv
<1> QED
  BY <1>1, Invariance, PTL

\* The age the page shows of a carried artefact (carried_from_started_at) is
\* the time at which the analyzer that wrote it ran.
THEOREM CarriedAgeIsTrue == Spec => []CarriedAgeTrue
<1>1. IInv => CarriedAgeTrue
  BY DEF IInv, Aged, AgedDir, Stores, CarriedAgeTrue
<1> QED
  BY <1>1, Invariance, PTL

\* The run a carried artefact is attributed to (carried_from) executed the
\* module itself, and its artefact is the one carried.
THEOREM CarryAttribution == Spec => []CarryNamesProducer
<1>1. ASSUME IInv, NEW i \in Ids, NEW m \in Modules, runs[i].state[m] = "carried"
      PROVE  LET s == runs[i].from[m]
             IN /\ s # None
                /\ runs[s].on => /\ runs[s].state[m] # "carried"
                                /\ runs[s].file[m] \in {None, runs[i].file[m]}
  <2> DEFINE s == runs[i].from[m]
  <2>1. s # None /\ s \in Ids
    BY <1>1 DEF IInv, Aged, AgedDir, Stores, TypeOK, RunType
  <2>2. Produced(runs[i], m, runs[s])
    BY <1>1 DEF IInv, Attributed, Stores
  <2>3. AgedDir(runs[s])
    BY <1>1, <2>1 DEF IInv, Aged, Stores
  <2> QED
    BY <2>1, <2>2, <2>3 DEF Produced, AgedDir
<1>2. IInv => CarryNamesProducer
  BY <1>1 DEF CarryNamesProducer
<1> QED
  BY <1>2, Invariance, PTL

\* An import leaves the run in flight alone, and unless it overwrites every run
\* that is on disk.
THEOREM ImportsKeepRuns == Spec => ImportKeepsRuns
<1> DEFINE Keeps == import.on => \A i \in Ids :
              (i = current \/ import.mode # "overwrite") /\ runs[i].on
                  /\ calls'.deletes = calls.deletes => runs'[i] = runs[i]
<1>1. ASSUME IInv, [Next]_vars PROVE Keeps
  <2> SUFFICES ASSUME import.on, NEW i \in Ids, i = current \/ import.mode # "overwrite",
                      runs[i].on, calls'.deletes = calls.deletes
               PROVE  runs'[i] = runs[i]
    OBVIOUS
  <2>1. runs \in [Ids -> RunType] /\ calls \in CallsType
    BY <1>1 DEF IInv, TypeOK, CallsType
  <2>2. CASE runs' = runs
    BY <2>2
  <2>3. ASSUME NEW k \in Ids, Delete(k) PROVE FALSE
    <3>1. calls' = [calls EXCEPT !.deletes = @ + 1]
      BY <2>3 DEF Delete
    <3>2. calls'.deletes = calls.deletes + 1 /\ calls.deletes \in Nat
      BY <2>1, <3>1 DEF CallsType
    <3> QED
      BY <3>2
  <2>4. ASSUME NEW k \in Ids, ImportRenames(k) PROVE runs'[i] = runs[i]
    <3>1. next \in Ids /\ runs' = [runs EXCEPT ![next] = archive[k]]
      BY <2>4 DEF ImportRenames
    <3>2. i < next /\ next \in Nat
      BY <1>1 DEF IInv, Issued, Stores, TypeOK
    <3>3. i # next
      BY <3>2
    <3> QED
      BY <2>1, <3>1, <3>3
  <2>5. ASSUME NEW k \in Ids, ImportRemoves(k) PROVE runs'[i] = runs[i]
    <3>1. /\ runs' = [runs EXCEPT ![k] = NoDir] /\ import.mode = "overwrite"
          /\ runs[k].status # "running"
      BY <2>5 DEF ImportRemoves, Blocked
    <3>2. i = current /\ current # None
      BY <3>1, RunHistoryAssumption DEF None, Ids, RunHistoryAssumption
    <3>3. runs[i].status = "running"
      BY <1>1, <3>2 DEF IInv, InFlight
    <3> QED
      BY <2>1, <3>1, <3>3
  <2>6. ASSUME NEW k \in Ids, ImportPlaces(k) PROVE runs'[i] = runs[i]
    BY <2>1, <2>6 DEF ImportPlaces
  <2> QED
    BY <1>1, <2>2, <2>3, <2>4, <2>5, <2>6
    DEF Next, vars, Import, ImportRefused, ImportSkips, ImportBegins, Export, Restart,
        RunBegins, RunEnds
<1>2. Spec => [][IInv /\ [Next]_vars]_vars
  BY Invariance, PTL DEF Spec
<1>3. [IInv /\ [Next]_vars]_vars => [Keeps]_vars
  BY <1>1
<1> QED
  BY <1>2, <1>3, PTL DEF ImportKeepsRuns

\* No artefact of one workspace is ever in a run of another: the carry compares
\* the whole identity, and imports and exports keep it.
THEOREM WorkspacesIsolated == Spec => []WorkspaceIsolated
<1>1. IInv => WorkspaceIsolated
  BY DEF IInv, Owned, Shared, Stores, WorkspaceIsolated
<1> QED
  BY <1>1, Invariance, PTL

----------------------------------------------------------------------------
(* What a run carries is the newest there is.                               *)

\* Nothing is imported, a module whose run settles left its file, at the top level.
NothingMisses ==
    /\ MaxImports = 0
    /\ Outcomes \subseteq {"ok", "cancelled", "late"}
    /\ Layouts \subseteq {"flat"}

Settled(i) == runs[i].on /\ runs[i].status \in {"ok", "failed"}

\* The settled runs of a workspace have newer and newer artefacts, and the run
\* in flight is the newest run.
NewestInv ==
    /\ ~import.on /\ (current # None => next = current + 1)
    /\ \A i \in Ids : runs[i].layout = "flat"
    /\ \A i, j \in Ids, m \in Modules :
          Settled(i) /\ Settled(j) /\ runs[i].ws = runs[j].ws /\ i < j
              => runs[i].file[m] <= runs[j].file[m]
    /\ CarryNewest

LEMMA NewestBegins ==
    ASSUME IInv, NewestInv, NothingMisses, NEW w \in Workspaces, NEW sel \in SUBSET Modules,
           NEW l \in Layouts, RunBegins(w, sel, l)
    PROVE  NewestInv'
<1>1. PICK p \in Prior(w) : runs' = [runs EXCEPT ![next] = Begun(w, sel, l, p)]
  BY BeginsShape
<1>2. /\ current' = next /\ next' = next + 1 /\ import' = import /\ next \in Ids
      /\ runs \in [Ids -> RunType]
  BY DEF RunBegins, IInv, TypeOK
<1> DEFINE d == Begun(w, sel, l, p)
<1>3. runs'[next] = d /\ \A i \in Ids \ {next} : runs'[i] = runs[i]
  BY <1>1, <1>2
<1>4. /\ d.on /\ d.status = "running" /\ d.ws = w /\ d.layout = "flat"
      /\ \A m \in Modules : d.state[m] # "queued" => m \notin sel
      /\ \A m \in Modules \ sel : d.file[m] = IF m \in Carried(p, sel) THEN runs[p].file[m] ELSE None
  BY DEF Begun, NothingMisses
<1> HIDE DEF d
<1>5. \A i \in Ids : Settled(i)' => i # next /\ Settled(i)
  BY <1>3, <1>4 DEF Settled
<1>6. ASSUME NEW i \in Ids, Settled(i), runs[i].ws = w, NEW m \in Modules \ sel
      PROVE  runs[i].file[m] <= d.file[m]
  <2>1. i \in Sources(w)
    BY <1>6 DEF Settled, Sources, SourceStatus, SameIdentity
  <2>2. p \in Ids /\ i <= p /\ Settled(p) /\ runs[p].ws = w
    BY <2>1 DEF Prior, Sources, SourceStatus, SameIdentity, Settled
  <2>3. runs[i].file[m] \in Nat /\ runs[p].file[m] \in Nat
    BY <1>2, <2>2 DEF RunType, Ids, None
  <2>4. runs[i].file[m] <= runs[p].file[m]
    BY <1>6, <2>2, <2>3 DEF NewestInv, Ids
  <2>5. m \in Carried(p, sel) <=> runs[p].file[m] # None
    BY <2>2 DEF Carried, Ids, None
  <2> QED
    BY <1>4, <2>3, <2>4, <2>5 DEF None
<1>7. CarryNewest'
  <2> SUFFICES ASSUME NEW m \in Modules \ Queued(current)', NEW i \in DoneRuns(current)'
               PROVE  runs'[i].file[m] <= runs'[current'].file[m]
    BY DEF CarryNewest
  <2>1. i \in Ids /\ Settled(i)' /\ runs'[i].ws = w
    BY <1>2, <1>3, <1>4 DEF DoneRuns, Settled
  <2>2. i # next /\ Settled(i) /\ runs'[i] = runs[i]
    BY <1>3, <1>5, <2>1
  <2>3. m \in Modules \ sel
    BY <1>2, <1>3, <1>4 DEF Queued
  <2> QED
    BY <1>2, <1>3, <1>6, <2>1, <2>2, <2>3
<1>8. ASSUME NEW i \in Ids, NEW j \in Ids, NEW m \in Modules, Settled(i)', Settled(j)',
             runs'[i].ws = runs'[j].ws, i < j
      PROVE  runs'[i].file[m] <= runs'[j].file[m]
  BY <1>3, <1>5, <1>8 DEF NewestInv
<1>9. \A i \in Ids : runs'[i].layout = "flat"
  BY <1>3, <1>4 DEF NewestInv
<1> QED
  BY <1>2, <1>7, <1>8, <1>9 DEF NewestInv

LEMMA NewestEnds ==
    ASSUME IInv, NewestInv, NothingMisses, NEW out \in [Modules -> Outcomes],
           NEW cut \in BOOLEAN, RunEnds(out, cut)
    PROVE  NewestInv'
<1>1. /\ runs' = [runs EXCEPT ![current] = Ended(out, cut)] /\ current # None
      /\ current' = None /\ UNCHANGED <<next, import>>
      /\ "cancelled" \in {out[m] : m \in Queued(current)} => cut
  BY DEF RunEnds
<1>2. /\ runs \in [Ids -> RunType] /\ current \in Ids /\ next = current + 1
      /\ runs[current].born = current
  BY <1>1 DEF IInv, TypeOK, InFlight, NewestInv
<1> DEFINE d == Ended(out, cut)
<1>3. runs'[current] = d /\ \A i \in Ids \ {current} : runs'[i] = runs[i]
  BY <1>1, <1>2
<1>4. /\ d.ws = runs[current].ws /\ d.on = runs[current].on /\ d.layout = runs[current].layout
      /\ d.status = Verdict({out[m] : m \in Queued(current)}, cut)
      /\ \A m \in Modules : d.file[m] =
           IF m \in Queued(current) /\ out[m] \in {"ok", "late"} THEN current ELSE runs[current].file[m]
  <2>1. runs[current] \in RunType /\ runs[current].layout = "flat"
    BY <1>2 DEF NewestInv
  <2> QED
    BY <1>2, <2>1 DEF Ended, RunType
<1> HIDE DEF d
<1>5. ASSUME NEW i \in Ids \ {current}, Settled(i), runs[i].ws = d.ws, d.status \in {"ok", "failed"},
             NEW m \in Modules
      PROVE  runs[i].file[m] <= d.file[m]
  <2>1. runs[i].file[m] < next /\ runs[i].file[m] \in Nat
    BY <1>2 DEF IInv, Issued, Before, Stores, RunType, Ids, None
  <2>2. CASE m \in Queued(current)
    <3>1. ~cut
      BY <1>4, <1>5 DEF Verdict
    <3>2. out[m] \in {"ok", "late"}
      BY <1>1, <2>2, <3>1 DEF NothingMisses
    <3> QED
      BY <1>2, <1>4, <2>1, <2>2, <3>2 DEF Ids
  <2>3. CASE m \notin Queued(current)
    <3>1. i \in DoneRuns(current)
      BY <1>4, <1>5 DEF DoneRuns, Settled
    <3> QED
      BY <1>1, <1>4, <2>3, <3>1 DEF NewestInv, CarryNewest
  <2> QED
    BY <2>2, <2>3
<1>6. \A i \in Ids : Settled(i) => i < next
  BY <1>2 DEF IInv, Issued, Stores, Settled
<1>7. ASSUME NEW i \in Ids, NEW j \in Ids, NEW m \in Modules, Settled(i)', Settled(j)',
             runs'[i].ws = runs'[j].ws, i < j
      PROVE  runs'[i].file[m] <= runs'[j].file[m]
  <2>1. CASE i # current /\ j # current
    BY <1>3, <1>7, <2>1 DEF NewestInv, Settled
  <2>2. CASE j = current
    BY <1>3, <1>5, <1>7, <2>2 DEF Settled, Ids
  <2>3. CASE i = current
    <3>1. j # current /\ Settled(j)
      BY <1>3, <1>7, <2>3 DEF Settled, Ids
    <3> QED
      BY <1>2, <1>6, <1>7, <2>3, <3>1 DEF Ids
  <2> QED
    BY <2>1, <2>2, <2>3
<1>8. \A i \in Ids : runs'[i].layout = "flat"
  BY <1>3, <1>4, <1>2 DEF NewestInv
<1> QED
  BY <1>1, <1>7, <1>8 DEF NewestInv, CarryNewest

\* Directories that go away, and a restart, leave what there was in order.
LEMMA NewestFewer ==
    ASSUME IInv, NewestInv, UNCHANGED <<next>>, ~import'.on, current' \in {current, None},
           \A i \in Ids : runs'[i] = runs[i] \/ (i # current /\ runs'[i] = NoDir)
    PROVE  NewestInv'
<1>0. NoDir.on = FALSE /\ NoDir.layout = "flat"
  BY DEF NoDir
<1>1. \A i \in Ids : Settled(i)' => Settled(i) /\ runs'[i] = runs[i]
  BY <1>0 DEF Settled
<1>2. \A i \in Ids : runs'[i].layout = "flat"
  BY <1>0 DEF NewestInv
<1>3. ASSUME NEW i \in Ids, NEW j \in Ids, NEW m \in Modules, Settled(i)', Settled(j)',
             runs'[i].ws = runs'[j].ws, i < j
      PROVE  runs'[i].file[m] <= runs'[j].file[m]
  BY <1>1, <1>3 DEF NewestInv
<1>4. CarryNewest'
  <2> SUFFICES ASSUME current' # None, NEW m \in Modules \ Queued(current)', NEW j \in DoneRuns(current)'
               PROVE  runs'[j].file[m] <= runs'[current'].file[m]
    BY DEF CarryNewest
  <2>1. current' = current /\ current \in Ids /\ runs'[current] = runs[current]
    BY DEF IInv, TypeOK
  <2>2. j \in DoneRuns(current) /\ runs'[j] = runs[j]
    BY <1>1, <2>1 DEF DoneRuns, Settled
  <2>3. m \notin Queued(current)
    BY <2>1 DEF Queued
  <2> QED
    BY <2>1, <2>2, <2>3 DEF NewestInv, CarryNewest
<1> QED
  BY <1>2, <1>3, <1>4 DEF NewestInv

LEMMA NewestStep ==
    ASSUME IInv, NewestInv, NothingMisses, [Next]_vars
    PROVE  NewestInv'
<1>1. ASSUME NEW mode \in Modes, ImportBegins(mode) PROVE FALSE
  BY <1>1 DEF ImportBegins, NothingMisses, IInv, TypeOK
<1>2. ASSUME NEW i \in Ids, Import(i) PROVE FALSE
  BY <1>2 DEF Import, ImportRefused, ImportSkips, ImportRenames, ImportRemoves, ImportPlaces,
     AtHand, NewestInv
<1>3. ASSUME NEW i \in Ids, Delete(i) PROVE NewestInv'
  BY <1>3, NewestFewer DEF Delete, IInv, TypeOK, NewestInv
<1>4. CASE Export
  BY <1>4, NewestFewer DEF Export, NewestInv
<1>5. CASE Restart
  BY <1>5, NewestFewer DEF Restart, Idle
<1>6. CASE UNCHANGED vars
  BY <1>6, NewestFewer DEF vars, NewestInv
<1> QED
  BY <1>1, <1>2, <1>3, <1>4, <1>5, <1>6, NewestBegins, NewestEnds DEF Next

\* As long as every module that is run leaves its file and nothing is imported, a
\* run carries the newest artefact any settled run of its workspace has, for any
\* runs, workspaces, deletes and restarts (latest_for_workspace and
\* _carry_forward_from_prior).
THEOREM CarriesNewest == ASSUME NothingMisses PROVE Spec => []CarryNewest
<1>1. Init => NewestInv
  BY DEF Init, NewestInv, NoDir, Idle, Settled, CarryNewest
<1>2. IInv /\ NewestInv /\ [Next]_vars => NewestInv'
  BY NewestStep
<1>3. NewestInv => CarryNewest
  BY DEF NewestInv
<1> QED
  BY <1>1, <1>2, <1>3, Invariance, PTL DEF Spec

=============================================================================
