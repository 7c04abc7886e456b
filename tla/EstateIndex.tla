----------------------------- MODULE EstateIndex -----------------------------
(***************************************************************************)
(* The cache behind the Estate Overview (EstateIndex of web/estate.py): an *)
(* extract per run, kept as long as the mtime of run.json does not change. *)
(*                                                                         *)
(* A build runs in a request thread under the index's own lock and reads   *)
(* the run directories while the runner, deletes and imports write them.   *)
(* Contents are version numbers.  The runner always writes run.json after  *)
(* an artefact (JobRunner), never before it only.                          *)
(***************************************************************************)
EXTENDS Naturals, FiniteSets

CONSTANTS
    Runs,
    MaxWrites,     \* bound on the writes below
    SameTick       \* may two writes of run.json fall into one tick of mtime?

ASSUME SameTickAssumption == SameTick \in BOOLEAN

VARIABLES
    meta,      \* meta[r]: run.json, its version and mtime
    art,       \* art[r]: the version of the run's artefacts
    pending,   \* the runs with an artefact that run.json does not tell of yet
    clock,     \* the file system's clock
    cache,     \* EstateIndex._cache
    build,     \* the build in progress
    writes     \* the writes so far

cacheVars == <<meta, art, pending, clock, cache, build, writes>>

NoMeta == [on |-> FALSE, ver |-> 0, mtime |-> 0]
NoExtract == [on |-> FALSE, mtime |-> 0, ver |-> 0, art |-> 0]
NoBuild == [pc |-> "idle", run |-> {}, left |-> {}, seen |-> {}, mtime |-> 0, ver |-> 0]

CacheInit ==
    /\ meta = [r \in Runs |-> NoMeta]
    /\ art = [r \in Runs |-> 0]
    /\ pending = {}
    /\ clock = 1
    /\ cache = [r \in Runs |-> NoExtract]
    /\ build = NoBuild
    /\ writes = 0

----------------------------------------------------------------------------
(* What happens to the run directories.                                     *)

Write == writes < MaxWrites /\ writes' = writes + 1

Tick == clock' \in IF SameTick THEN {clock, clock + 1} ELSE {clock + 1}

\* The writer of an analyzer, or the copies of a carry-forward.
WriteArtefact(r) ==
    /\ Write
    /\ meta[r].on
    /\ art' = [art EXCEPT ![r] = writes']
    /\ pending' = pending \cup {r}
    /\ UNCHANGED <<meta, clock, cache, build>>

\* _write_meta: create, update, update_module and update_module_progress.
WriteMeta(r) ==
    /\ Write
    /\ meta' = [meta EXCEPT ![r] = [on |-> TRUE, ver |-> writes', mtime |-> clock]]
    /\ pending' = pending \ {r}
    /\ Tick
    /\ UNCHANGED <<art, cache, build>>

\* A delete, or the first half of an import that overwrites.
RemoveRun(r) ==
    /\ Write
    /\ meta[r].on
    /\ meta' = [meta EXCEPT ![r] = NoMeta]
    /\ art' = [art EXCEPT ![r] = 0]
    /\ pending' = pending \ {r}
    /\ UNCHANGED <<clock, cache, build>>

\* An import moves a whole directory into place.
Import(r) ==
    /\ Write
    /\ ~meta[r].on
    /\ meta' = [meta EXCEPT ![r] = [on |-> TRUE, ver |-> writes', mtime |-> clock]]
    /\ art' = [art EXCEPT ![r] = writes']
    /\ Tick
    /\ UNCHANGED <<pending, cache, build>>

----------------------------------------------------------------------------
(* _collect_extracts and invalidate.                                        *)

BuildBegins ==
    /\ build.pc = "idle"
    /\ LET there == {r \in Runs : meta[r].on}
       IN build' = [NoBuild EXCEPT !.pc = "scan", !.left = there, !.seen = there]
    /\ UNCHANGED <<meta, art, pending, clock, cache, writes>>

Hit(r) == cache[r].on /\ cache[r].mtime = meta[r].mtime

\* The run.json is gone, or the cached extract carries its mtime.
BuildKeeps(r) ==
    /\ build.pc = "scan" /\ r \in build.left
    /\ meta[r].on => Hit(r)
    /\ build' = [build EXCEPT !.left = @ \ {r}]
    /\ UNCHANGED <<meta, art, pending, clock, cache, writes>>

\* Mutant: the mtime is left for later, when the extract has been read.
BuildStatsLate(r) ==
    /\ build.pc = "scan" /\ r \in build.left
    /\ meta[r].on /\ ~Hit(r)
    /\ build' = [build EXCEPT !.pc = "meta", !.run = {r}, !.left = @ \ {r}, !.mtime = clock]
    /\ UNCHANGED <<meta, art, pending, clock, cache, writes>>

\* A miss: the mtime is taken before anything is read.
BuildStats(r) ==
    /\ build.pc = "scan" /\ r \in build.left
    /\ meta[r].on /\ ~Hit(r)
    /\ build' = [build EXCEPT !.pc = "meta", !.run = {r}, !.left = @ \ {r},
                              !.mtime = meta[r].mtime]
    /\ UNCHANGED <<meta, art, pending, clock, cache, writes>>

\* _extract_run reads run.json and gives up when it is gone.
BuildReadsMeta(r) ==
    /\ build.pc = "meta" /\ r \in build.run
    /\ build' = IF meta[r].on THEN [build EXCEPT !.pc = "artefacts", !.ver = meta[r].ver]
                ELSE [build EXCEPT !.pc = "scan", !.run = {}]
    /\ UNCHANGED <<meta, art, pending, clock, cache, writes>>

\* It reads the artefacts, and the extract is kept under the mtime.
BuildStores(r) ==
    /\ build.pc = "artefacts" /\ r \in build.run
    /\ cache' = [cache EXCEPT ![r] = [on |-> TRUE, mtime |-> build.mtime,
                                      ver |-> build.ver, art |-> art[r]]]
    /\ build' = [build EXCEPT !.pc = "scan", !.run = {}]
    /\ UNCHANGED <<meta, art, pending, clock, writes>>

\* A run the listing did not show is dropped from the cache.
Evicted(r) == r \notin build.seen

BuildEnds ==
    /\ build.pc = "scan" /\ build.left = {}
    /\ cache' = [r \in Runs |-> IF Evicted(r) THEN NoExtract ELSE cache[r]]
    /\ build' = NoBuild
    /\ UNCHANGED <<meta, art, pending, clock, writes>>

\* ?refresh=1, and an import for the runs it touched.
Invalidate(S) ==
    /\ build.pc = "idle"
    /\ \E r \in S : cache[r].on
    /\ cache' = [r \in Runs |-> IF r \in S THEN NoExtract ELSE cache[r]]
    /\ UNCHANGED <<meta, art, pending, clock, build, writes>>

Build(r) == BuildKeeps(r) \/ BuildStats(r) \/ BuildReadsMeta(r) \/ BuildStores(r)

CacheNext ==
    \/ \E r \in Runs : WriteArtefact(r) \/ WriteMeta(r) \/ RemoveRun(r) \/ Import(r) \/ Build(r)
    \/ BuildBegins \/ BuildEnds
    \/ \E S \in SUBSET Runs : Invalidate(S)

CacheSpec == CacheInit /\ [][CacheNext]_cacheVars

----------------------------------------------------------------------------
(* Properties.                                                              *)

\* The type of every variable; a run without run.json awaits none.
CacheTypeOK ==
    /\ meta \in [Runs -> [on : BOOLEAN, ver : Nat, mtime : Nat]]
    /\ art \in [Runs -> Nat] /\ pending \in SUBSET {r \in Runs : meta[r].on}
    /\ clock \in Nat /\ writes \in Nat
    /\ cache \in [Runs -> [on : BOOLEAN, mtime : Nat, ver : Nat, art : Nat]]
    /\ build \in [pc : {"idle", "scan", "meta", "artefacts"}, run : SUBSET Runs,
                  left : SUBSET Runs, seen : SUBSET Runs, mtime : Nat, ver : Nat]

\* An extract that the next build will take for current is current: it has the
\* run.json and the artefacts that are on disk, whatever was written, removed
\* or imported while a build was reading.  (An artefact that is not followed by
\* its run.json yet is about to change the mtime.)
CacheFresh ==
    \A r \in Runs :
        meta[r].on /\ Hit(r) /\ r \notin pending =>
            cache[r].ver = meta[r].ver /\ cache[r].art = art[r]

=============================================================================
