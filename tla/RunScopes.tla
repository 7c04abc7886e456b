------------------------------- MODULE RunScopes -------------------------------
(***************************************************************************)
(* The scopes of a run: whose identity run.json carries (JobRunner.start   *)
(* and migrate_run_attribution of web/jobs.py), the directories a run of   *)
(* several scopes writes (JobRunner._run), and how they are found again    *)
(* (FilesystemRunRepo of web/storage.py).  A name is the sequence of its   *)
(* characters; "" and <<>> stand for null.  How the modules of a run end   *)
(* together, and the slot, are JobRunner.                                  *)
(***************************************************************************)
EXTENDS Naturals, Sequences, SequencesExt, FiniteSets, FiniteSetsExt

CONSTANTS
    ScopeLists,     \* what a start may ask for: [type, name, rg, platform, account]
    OldRuns,        \* id -> run.json of the runs of earlier versions
    NewRun,         \* the id of the run that is started
    DotEnv,         \* the .env: [tenant, subscription, rg, workspace, primary]
    RunModules      \* the modules asked for, in order

Scope == {DotEnv.primary} \cup UNION {ToSet(asked) : asked \in ScopeLists}

IsRunJson(meta) ==
    meta = [scopes |-> meta.scopes, tenant |-> meta.tenant, subscription |-> meta.subscription,
            rg |-> meta.rg, workspace |-> meta.workspace]

ASSUME ScopesAssumption ==
    /\ ScopeLists \subseteq Seq(Scope)
    /\ NewRun \notin DOMAIN OldRuns /\ \A id \in DOMAIN OldRuns : IsRunJson(OldRuns[id])

VARIABLES
    runJson,        \* id -> run.json
    scopeDirs,      \* directory -> module -> the artefact of it
    sourceTypeEnv,  \* SMA_SOURCE_TYPE of the process
    dispatch,       \* the run under way: which module, which scope
    moduleState,
    migration       \* a run.json the migration has read and not yet written
scopeVars == <<runJson, scopeDirs, sourceTypeEnv, dispatch, moduleState, migration>>

------------------------------------------------------------------------------
\* A scope without a platform is Azure's for Databricks, not for Snowflake.
ScopeIsAzure(scope) ==
    CASE scope.type = "bigquery" -> FALSE
      [] scope.type \in {"databricks", "snowflake"} ->
           scope.platform = "azure" \/ (scope.platform = "" /\ scope.type = "databricks")
      [] OTHER -> TRUE

Lower(c) == IF c = "A" THEN "a" ELSE IF c = "B" THEN "b" ELSE c

InSlug(c) == c \in {"a", "b", "1", "_", "-"}

\* Runs of other characters become one dash; dashes at the ends are cut off.
ScopeSlug(scope) ==
    LET name == [i \in DOMAIN scope.name |-> Lower(scope.name[i])]
        kept == SelectSeq([i \in DOMAIN name |-> i], LAMBDA i : InSlug(name[i]) \/ i = 1 \/ InSlug(name[i - 1]))
        dashed == [k \in DOMAIN kept |-> IF InSlug(name[kept[k]]) THEN name[kept[k]] ELSE "-"]
        solid == {k \in DOMAIN dashed : dashed[k] # "-"}
    IN  IF solid = {} THEN <<"scope">> ELSE SubSeq(dashed, Min(solid), Max(solid))

ScopeDir(scope) == <<scope.type, ScopeSlug(scope)>>

\* _SCOPE_DIR_RE: the types it knows, and a slug that begins with a letter or digit.
ListedTypes == {"synapse_workspace", "synapse_dedicated_sql", "adf", "databricks", "sap_bw"}

IsScopeDir(dir) == dir[1] \in ListedTypes /\ dir[2][1] \in {"a", "b", "1", "scope"}

ListScopes == {dir \in DOMAIN scopeDirs : IsScopeDir(dir)}

------------------------------------------------------------------------------
\* The .env's scope, when the request names none.
EffectiveScopes(asked) == IF asked = <<>> THEN <<DotEnv.primary>> ELSE asked

\* Mutant: the identity of the .env for every scope, as earlier versions had it.
StampedFromEnv(scopes) ==
    [scopes |-> scopes, tenant |-> DotEnv.tenant, subscription |-> DotEnv.subscription, rg |-> DotEnv.rg, workspace |-> DotEnv.workspace]

\* A scope outside Azure gets its own name, and its Databricks account if it has one.
StampedMeta(scopes) ==
    IF ScopeIsAzure(scopes[1])
    THEN [scopes |-> scopes, tenant |-> DotEnv.tenant, subscription |-> DotEnv.subscription, rg |-> DotEnv.rg, workspace |-> DotEnv.workspace]
    ELSE [scopes |-> scopes, tenant |-> "", subscription |-> scopes[1].account, rg |-> "", workspace |-> scopes[1].name]

\* The same for a run.json on disk; one without scopes is left alone.
Reattributed(meta) ==
    IF meta.scopes = <<>> THEN meta
    ELSE IF ScopeIsAzure(meta.scopes[1]) THEN meta
    ELSE [meta EXCEPT !.tenant = "", !.rg = "", !.subscription = meta.scopes[1].account,
                      !.workspace = IF meta.scopes[1].name = <<>> THEN <<"x">> ELSE meta.scopes[1].name]

NeedsMigration(id) == Reattributed(runJson[id]) # runJson[id]

------------------------------------------------------------------------------
NoDispatch == [pc |-> "idle", module |-> 0, scope |-> 0]
NoMigration == [of |-> 0]

ScopesInit ==
    /\ runJson = OldRuns
    /\ scopeDirs = <<>> /\ sourceTypeEnv = DotEnv.primary.type
    /\ dispatch = NoDispatch /\ moduleState = [i \in DOMAIN RunModules |-> "queued"]
    /\ migration = NoMigration

\* JobRunner.start, up to the task it creates.
StartScopes(asked) ==
    /\ dispatch.pc = "idle" /\ NewRun \notin DOMAIN runJson
    /\ runJson' = [id \in DOMAIN runJson \cup {NewRun} |->
                     IF id = NewRun THEN StampedMeta(EffectiveScopes(asked)) ELSE runJson[id]]
    /\ dispatch' = [pc |-> "module", module |-> 1, scope |-> 1]
    /\ UNCHANGED <<scopeDirs, sourceTypeEnv, moduleState, migration>>

Scopes == runJson[NewRun].scopes
MultiScope == Len(Scopes) > 1
Current == Scopes[dispatch.scope]
Module == RunModules[dispatch.module]

\* What a factory of modules/__init__.py builds, from the primary scope of the
\* configuration; the workload modules refuse another source's.
Refuses(module, primary) ==
    module \in {"databricks", "bigquery", "snowflake"} /\ module # primary.type

Collector(module, primary) ==
    IF Refuses(module, primary) THEN "none"
    ELSE IF module \in {"databricks", "bigquery", "snowflake"} THEN module
    ELSE IF module = "pipelines" /\ primary.type = "adf" THEN "adf" ELSE "synapse_workspace"

\* _cfg_for_scope: the name and the group of the scope; the scopes of the
\* configuration stay those of the .env.
Target(scope) == [workspace |-> scope.name, rg |-> IF scope.rg = "" THEN DotEnv.rg ELSE scope.rg]

Artefact(scope) == [scope |-> scope, collector |-> Collector(Module, DotEnv.primary), target |-> Target(scope)]

\* The directory is made, and the type of the scope stamped for the module.
EnterScope ==
    /\ dispatch.pc = "module" /\ MultiScope /\ dispatch.module \in DOMAIN RunModules
    /\ scopeDirs' = IF ScopeDir(Current) \in DOMAIN scopeDirs THEN scopeDirs
                    ELSE [d \in DOMAIN scopeDirs \cup {ScopeDir(Current)} |-> IF d \in DOMAIN scopeDirs THEN scopeDirs[d] ELSE <<>>]
    /\ sourceTypeEnv' = Current.type
    /\ dispatch' = [dispatch EXCEPT !.pc = "running"]
    /\ moduleState' = [moduleState EXCEPT ![dispatch.module] = "running"]
    /\ UNCHANGED <<runJson, migration>>

\* Mutant: the type is restored only after a module that did not raise.
EnvLeftOnError(raised) == IF raised THEN sourceTypeEnv ELSE DotEnv.primary.type

EnvRestored(raised) == DotEnv.primary.type

NextModule == [pc |-> "module", module |-> dispatch.module + 1, scope |-> 1]

\* The module has written the scope's artefact; then the next scope, or the next module.
ScopeDone ==
    /\ dispatch.pc = "running" /\ ~Refuses(Module, DotEnv.primary)
    /\ LET dir == ScopeDir(Current)
           files == scopeDirs[dir]
       IN  scopeDirs' = [scopeDirs EXCEPT ![dir] = [m \in DOMAIN files \cup {Module} |-> IF m = Module THEN Artefact(Current) ELSE files[m]]]
    /\ sourceTypeEnv' = EnvRestored(FALSE)
    /\ IF dispatch.scope < Len(Scopes)
       THEN dispatch' = [dispatch EXCEPT !.pc = "module", !.scope = @ + 1] /\ UNCHANGED moduleState
       ELSE dispatch' = NextModule /\ moduleState' = [moduleState EXCEPT ![dispatch.module] = "ok"]
    /\ UNCHANGED <<runJson, migration>>

\* An exception ends the module: the scopes after this one are not tried.
ScopeRaises ==
    /\ dispatch.pc = "running"
    /\ sourceTypeEnv' = EnvRestored(TRUE)
    /\ dispatch' = NextModule /\ moduleState' = [moduleState EXCEPT ![dispatch.module] = "failed"]
    /\ UNCHANGED <<runJson, scopeDirs, migration>>

\* A run of one scope keeps the flat layout and the configuration of the .env.
FlatModule ==
    /\ dispatch.pc = "module" /\ ~MultiScope /\ dispatch.module \in DOMAIN RunModules
    /\ dispatch' = NextModule
    /\ \E outcome \in {"ok", "failed"} :
         /\ outcome = "ok" => ~Refuses(Module, DotEnv.primary)
         /\ moduleState' = [moduleState EXCEPT ![dispatch.module] = outcome]
    /\ UNCHANGED <<runJson, scopeDirs, sourceTypeEnv, migration>>

RunOfScopesEnds ==
    /\ dispatch.pc = "module" /\ dispatch.module \notin DOMAIN RunModules
    /\ dispatch' = [NoDispatch EXCEPT !.pc = "ended"]
    /\ UNCHANGED <<runJson, scopeDirs, sourceTypeEnv, moduleState, migration>>

------------------------------------------------------------------------------
\* POST /migrations/run-attribution: the run.json files one after the other, each
\* read, then replaced if it changes.
MigrationReads(id) ==
    /\ migration = NoMigration /\ NeedsMigration(id)
    /\ migration' = [of |-> id, meta |-> Reattributed(runJson[id])]
    /\ UNCHANGED <<runJson, scopeDirs, sourceTypeEnv, dispatch, moduleState>>

MigrationWrites ==
    /\ migration # NoMigration
    /\ runJson' = [runJson EXCEPT ![migration.of] = migration.meta]
    /\ migration' = NoMigration
    /\ UNCHANGED <<scopeDirs, sourceTypeEnv, dispatch, moduleState>>

ScopesNext ==
    \/ \E asked \in ScopeLists : StartScopes(asked)
    \/ EnterScope \/ ScopeDone \/ ScopeRaises \/ FlatModule \/ RunOfScopesEnds
    \/ \E id \in DOMAIN runJson : MigrationReads(id)
    \/ MigrationWrites

ScopesSpec == ScopesInit /\ [][ScopesNext]_scopeVars

------------------------------------------------------------------------------
\* The migration brings old runs to what a start stamps today, and nothing else:
\* a run of this version and an Azure run are never on its list, and a run it has
\* been through is not on the list a second time (migrate_run_attribution, "to
\* match the new convention").  A scope outside Azure may have no display name:
\* then the migration calls the run x, and a start does not.
AttributionAgrees ==
    LET named(scopes) == ScopeIsAzure(scopes[1]) \/ scopes[1].name # <<>>
    IN  /\ NewRun \in DOMAIN runJson /\ named(runJson[NewRun].scopes) => ~NeedsMigration(NewRun)
        /\ \A id \in DOMAIN runJson :
             /\ Reattributed(Reattributed(runJson[id])) = Reattributed(runJson[id])
             /\ NeedsMigration(id) => ~ScopeIsAzure(runJson[id].scopes[1])
             /\ id \in DOMAIN OldRuns /\ runJson[id] # OldRuns[id] /\ named(runJson[id].scopes) =>
                  runJson[id] = StampedMeta(runJson[id].scopes)

\* A module that is ok has, for every scope of the run, an artefact in the scope's
\* directory, made for a scope of that directory; and a scope's type is seen by
\* its module only: SMA_SOURCE_TYPE is the .env's again whenever no scope is
\* being analysed, a failed one included (JobRunner._run).
ScopesAnswered ==
    /\ dispatch.pc # "running" => sourceTypeEnv = DotEnv.primary.type
    /\ dispatch.pc = "running" => sourceTypeEnv = Current.type
    /\ NewRun \in DOMAIN runJson /\ MultiScope => \A m \in DOMAIN RunModules : moduleState[m] = "ok" =>
         \A i \in DOMAIN Scopes : LET dir == ScopeDir(Scopes[i]) IN
           /\ RunModules[m] \in DOMAIN scopeDirs[dir]
           /\ ScopeDir(scopeDirs[dir][RunModules[m]].scope) = dir

\* Who a run belongs to and what it found in each scope are told as they are
\* (JobRunner.start, _run, migrate_run_attribution).
ScopesTrue == AttributionAgrees /\ ScopesAnswered

\* "Used to ensure modules.__init__ dispatch picks the correct provider for each
\* scope inside a multi-scope run" (web/jobs.py, _stamp_source_type_env).
ProviderPerScope ==
    \A dir \in DOMAIN scopeDirs : \A m \in DOMAIN scopeDirs[dir] :
        scopeDirs[dir][m].collector = Collector(m, scopeDirs[dir][m].scope)
================================================================================
