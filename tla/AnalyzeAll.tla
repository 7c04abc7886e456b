----------------------------- MODULE AnalyzeAll -----------------------------
(***************************************************************************)
(* The command line of the analyzer in one output directory: analyze-all   *)
(* with its two waves on a thread pool, the single-module commands,        *)
(* run-delta, and a process that is killed at any step. The directory      *)
(* outlives the commands: a module reads whatever JSON it finds there.     *)
(* A module's JSON is the number of the command that wrote it, which       *)
(* stands for its content (every report carries its time of generation).   *)
(***************************************************************************)
EXTENDS Naturals, Integers, Sequences, FiniteSets

CONSTANTS WaveA,        \* modules of the first wave, in order of submission
          WaveB,        \* modules of the second wave, in order of submission
          Inputs,       \* Inputs[m]: the modules whose JSON m loads, in order
          OptIn,        \* modules that run only when --include names them
          MaxParallel,  \* --max-parallel
          MaxCommands   \* bound: commands given to the directory

\* Commands of a single module that exit with 2 when their report lists errors.
ErrorCommands == {"monitoring", "storage", "governance", "security", "cost", "fabric_validation"}

RangeOf(s) == {s[i] : i \in 1..Len(s)}
Modules == RangeOf(WaveA) \cup RangeOf(WaveB)
Torn(c) == -c                              \* half written by command c
Version == (-MaxCommands)..MaxCommands     \* 0: no such file

ASSUME AnalyzeAllAssumption ==
  /\ RangeOf(WaveA) # {} /\ RangeOf(WaveB) # {}
  /\ RangeOf(WaveA) \cap RangeOf(WaveB) = {}
  /\ Inputs \in [Modules -> Seq(Modules)]
  /\ OptIn \subseteq Modules
  /\ MaxParallel \in Nat \ {0} /\ MaxCommands \in Nat

VARIABLES command,   \* number of the command given last
          commandPhase,     \* what the command is doing
          mod,       \* each module's part in it
          seen,      \* the versions a module has loaded, in order of Inputs
          partial,   \* partial_failure
          exit,      \* exit code of the last command, "none" while it runs
          json,      \* the module reports on disk
          html,      \* the modules with a page
          index,     \* the modules index.html links
          manifest,  \* run_manifest.json: the version of each report it hashed
          prev,      \* the manifest loaded before it was overwritten
          delta,     \* run_delta.*: the two manifests it compares
          rewritten, \* history: reports written since a manifest was last saved
          covered    \* history: what rewritten was when it was

commandVars == <<command, commandPhase, mod, seen, partial, exit, json, html, index, manifest, prev, delta,
                 rewritten, covered>>

Absent == [m \in Modules |-> 0]
Wave == IF commandPhase = "waveA" THEN WaveA ELSE WaveB
Over(m) == mod[m] \in {"idle", "skipped", "ok", "failed"}
Busy == {m \in Modules : mod[m] \in {"running", "writing", "written"}}
Queued(ms) == {m \in ms : mod[m] = "queued"}

\* max(1, min(max_parallel, len(active)))
Workers == LET active == {m \in RangeOf(Wave) : mod[m] # "skipped"}
           IN IF Cardinality(active) < MaxParallel THEN Cardinality(active) ELSE MaxParallel

CommandInit ==
  /\ command = 0 /\ commandPhase = "idle" /\ mod = [m \in Modules |-> "idle"]
  /\ seen = [m \in Modules |-> <<>>] /\ partial = FALSE /\ exit = "none"
  /\ json = Absent /\ html = {} /\ index = {}
  /\ manifest = Absent /\ prev = Absent /\ delta = <<Absent, Absent>> /\ rewritten = {}
  /\ covered = {}

Disk == <<json, html, index, manifest, delta, rewritten, covered>>

\* A --scope flag names a source type and a display name.
Flags == [type : {"synapse_workspace", "bigquery", "nonsense"}, name : {"", "a"}]
FlagRejected(f) == f.type = "nonsense" \/ f.name = ""

\* analyze-all: flags are parsed and the effort card loaded before any work.
AnalyzeAll(skip, include, flag, cardReadable) ==
  /\ commandPhase = "idle" /\ command < MaxCommands
  /\ command' = command + 1
  /\ IF FlagRejected(flag) \/ ~cardReadable
     THEN /\ exit' = IF FlagRejected(flag) THEN "usage" ELSE "config"
          /\ UNCHANGED <<commandPhase, mod, seen, partial>>
     ELSE /\ exit' = "none" /\ commandPhase' = "waveA" /\ partial' = FALSE
          /\ mod' = [m \in Modules |-> IF m \in skip \/ m \in OptIn \ include
                                       THEN "skipped" ELSE "queued"]
          /\ seen' = [m \in Modules |-> <<>>]
  /\ UNCHANGED <<Disk, prev>>

\* analyze-<module>, map-to-fabric, validate-fabric
AnalyzeOne(m) ==
  /\ commandPhase = "idle" /\ command < MaxCommands
  /\ command' = command + 1 /\ commandPhase' = "single" /\ exit' = "none" /\ partial' = FALSE
  /\ mod' = [[x \in Modules |-> "idle"] EXCEPT ![m] = "running"]
  /\ seen' = [x \in Modules |-> <<>>]
  /\ UNCHANGED <<Disk, prev>>

\* The pool takes the steps in the order in which they were submitted.
StartModule(m) ==
  /\ commandPhase \in {"waveA", "waveB"} /\ m \in Queued(RangeOf(Wave))
  /\ \A i, j \in 1..Len(Wave) : Wave[j] = m /\ i < j => mod[Wave[i]] # "queued"
  /\ Cardinality(Busy \cap RangeOf(Wave)) < Workers
  /\ mod' = [mod EXCEPT ![m] = "running"]
  /\ UNCHANGED <<command, commandPhase, seen, partial, exit, Disk, prev>>

\* A missing or unreadable input is skipped, not an error.
LoadInput(m) ==
  /\ mod[m] = "running" /\ Len(seen[m]) < Len(Inputs[m])
  /\ seen' = [seen EXCEPT ![m] = Append(@, json[Inputs[m][Len(@) + 1]])]
  /\ UNCHANGED <<command, commandPhase, mod, partial, exit, Disk, prev>>

\* write_text truncates the file before it holds the report.
BeginWrite(m) ==
  /\ mod[m] = "running" /\ Len(seen[m]) = Len(Inputs[m])
  /\ mod' = [mod EXCEPT ![m] = "writing"]
  /\ json' = [json EXCEPT ![m] = Torn(command)] /\ rewritten' = rewritten \cup {m}
  /\ UNCHANGED <<command, commandPhase, seen, partial, exit, html, index, manifest, prev,
                 delta, covered>>

EndWrite(m) ==
  /\ mod[m] = "writing"
  /\ mod' = [mod EXCEPT ![m] = "written"] /\ json' = [json EXCEPT ![m] = command]
  /\ UNCHANGED <<command, commandPhase, seen, partial, exit, html, index, manifest, prev,
                 delta, rewritten, covered>>

\* CSV, Markdown and HTML follow the JSON.
FinishModule(m) ==
  /\ mod[m] = "written"
  /\ mod' = [mod EXCEPT ![m] = "ok"] /\ html' = html \cup {m}
  /\ UNCHANGED <<command, commandPhase, seen, partial, exit, json, index, manifest, prev,
                 delta, rewritten, covered>>

\* The analyzer or a writer raises; the other modules go on.
FailModule(m) ==
  /\ m \in Busy
  /\ mod' = [mod EXCEPT ![m] = "failed"] /\ partial' = TRUE
  /\ UNCHANGED <<command, commandPhase, seen, exit, Disk, prev>>

\* Mutant: the second wave is submitted as soon as the queue of the first is empty.
NextWaveEager ==
  /\ commandPhase \in {"waveA", "waveB"} /\ Queued(RangeOf(Wave)) = {}
  /\ commandPhase' = IF commandPhase = "waveA" THEN "waveB" ELSE "webui"
  /\ UNCHANGED <<command, mod, seen, partial, exit, Disk, prev>>

\* The pool is left when every step of the wave is over.
NextWave ==
  /\ commandPhase \in {"waveA", "waveB"} /\ \A m \in RangeOf(Wave) : Over(m)
  /\ commandPhase' = IF commandPhase = "waveA" THEN "waveB" ELSE "webui"
  /\ UNCHANGED <<command, mod, seen, partial, exit, Disk, prev>>

\* --with-webui copies files nothing in this model reads; a failure is noted.
CopyWebui(asked, fails) ==
  /\ commandPhase = "webui" /\ commandPhase' = "index"
  /\ partial' = (partial \/ (asked /\ fails))
  /\ UNCHANGED <<command, mod, seen, exit, Disk, prev>>

WriteIndex(fails) ==
  /\ commandPhase = "index" /\ commandPhase' = "manifest"
  /\ index' = IF fails THEN index ELSE html
  /\ partial' = (partial \/ fails)
  /\ UNCHANGED <<command, mod, seen, exit, json, html, manifest, prev, delta,
                 rewritten, covered>>

\* run-delta starts at the manifest.
RunDelta ==
  /\ commandPhase = "idle" /\ command < MaxCommands
  /\ command' = command + 1 /\ commandPhase' = "manifest" /\ exit' = "none" /\ partial' = FALSE
  /\ mod' = [m \in Modules |-> "idle"]
  /\ UNCHANGED <<seen, Disk, prev>>

\* load_manifest, build_manifest, save_manifest
\* Mutant: the previous manifest is loaded after the new one is saved.
SaveManifestFirst ==
  /\ commandPhase = "manifest" /\ commandPhase' = "delta"
  /\ manifest' = json /\ prev' = json /\ covered' = rewritten /\ rewritten' = {}
  /\ UNCHANGED <<command, mod, seen, partial, exit, json, html, index, delta>>

SaveManifest ==
  /\ commandPhase = "manifest" /\ commandPhase' = "delta"
  /\ manifest' = json /\ prev' = manifest /\ covered' = rewritten /\ rewritten' = {}
  /\ UNCHANGED <<command, mod, seen, partial, exit, json, html, index, delta>>

\* A manifest that was only half written is loaded as none: all reports are new.
SaveManifestFails(halfWritten) ==
  /\ commandPhase = "manifest" /\ commandPhase' = "end" /\ partial' = TRUE
  /\ manifest' = IF halfWritten THEN Absent ELSE manifest
  /\ rewritten' = IF halfWritten THEN {m \in Modules : json[m] # 0} ELSE rewritten
  /\ UNCHANGED <<command, mod, seen, exit, json, html, index, prev, delta, covered>>

WriteDelta(fails) ==
  /\ commandPhase = "delta" /\ commandPhase' = "end"
  /\ delta' = IF fails THEN delta ELSE <<prev, manifest>>
  /\ partial' = (partial \/ fails)
  /\ UNCHANGED <<command, mod, seen, exit, json, html, index, manifest, prev,
                 rewritten, covered>>

\* What is local to a command goes with it.
Forget ==
  /\ commandPhase' = "idle" /\ partial' = FALSE /\ prev' = Absent /\ covered' = {}
  /\ seen' = [m \in Modules |-> <<>>]
  /\ UNCHANGED <<command, json, html, index, manifest, delta, rewritten>>

\* Mutant: the exit code forgets what the first wave met.
EndCommandForgets ==
  /\ commandPhase = "end" /\ Forget
  /\ exit' = IF \E m \in RangeOf(WaveB) : mod[m] = "failed" THEN "partial" ELSE "ok"
  /\ UNCHANGED mod

EndCommand ==
  /\ commandPhase = "end" /\ Forget
  /\ exit' = IF partial THEN "partial" ELSE "ok"
  /\ UNCHANGED mod

\* A single-module command exits with 1 on an exception; some exit with 2 on errors.
EndSingle(errors) ==
  /\ commandPhase = "single" /\ (\A m \in Modules : Over(m))
  /\ errors => \E m \in ErrorCommands \cap Modules : mod[m] # "idle"
  /\ Forget
  /\ exit' = IF partial THEN "config" ELSE IF errors THEN "partial" ELSE "ok"
  /\ UNCHANGED mod

\* index
BuildIndex ==
  /\ commandPhase = "idle" /\ command < MaxCommands
  /\ command' = command + 1 /\ index' = html /\ exit' = "ok"
  /\ mod' = [m \in Modules |-> "idle"]
  /\ UNCHANGED <<commandPhase, seen, partial, json, html, manifest, prev, delta, rewritten, covered>>

\* The process is killed; the files stay as they are.
Kill ==
  /\ commandPhase # "idle" /\ Forget /\ exit' = "none"
  /\ mod' = [m \in Modules |-> "idle"]

ModuleStep(m) ==
  \/ StartModule(m) \/ LoadInput(m) \/ BeginWrite(m) \/ EndWrite(m)
  \/ FinishModule(m) \/ FailModule(m)

TailStep ==
  \/ NextWave
  \/ \E asked, fails \in BOOLEAN : CopyWebui(asked, fails)
  \/ \E fails \in BOOLEAN : WriteIndex(fails) \/ SaveManifestFails(fails) \/ WriteDelta(fails)
  \/ SaveManifest \/ EndCommand
  \/ \E errors \in BOOLEAN : EndSingle(errors)

CommandNext ==
  \/ \E skip \in SUBSET Modules, include \in SUBSET OptIn, f \in Flags, effortCard \in BOOLEAN :
       AnalyzeAll(skip, include, f, effortCard)
  \/ \E m \in Modules : AnalyzeOne(m) \/ ModuleStep(m)
  \/ RunDelta \/ BuildIndex \/ TailStep \/ Kill

CommandSpec == CommandInit /\ [][CommandNext]_commandVars
-----------------------------------------------------------------------------
\* What a module of the second wave has loaded of the first is final: no report of
\* this command replaces it, so the mapping and the reports beside it agree
\* (cli.py: the pool of wave A is left before wave B is submitted).
SecondWaveReadsFinal ==
  commandPhase \in {"waveB", "webui", "index", "manifest", "delta", "end"} =>
    \A m \in RangeOf(WaveB) : \A i \in 1..Len(seen[m]) :
      Inputs[m][i] \in RangeOf(WaveA) => seen[m][i] = json[Inputs[m][i]]

\* Exit code 0 of analyze-all or run-delta: every module that was asked for has
\* written its report in this very command, none is half written, and the manifest and
\* the delta are about the reports now on disk (cli.py: partial_failure).
ExitZeroIsComplete ==
  commandPhase = "idle" /\ exit = "ok" /\ (\A m \in Modules : mod[m] # "idle") =>
    /\ \A m \in Modules : mod[m] # "skipped" => json[m] = command /\ m \in html \cap index
    /\ manifest = json /\ delta[2] = json

\* A delta shows a report as unchanged exactly when nobody wrote it since the manifest
\* it is compared with, whatever commands were given, failed or were killed in between.
DeltaTellsRewritten ==
  commandPhase = "end" /\ delta = <<prev, manifest>> /\ ~partial =>
    {m \in Modules : delta[1][m] # delta[2][m]} = covered

\* The exit code and the delta of a command tell what it did to the directory
\* (cli.py, analyze_all and run_delta).
CommandAnswersTrue == ExitZeroIsComplete /\ DeltaTellsRewritten
=============================================================================
