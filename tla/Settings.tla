------------------------------ MODULE Settings ------------------------------
(***************************************************************************)
(* The settings of the control plane: the .env file, the environment of    *)
(* the process, and who writes them.                                       *)
(*                                                                         *)
(* The file is written by PUT /api/config (write_config, web/config_io.py) *)
(* one key at a time and by the Snowflake sign-in thread                   *)
(* (web/api/snowflake_auth.py); each key is a read of the file and a       *)
(* replacement of it, and nothing orders the writers.  The environment is  *)
(* loaded from the file when a run starts (load_config, config.py) and     *)
(* overridden by the run while it lasts (web/jobs.py).  The Google sign-in *)
(* (web/api/gcp_auth.py) has the same states and writes a file of its own. *)
(***************************************************************************)
EXTENDS Naturals, Sequences, FiniteSets

CONSTANTS
    Writers,       \* the threads that serve PUT /api/config
    Logins,        \* the threads that sign in, one per accepted login call
    Saves,         \* what the page may save: sequences of records [key, value]
    Boot,          \* the environment the process is started with
    SourceTypes, Accounts,    \* values of the settings
    Windows,       \* the look-back windows a run may ask for
    MaxSaves, MaxStarts, MaxRestarts     \* bounds on calls

\* SMA_SOURCE_TYPE, SNOWFLAKE_ACCOUNT, SNOWFLAKE_OAUTH_REFRESH_TOKEN and the
\* SMA_*_DAYS variables.
Keys == {"source", "account", "token", "days"}
Absent == "absent"
Granted == "granted"                   \* a refresh token a sign-in brought
Providers == {"gcp", "snowflake"}

Values == SourceTypes \cup Accounts \cup Windows \cup {Granted, Absent} \cup {Boot[k] : k \in Keys}

\* The page does not offer the look-back variables, and a token pasted into it
\* by hand is not followed here.
ASSUME SettingsAssumption ==
    /\ Saves \subseteq Seq([key : {"source", "account"}, value : Values])
    /\ Boot \in [Keys -> Values]
    /\ Writers \cap Logins = {}
    /\ MaxSaves \in Nat /\ MaxStarts \in Nat /\ MaxRestarts \in Nat

VARIABLES
    file,      \* .env: the value of each key, or Absent
    env,       \* os.environ
    todo,      \* todo[w]: the keys thread w still has to write
    held,      \* held[w]: the file as set_key or unset_key has read it
    flow,      \* flow[l]: the provider of sign-in thread l and where it stands
    status,    \* status[p]: the _status of p's module
    run,       \* the run in flight, and what it overrides
    loaded,    \* history: the environment as the last load_config left it
    intended,  \* history: the file if every write had touched its key only
    overlapped,  \* history: a write was based on a file that changed under it
    calls      \* how often each bounded action has happened

fileVars == <<file, todo, held, intended, overlapped>>
flowVars == <<flow, status>>
inFlightVars == <<env, run, loaded>>
settingsVars == <<fileVars, flowVars, inFlightVars, calls>>

Threads == Writers \cup Logins
NoCopy == [read |-> FALSE, file |-> [k \in Keys |-> Absent]]
NoRun == [pc |-> "idle", file |-> [k \in Keys |-> Absent], days |-> Absent,
          saved |-> Absent, source |-> Absent, prev |-> Absent]

SettingsInit ==
    /\ file = [k \in Keys |-> Absent]
    /\ env = Boot /\ loaded = Boot
    /\ todo = [w \in Threads |-> <<>>]
    /\ held = [w \in Threads |-> NoCopy]
    /\ flow = [l \in Logins |-> [of |-> "gcp", pc |-> "unused"]]
    /\ status = [p \in Providers |-> "idle"]
    /\ run = NoRun
    /\ intended = file /\ overlapped = FALSE
    /\ calls = [saves |-> 0, starts |-> 0, restarts |-> 0]

----------------------------------------------------------------------------
(* Writing the file.                                                        *)

\* PUT /api/config with a field for every key of save.
PutBegins(w, save) ==
    /\ todo[w] = <<>>
    /\ calls.saves < MaxSaves
    /\ todo' = [todo EXCEPT ![w] = save]
    /\ calls' = [calls EXCEPT !.saves = @ + 1]
    /\ UNCHANGED <<file, held, intended, overlapped, flowVars, inFlightVars>>

\* set_key and unset_key copy the file they find ...
WriterReads(w) ==
    /\ todo[w] # <<>> /\ ~held[w].read
    /\ held' = [held EXCEPT ![w] = [read |-> TRUE, file |-> file]]
    /\ UNCHANGED <<file, todo, intended, overlapped, flowVars, inFlightVars, calls>>

\* ... and put the copy with one key changed in its place.
Replace(w) ==
    LET change == Head(todo[w])
    IN /\ file' = [held[w].file EXCEPT ![change.key] = change.value]
       /\ intended' = [intended EXCEPT ![change.key] = change.value]
       /\ overlapped' = (overlapped \/ held[w].file # file)
       /\ todo' = [todo EXCEPT ![w] = Tail(@)]
       /\ held' = [held EXCEPT ![w] = NoCopy]

WriterReplaces(w) ==
    /\ held[w].read
    /\ Replace(w)
    /\ UNCHANGED <<flowVars, inFlightVars, calls>>

----------------------------------------------------------------------------
(* Signing in.                                                              *)

\* Mutant: a second sign-in starts while the browser of the first is open.
LoginAllowedAlways(p) == p = "snowflake" => file.account # Absent

\* No sign-in is pending; Snowflake needs an account in the file.
LoginAllowed(p) == /\ status[p] # "pending"
                   /\ p = "snowflake" => file.account # Absent

\* POST /api/auth/<p>/login, which starts thread l.
Login(l, p) ==
    /\ flow[l].pc = "unused"
    /\ LoginAllowed(p)
    /\ status' = [status EXCEPT ![p] = "pending"]
    /\ flow' = [flow EXCEPT ![l] = [of |-> p, pc |-> "listening"]]
    /\ UNCHANGED <<fileVars, inFlightVars, calls>>

\* Thread l is over and leaves status s.
Over(l, s) == /\ status' = [status EXCEPT ![flow[l].of] = s]
              /\ flow' = [flow EXCEPT ![l].pc = "over"]

\* What a sign-in that failed is reported as.
Failed == "error"

\* Mutant: the listener is not given a timeout.
BoundedWaitForgotten(l) == FALSE

\* server.timeout is set before handle_request, for Snowflake only.
BoundedWait(l) == flow[l].of = "snowflake"

\* Nobody came back within _CALLBACK_WAIT_SECS.
FlowTimesOut(l) ==
    /\ flow[l].pc = "listening"
    /\ BoundedWait(l)
    /\ Over(l, Failed)
    /\ UNCHANGED <<fileVars, inFlightVars, calls>>

\* Denied, not exchanged, no listener, or something else than the callback
\* reached it.
FlowFails(l) ==
    /\ flow[l].pc = "listening"
    /\ Over(l, Failed)
    /\ UNCHANGED <<fileVars, inFlightVars, calls>>

\* The browser comes back with a code and a refresh token is had for it: the
\* Google one goes to a file of its own.
GoogleReady(l) ==
    /\ flow[l] = [of |-> "gcp", pc |-> "listening"]
    /\ Over(l, "ready")
    /\ UNCHANGED <<fileVars, inFlightVars, calls>>

\* The Snowflake one goes to .env.
FlowGranted(l) ==
    /\ flow[l] = [of |-> "snowflake", pc |-> "listening"]
    /\ flow' = [flow EXCEPT ![l].pc = "saving"]
    /\ todo' = [todo EXCEPT ![l] = <<[key |-> "token", value |-> Granted]>>]
    /\ UNCHANGED <<file, held, intended, overlapped, status, inFlightVars, calls>>

\* Mutant: ready is reported before set_key has returned.
TokenSavedEarly(l) == flow[l].pc = "saving" /\ held[l].read

\* set_key has returned (its steps are those of a writer).
TokenSaved(l) == flow[l].pc = "saving" /\ todo[l] = <<>>

FlowReady(l) ==
    /\ TokenSaved(l)
    /\ Over(l, "ready")
    /\ UNCHANGED <<fileVars, inFlightVars, calls>>

\* set_key raises.
FlowUnsaved(l) ==
    /\ flow[l].pc = "saving" /\ todo[l] # <<>>
    /\ todo' = [todo EXCEPT ![l] = <<>>]
    /\ held' = [held EXCEPT ![l] = NoCopy]
    /\ Over(l, Failed)
    /\ UNCHANGED <<file, intended, overlapped, inFlightVars, calls>>

\* POST /api/auth/<p>/reset
Reset(p) ==
    /\ status[p] \in {"ready", "error"}
    /\ status' = [status EXCEPT ![p] = "idle"]
    /\ UNCHANGED <<fileVars, flow, inFlightVars, calls>>

----------------------------------------------------------------------------
(* A run and the environment.                                               *)

\* load_dotenv with override=True: what the file has replaces what the
\* environment has; a key the file does not have is left as it is.
Load == [k \in Keys |-> IF file[k] # Absent THEN file[k] ELSE env[k]]

\* load_config raises without what the source type requires.
Loadable(e) == e.source = "snowflake" => e.account # Absent

\* JobRunner.start
RunStarts ==
    /\ run.pc = "idle"
    /\ calls.starts < MaxStarts
    /\ env' = Load /\ loaded' = Load
    /\ run' = IF Loadable(Load) THEN [NoRun EXCEPT !.pc = "scheduled", !.file = file] ELSE NoRun
    /\ calls' = [calls EXCEPT !.starts = @ + 1]
    /\ UNCHANGED <<fileVars, flowVars>>

\* _run overrides the window when the run asks for one.
RunEnters(days) ==
    /\ run.pc = "scheduled"
    /\ run' = [run EXCEPT !.pc = "inside", !.days = days, !.saved = env.days]
    /\ env' = IF days = Absent THEN env ELSE [env EXCEPT !.days = days]
    /\ UNCHANGED <<fileVars, flowVars, loaded, calls>>

\* _stamp_source_type_env, for one scope of a module of a run of several.
ScopeBegins(source) ==
    /\ run.pc = "inside"
    /\ run' = [run EXCEPT !.pc = "scope", !.source = source, !.prev = env.source]
    /\ env' = [env EXCEPT !.source = source]
    /\ UNCHANGED <<fileVars, flowVars, loaded, calls>>

\* Mutant: what is restored is not what was there before.
RestoredDropped == Absent
\* _restore
Restored == run.prev

\* The analyzer returned or raised.
ScopeEnds ==
    /\ run.pc = "scope"
    /\ run' = [run EXCEPT !.pc = "inside", !.source = Absent, !.prev = Absent]
    /\ env' = [env EXCEPT !.source = Restored]
    /\ UNCHANGED <<fileVars, flowVars, loaded, calls>>

\* The finally block of _run.
RunEnds ==
    /\ run.pc = "inside"
    /\ run' = NoRun
    /\ env' = IF run.days = Absent THEN env ELSE [env EXCEPT !.days = run.saved]
    /\ UNCHANGED <<fileVars, flowVars, loaded, calls>>

\* The process dies and is started again: a save may be half done.
RestartServer ==
    /\ calls.restarts < MaxRestarts
    /\ env' = Boot /\ loaded' = Boot
    /\ run' = NoRun
    /\ todo' = [w \in Threads |-> <<>>]
    /\ held' = [w \in Threads |-> NoCopy]
    /\ flow' = [l \in Logins |-> IF flow[l].pc = "unused" THEN flow[l]
                                 ELSE [flow[l] EXCEPT !.pc = "over"]]
    /\ status' = [p \in Providers |-> "idle"]
    /\ calls' = [calls EXCEPT !.restarts = @ + 1]
    /\ UNCHANGED <<file, intended, overlapped>>

Write(w) == WriterReads(w) \/ WriterReplaces(w)

SignIn(l) == \/ FlowTimesOut(l) \/ FlowFails(l) \/ GoogleReady(l)
             \/ FlowGranted(l) \/ FlowReady(l) \/ FlowUnsaved(l)

SettingsNext ==
    \/ \E w \in Writers, save \in Saves : PutBegins(w, save)
    \/ \E w \in Threads : Write(w)
    \/ \E l \in Logins : SignIn(l) \/ \E p \in Providers : Login(l, p)
    \/ \E p \in Providers : Reset(p)
    \/ RunStarts \/ ScopeEnds \/ RunEnds \/ RestartServer
    \/ \E days \in Windows \cup {Absent} : RunEnters(days)
    \/ \E source \in SourceTypes : ScopeBegins(source)

SettingsSpec == SettingsInit /\ [][SettingsNext]_settingsVars

\* A sign-in thread runs, and a listener with a timeout gives up in the end.
\* Nothing makes the user answer, so a Google sign-in may wait for ever.
SettingsFairness ==
    \A l \in Logins : WF_settingsVars(FlowTimesOut(l)) /\ WF_settingsVars(Write(l)) /\ WF_settingsVars(FlowReady(l))
SettingsFairSpec == SettingsSpec /\ SettingsFairness

----------------------------------------------------------------------------
(* Properties.                                                              *)

\* At every moment the environment is what the last load left, but for the
\* window of the run that is inside _run and the source type of the scope it is
\* at: no override outlives its run or its scope, and no save, sign-in or
\* refused start reaches into a run.
EnvScoped ==
    env = [k \in Keys |->
              IF k = "days" /\ run.days # Absent THEN run.days
              ELSE IF k = "source" /\ run.pc = "scope" THEN run.source
              ELSE loaded[k]]

\* Of each provider at most one thread signs in, and its status is pending
\* exactly while it does: no two listeners compete for the callback, and no
\* status stays pending with nobody to end it.
OneSignIn ==
    \A p \in Providers :
        LET active == {l \in Logins : flow[l].of = p /\ flow[l].pc \in {"listening", "saving"}}
        IN Cardinality(active) <= 1 /\ (status[p] = "pending" <=> active # {})

\* Once the page shows Snowflake as signed in, the token is in the file, unless
\* some write of the file was based on an outdated copy of it.
ReadyMeansSaved ==
    status["snowflake"] = "ready" /\ ~overlapped => file.token = Granted

\* What the server shows of its settings is so: the overrides of the environment
\* (_run), the sign-ins under way and the token that is saved (start_login).
SettingsTrue == EnvScoped /\ OneSignIn /\ ReadyMeansSaved

\* A Snowflake sign-in comes to an end, also when the user never answers in the
\* browser and when the token cannot be saved.
SignInSettles == status["snowflake"] = "pending" ~> status["snowflake"] # "pending"

=============================================================================
