-------------------------------- MODULE MCWeb --------------------------------
(***************************************************************************)
(* Three parts of the server that share no variable: the settings, the     *)
(* event stream of a run and the scopes of a run.  A behaviour exercises   *)
(* one of them, the others stay where they begin.                          *)
(***************************************************************************)
EXTENDS MCSettings, EventStream, MCRunScopes

VARIABLE part     \* which one

WebInit == /\ part \in {"settings", "stream", "scopes"}
           /\ SettingsInit /\ StreamInit /\ ScopesInit

WebNext ==
    /\ UNCHANGED part
    /\ \/ part = "settings" /\ SettingsNext /\ UNCHANGED <<streamVars, scopeVars>>
       \/ part = "stream" /\ StreamNext /\ UNCHANGED <<settingsVars, scopeVars>>
       \/ part = "scopes" /\ ScopesNext /\ UNCHANGED <<settingsVars, streamVars>>

webVars == <<part, settingsVars, streamVars, scopeVars>>

\* The fairness of EventStream, where the stream is the part that runs.  (No
\* sign-in is under way where the settings are not.)
StreamRuns == /\ WF_streamVars(part = "stream" /\ Publish)
              /\ \A c \in Conns : WF_streamVars(part = "stream" /\ Stream(c))

WebSpec == WebInit /\ [][WebNext]_webVars /\ SettingsFairness /\ StreamRuns
==============================================================================
