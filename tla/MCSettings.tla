----------------------------- MODULE MCSettings -----------------------------
(***************************************************************************)
(* What the page saves, and the shell the server is started from.          *)
(***************************************************************************)
EXTENDS Settings

Set(key, value) == [key |-> key, value |-> value]

\* Choosing Snowflake with an account, clearing the account, and going back to a
\* Synapse workspace.
PageSaves == {<<Set("source", "snowflake"), Set("account", "a1")>>,
              <<Set("account", Absent)>>,
              <<Set("source", "synapse_workspace"), Set("account", Absent)>>}

\* A shell that exports the look-back window and nothing else.
Shell == [k \in Keys |-> IF k = "days" THEN "30" ELSE Absent]

=============================================================================
