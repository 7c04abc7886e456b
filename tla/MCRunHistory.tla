---------------------------- MODULE MCRunHistory ----------------------------
(***************************************************************************)
(* Workspaces for RunHistory.                                              *)
(***************************************************************************)
EXTENDS RunHistory, TLC

\* Two workspaces of one name in two subscriptions.
Twins == {[sub |-> "s1", name |-> "w"], [sub |-> "s2", name |-> "w"]}
One == {[sub |-> "s1", name |-> "w"]}

ModuleSymmetry == Permutations(Modules)

=============================================================================
