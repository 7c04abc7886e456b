-------------------------- MODULE MCModuleProgress --------------------------
(***************************************************************************)
(* Analyzers for ModuleProgress.                                           *)
(***************************************************************************)
EXTENDS ModuleProgress

\* dedicated_pools, storage, monitoring: two threads of a pool step at once.
\* "Pool" does so while a third call grows the total, as pipelines does.
Pool == <<<<"step", "step">>, <<"step">>, <<"grow", "step">>>>

\* pipelines: one thread announces more work, says so, and does it.
Sequential == <<<<"step", "grow", "message", "step", "step", "step">>, <<>>, <<>>>>

Analyzers == {Pool, Sequential}

=============================================================================
