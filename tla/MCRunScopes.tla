------------------------------ MODULE MCRunScopes ------------------------------
EXTENDS RunScopes, TLC

\* Names that differ in characters a slug drops, one that begins with an
\* underscore, one with nothing a slug keeps, and none at all.
NamedScope(type, name, rg, platform, account) ==
    [type |-> type, name |-> name, rg |-> rg, platform |-> platform, account |-> account]
ScopeSyn == NamedScope("synapse_workspace", <<"A", ".", "1">>, "", "", "")
ScopeSyn2 == NamedScope("synapse_workspace", <<"a", " ", " ", "1">>, "g2", "", "")
ScopeAdf == NamedScope("adf", <<"b", "_", "1">>, "g2", "", "")
ScopeOdd == NamedScope("adf", <<"_", "b", "-">>, "g2", "", "")
ScopeBq == NamedScope("bigquery", <<"b">>, "", "", "")
ScopeAws == NamedScope("databricks", <<"B">>, "", "aws", "acc")
ScopeDbx == NamedScope("databricks", <<".">>, "g2", "", "")
ScopeSnow == NamedScope("snowflake", <<"b">>, "", "", "")
ScopeUnnamed == NamedScope("bigquery", <<>>, "", "", "")
ScopeSnowAz == NamedScope("snowflake", <<"b">>, "", "azure", "")
MCScopeLists ==
    {<<>>, <<ScopeAdf>>, <<ScopeUnnamed>>, <<ScopeAws>>, <<ScopeSnowAz>>, <<ScopeSyn, ScopeSyn2>>, <<ScopeAdf, ScopeSyn>>, <<ScopeBq, ScopeAws>>,
     <<ScopeSnow, ScopeDbx>>, <<ScopeOdd, ScopeSyn, ScopeAdf>>}
MCDotEnv == [tenant |-> "t", subscription |-> "s", rg |-> "g", workspace |-> <<"w">>, primary |-> ScopeSyn]
OldMeta(scopes) == [scopes |-> scopes, tenant |-> "t", subscription |-> "s", rg |-> "g", workspace |-> <<"w">>]
MCOldRuns == (1 :> OldMeta(<<>>)) @@ (2 :> OldMeta(<<ScopeAws>>)) @@ (3 :> OldMeta(<<ScopeSyn>>)) @@ (4 :> OldMeta(<<ScopeSnow, ScopeSyn>>))
MCNewRun == 9
MCRunModules == <<"dedicated_pools", "pipelines", "databricks">>
================================================================================
