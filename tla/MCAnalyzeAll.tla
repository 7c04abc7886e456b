---------------------------- MODULE MCAnalyzeAll ----------------------------
\* Two modules of the first wave, one of them opt-in, and the mapping.
EXTENDS AnalyzeAll, TLC

MCWaveA == <<"dedicated_pools", "governance">>
MCWaveB == <<"fabric_mapping">>
MCOptIn == {"governance"}
MCInputs == "fabric_mapping" :> <<"dedicated_pools", "governance">>
            @@ [m \in RangeOf(MCWaveA) |-> <<>>]
=============================================================================
