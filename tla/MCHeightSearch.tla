--------------------------- MODULE MCHeightSearch ---------------------------
(* The height searches for TLC: short chains with every spread of timestamps. *)
EXTENDS HeightSearch

CONSTANTS TipHeight, MaxTimestamp

MCChains ==
    {c \in [0 .. TipHeight -> 0 .. MaxTimestamp] :
        \A g, h \in 0 .. TipHeight : g <= h => c[g] <= c[h] + Skew}

=============================================================================
