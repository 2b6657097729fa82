------------------------- MODULE MCServerStatistics -------------------------
(* ServerStatistics for TLC: two concurrent callers, a threshold of two.    *)
EXTENDS ServerStatistics, TLC

CONSTANTS c1, c2, g1, g2

MCCallers == {c1, c2}
MCOneCaller == {c1}
MCTimers == {g1, g2}
MCSymmetry == Permutations(MCCallers) \cup Permutations(MCTimers)
=============================================================================
