-------------------------- MODULE MCJobDistribution -------------------------
(***************************************************************************)
(* JobDistribution for TLC: the node goes through at most MaxTime template *)
(* changes, MaxHeight heights and MaxPrev + 1 tips.                        *)
(***************************************************************************)
EXTENDS JobDistribution, TLC

CONSTANTS MaxHeight, MaxPrev, MaxTime

MCTemplate == [height : 1 .. MaxHeight, prev : 0 .. MaxPrev, body : Body,
               curtime : 0 .. MaxTime]

Symmetry == Permutations(Session) \cup Permutations(Body)
=============================================================================
