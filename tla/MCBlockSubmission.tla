-------------------------- MODULE MCBlockSubmission -------------------------
(***************************************************************************)
(* BlockSubmission for TLC: two sessions, one of which finds two blocks.   *)
(***************************************************************************)
EXTENDS BlockSubmission, TLC

CONSTANTS s1, s2, b1, b2, b3

MCFinder == [b \in Block |-> IF b = b1 THEN s2 ELSE s1]

Symmetry == Permutations({b2, b3})
=============================================================================
