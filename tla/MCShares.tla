------------------------------ MODULE MCShares ------------------------------
(***************************************************************************)
(* Shares for TLC.                                                         *)
(***************************************************************************)
EXTENDS Shares, TLC

Symmetry == Permutations(ShareId)
=============================================================================
