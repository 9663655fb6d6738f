----------------------------- MODULE MCNodeLink -----------------------------
(***************************************************************************)
(* NodeLink for TLC: nodes as one meets them.                              *)
(***************************************************************************)
EXTENDS NodeLink

CONSTANTS segwit, mweb, taproot, other

MCRule == {segwit, mweb, taproot, other}
MCProfileRules == {segwit}

(* A multi-algo node that demands two more rules than the profile names,  *)
(* one that demands three, a fork that refuses segwit.                    *)
MCNode ==
    { [demands |-> {segwit, mweb, taproot}, refuses |-> {}, takesAlgo |-> TRUE],
      [demands |-> {mweb, taproot, other}, refuses |-> {}, takesAlgo |-> FALSE],
      [demands |-> {}, refuses |-> {segwit}, takesAlgo |-> FALSE] }
=============================================================================
