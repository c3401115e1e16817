---------------------------- MODULE MCPrivateAd ----------------------------
(* Two positions of a group, which share a budget.                         *)
EXTENDS PrivateAd, TLC

CONSTANTS p1, p2, k1
MCKey == (p1 :> k1) @@ (p2 :> k1)
=============================================================================
