----------------------------- MODULE MCAuction -----------------------------
(* Auction with small constants for TLC: k1 and k2 are the keywords of one *)
(* group, i1 is an intent position of another advertiser.                  *)
EXTENDS Auction, TLC

CONSTANTS k1, k2, i1

TwoAndOne == (k1 :> 1) @@ (k2 :> 1) @@ (i1 :> 2)
=============================================================================
