---------------------------- MODULE MCSettlement ----------------------------
(* Settlement with small constants for TLC; the cfg files choose them.     *)
EXTENDS Settlement, TLC

(* Requests are interchangeable; used by runs without liveness.            *)
Interchangeable == Permutations(Requests)
=============================================================================
