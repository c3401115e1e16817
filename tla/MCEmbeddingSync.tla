-------------------------- MODULE MCEmbeddingSync --------------------------
(* EmbeddingSync with small constants for TLC; the cfg files choose them.  *)
EXTENDS EmbeddingSync, TLC

(* Calls of sync are interchangeable, and so are writers and embeddings.   *)
Alike ==
  Permutations(Fetches) \cup Permutations(Writers) \cup Permutations(Embeddings)
=============================================================================
