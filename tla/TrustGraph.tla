----------------------------- MODULE TrustGraph -----------------------------
(***************************************************************************)
(* What the trust exchange promises to curators: an attestation is made,   *)
(* confirmed and revoked in one indivisible step each, at most once and in *)
(* this order; at every moment the graph has the edges of those that       *)
(* stand, and no others.                                                   *)
(***************************************************************************)
EXTENDS Sequences

CONSTANTS Ids, NoRow

VARIABLES
  claims,   \* claims[id]: the attestation, or NoRow
  graph     \* graph[id]: the edges it has in the graph

vars == <<claims, graph>>

Edge(c, from, to) == [from |-> from, to |-> to, kind |-> c.kind, type |-> c.type]

(* "Bilateral attestations create two edges (A->B and B->A).  Unilateral    *)
(* attestations create one edge (attestor->subject)."                       *)
EdgesOf(c) ==
  IF c = NoRow THEN <<>>
  ELSE IF c.status # "confirmed" THEN <<>>
  ELSE IF c.kind = "unilateral" THEN <<Edge(c, c.attestor, c.subject)>>
  ELSE <<Edge(c, c.attestor, c.subject), Edge(c, c.subject, c.attestor)>>

Init == /\ claims = [id \in Ids |-> NoRow]
        /\ graph = [id \in Ids |-> <<>>]

Becomes(id, c) == /\ claims' = [claims EXCEPT ![id] = c]
                  /\ graph' = [graph EXCEPT ![id] = EdgesOf(c)]

Attest(id) ==
  /\ claims[id] = NoRow
  /\ claims'[id] # NoRow
  /\ claims'[id].status = IF claims'[id].kind = "unilateral" THEN "confirmed"
                                                             ELSE "pending"
  /\ Becomes(id, claims'[id])

Confirm(id) ==
  /\ claims[id] # NoRow
  /\ claims[id].status = "pending" /\ claims[id].kind = "bilateral"
  /\ Becomes(id, [claims[id] EXCEPT !.status = "confirmed"])

Revoke(id) ==
  /\ claims[id] # NoRow
  /\ claims[id].status # "revoked"
  /\ Becomes(id, [claims[id] EXCEPT !.status = "revoked"])

Next == \E id \in Ids : Attest(id) \/ Confirm(id) \/ Revoke(id)
Spec == Init /\ [][Next]_vars
=============================================================================
