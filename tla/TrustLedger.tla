---------------------------- MODULE TrustLedger ----------------------------
(***************************************************************************)
(* The trust ledger, written by mail sessions and by requests to POST      *)
(* /trust/attest, several at a time.  Each message is one SQL transaction  *)
(* of a few statements, any of which may fail.  A message may arrive       *)
(* again, or before the one it answers.                                    *)
(*                                                                         *)
(* SQLite (WAL, deferred transactions): a transaction that has read works  *)
(* on that snapshot; its first write takes the only write lock: it waits   *)
(* or fails while another holds it, and fails when another has committed   *)
(* since the read.  What is not committed is rolled back, also by a crash. *)
(***************************************************************************)
EXTENDS Integers, Sequences

CONSTANTS
  Handlers,     \* messages processed at a time
  Ids,          \* attestation ids that messages name
  Addrs,        \* addresses of attestors, subjects and others
  Claims,       \* the attestations that are sent
  NoRow, Free   \* no row of that id; the write lock is free

Types == {"payment_processor", "platform_rating", "customer_endorsement",
          "vendor_relationship", "license"}
Row == [type : Types, attestor : Addrs, subject : Addrs,
        kind : {"bilateral", "unilateral"},
        status : {"pending", "confirmed", "revoked"}]

ASSUME TrustAssumption ==
  /\ Claims \subseteq [id : Ids, type : Types, sender : Addrs, subject : Addrs]
  /\ NoRow \notin Row /\ Free \notin Handlers

VARIABLES
  attestations,   \* attestations[id]: the row, or NoRow
  edges,          \* edges[id]: the rows of trust_edges with that attestation_id
  log,            \* ledger_log
  writer, draft,  \* who holds the write lock, and what it is to commit
  outdated,       \* handlers whose snapshot is older than the last commit
  pc, message,    \* the statement a handler is at, for which message
  held            \* the attestation it has read, or is recording

tables == <<attestations, edges, log>>
lock == <<writer, draft, outdated>>
session == <<pc, message, held>>
ledgerVars == <<tables, lock, session>>

NoDraft == [row |-> NoRow, edges |-> <<>>, log |-> <<>>]

(* platform_rating is unilateral, everything else starts bilateral.         *)
Recorded(c) ==
  LET rating == c.type = "platform_rating" IN
  [type |-> c.type, attestor |-> c.sender, subject |-> c.subject,
   kind |-> IF rating THEN "unilateral" ELSE "bilateral",
   status |-> IF rating THEN "confirmed" ELSE "pending"]

Messages ==
  {[action |-> "attestation", id |-> c.id, sender |-> c.sender,
    row |-> Recorded(c)] : c \in Claims}
    \cup [action : {"confirm", "revoke"}, id : Ids, sender : Addrs, row : {NoRow}]
None == [action |-> "none"]

LedgerInit ==
  /\ attestations = [id \in Ids |-> NoRow] /\ edges = [id \in Ids |-> <<>>]
  /\ log = <<>>
  /\ writer = Free /\ draft = NoDraft /\ outdated = {}
  /\ pc = [h \in Handlers |-> "idle"]
  /\ message = [h \in Handlers |-> None] /\ held = [h \in Handlers |-> NoRow]

Proceed(h, label) == pc' = [pc EXCEPT ![h] = label]
Id(h) == message[h].id

(* processMessage, HandleSubmitAttestation: route by action.                *)
Receive(h) ==
  /\ pc[h] = "idle"
  /\ \E m \in Messages :
       /\ message' = [message EXCEPT ![h] = m]
       /\ held' = [held EXCEPT ![h] = m.row]
       /\ Proceed(h, IF m.action = "attestation" THEN "insert" ELSE "load")
  /\ UNCHANGED <<tables, lock>>

(* An error, or a refusal: the deferred Rollback, and the sender is told.   *)
Rollback(h) ==
  /\ Proceed(h, "idle")
  /\ message' = [message EXCEPT ![h] = None] /\ held' = [held EXCEPT ![h] = NoRow]
  /\ writer' = IF writer = h THEN Free ELSE writer
  /\ draft' = IF writer = h THEN NoDraft ELSE draft
  /\ outdated' = outdated \ {h}
  /\ UNCHANGED tables

(* The subject confirms what is pending; either party revokes, once.        *)
May(m, row) ==
  \/ /\ m.action = "confirm"
     /\ row.status = "pending" /\ m.sender = row.subject
  \/ /\ m.action = "revoke"
     /\ row.status # "revoked" /\ m.sender \in {row.attestor, row.subject}
Taken(m, row) == row # NoRow /\ May(m, row)

Load(h) ==
  /\ pc[h] = "load"
  /\ LET row == attestations[Id(h)] IN
       \/ /\ Taken(message[h], row)
          /\ held' = [held EXCEPT ![h] = row]
          /\ Proceed(h, "update")
          /\ UNCHANGED <<tables, lock, message>>
       \/ ~Taken(message[h], row) /\ Rollback(h)

(* The first statement that writes.                                         *)
CanWriteStale(h) == writer = Free   \* mutant
CanWrite(h) == writer = Free /\ h \notin outdated
FirstWrite(h, row) ==
  /\ CanWrite(h)
  /\ writer' = h
  /\ draft' = [row |-> row, edges |-> edges[Id(h)], log |-> <<>>]
  /\ UNCHANGED <<tables, outdated, message, held>>

(* INSERT INTO attestations fails for an id that is taken.                  *)
Insert(h) ==
  /\ pc[h] = "insert"
  /\ attestations[Id(h)] = NoRow
  /\ FirstWrite(h, message[h].row)
  /\ Proceed(h, "log")

Confirming(h) == message[h].action = "confirm"
NewStatus(h) == IF Confirming(h) THEN "confirmed" ELSE "revoked"
Update(h) ==
  /\ pc[h] = "update"
  /\ FirstWrite(h, [attestations[Id(h)] EXCEPT !.status = NewStatus(h)])
  /\ Proceed(h, IF Confirming(h) THEN "log" ELSE "delete")

Write(h, new) == /\ draft' = new
                 /\ UNCHANGED <<tables, writer, outdated, message, held>>

KeepEdges(h) ==   \* mutant
  /\ pc[h] = "delete"
  /\ Write(h, draft)
  /\ Proceed(h, "log")
DeleteEdges(h) ==
  /\ pc[h] = "delete"
  /\ Write(h, [draft EXCEPT !.edges = <<>>])
  /\ Proceed(h, "log")

Entry(m) == [action |-> m.action, id |-> m.id, sender |-> m.sender]
MakesEdges(h) ==
  \/ Confirming(h)
  \/ message[h].action = "attestation" /\ held[h].kind = "unilateral"
LogAction(h) ==
  /\ pc[h] = "log"
  /\ Write(h, [draft EXCEPT !.log = Append(@, Entry(message[h]))])
  /\ Proceed(h, IF MakesEdges(h) THEN "edge" ELSE "commit")

Linked(row, from, to) ==
  [from |-> from, to |-> to, kind |-> row.kind, type |-> row.type]
InsertEdge(h) ==
  /\ pc[h] = "edge"
  /\ Write(h, [draft EXCEPT !.edges =
                 Append(@, Linked(held[h], held[h].attestor, held[h].subject))])
  /\ Proceed(h, IF Confirming(h) THEN "edge_back" ELSE "commit")
InsertEdgeBack(h) ==
  /\ pc[h] = "edge_back"
  /\ Write(h, [draft EXCEPT !.edges =
                 Append(@, Linked(held[h], held[h].subject, held[h].attestor))])
  /\ Proceed(h, "commit")

Commit(h) ==
  /\ pc[h] = "commit"
  /\ attestations' = [attestations EXCEPT ![Id(h)] = draft.row]
  /\ edges' = [edges EXCEPT ![Id(h)] = draft.edges]
  /\ log' = log \o draft.log
  /\ writer' = Free /\ draft' = NoDraft
  /\ outdated' = outdated \cup {g \in Handlers : pc[g] = "update"}
  /\ Proceed(h, "idle")
  /\ message' = [message EXCEPT ![h] = None] /\ held' = [held EXCEPT ![h] = NoRow]

Fail(h) == pc[h] # "idle" /\ Rollback(h)

Process(h) ==
  \/ Receive(h) \/ Load(h) \/ Insert(h) \/ Update(h) \/ DeleteEdges(h)
  \/ LogAction(h) \/ InsertEdge(h) \/ InsertEdgeBack(h) \/ Commit(h) \/ Fail(h)
LedgerNext == \E h \in Handlers : Process(h)
LedgerSpec == LedgerInit /\ [][LedgerNext]_ledgerVars

-----------------------------------------------------------------------------
(***************************************************************************)
(* The ledger implements TrustGraph: whatever is sent twice, out of order  *)
(* or at the same time, each attestation is made, confirmed and revoked at *)
(* most once, and the edges are those of the attestations that stand.      *)
(***************************************************************************)
Graph == INSTANCE TrustGraph WITH claims <- attestations, graph <- edges
ImplementsTrustGraph == Graph!Init /\ [][Graph!Next]_(Graph!vars)

(***************************************************************************)
(* The log ("append-only audit trail") accounts for every attestation: one *)
(* entry for each step of its life, in order, by an address that may take  *)
(* it, and none for what was rolled back.                                  *)
(***************************************************************************)
Rank == [attestation |-> 0, confirm |-> 1, revoke |-> 2]
InOrder ==
  \A i, j \in DOMAIN log :
    i < j /\ log[i].id = log[j].id => Rank[log[i].action] < Rank[log[j].action]

Logged(action, id) ==
  \E i \in DOMAIN log : log[i].action = action /\ log[i].id = id
StatusIs(id, statuses) ==
  attestations[id] # NoRow /\ attestations[id].status \in statuses
Bilateral(id) == attestations[id] # NoRow /\ attestations[id].kind = "bilateral"
Told(id) ==
  /\ Logged("attestation", id) <=> attestations[id] # NoRow
  /\ Logged("revoke", id) <=> StatusIs(id, {"revoked"})
  /\ StatusIs(id, {"confirmed"}) /\ Bilateral(id) => Logged("confirm", id)
  /\ Logged("confirm", id) => Bilateral(id) /\ ~StatusIs(id, {"pending"})

Signed(entry) ==
  LET row == attestations[entry.id] IN
  /\ entry.action = "attestation" => entry.sender = row.attestor
  /\ entry.action = "confirm" => entry.sender = row.subject
  /\ entry.action = "revoke" => entry.sender \in {row.attestor, row.subject}

LogTellsStatus == /\ InOrder
                  /\ \A id \in Ids : Told(id)
                  /\ \A i \in DOMAIN log : Signed(log[i])
=============================================================================
