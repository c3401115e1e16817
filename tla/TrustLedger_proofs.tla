------------------------ MODULE TrustLedger_proofs ------------------------
(***************************************************************************)
(* Proofs about the trust ledger, for any number of messages at a time,    *)
(* ids, addresses and attestations.                                        *)
(***************************************************************************)
EXTENDS TrustLedger, SequenceTheorems, TLAPS

Writing == {"log", "delete", "edge", "edge_back", "commit"}
Labels == Writing \cup {"idle", "load", "insert", "update"}
Link == [from : Addrs, to : Addrs, kind : {"bilateral", "unilateral"}, type : Types]
Entries == [action : {"attestation", "confirm", "revoke"}, id : Ids, sender : Addrs]

TypeInv ==
  /\ attestations \in [Ids -> Row \cup {NoRow}]
  /\ edges \in [Ids -> Seq(Link)]
  /\ log \in Seq(Entries)
  /\ writer \in Handlers \cup {Free}
  /\ draft \in [row : Row \cup {NoRow}, edges : Seq(Link), log : Seq(Entries)]
  /\ outdated \subseteq Handlers
  /\ pc \in [Handlers -> Labels]
  /\ message \in [Handlers -> Messages \cup {None}]
  /\ held \in [Handlers -> Row \cup {NoRow}]

(* What a message at each statement is about, and the one writer.           *)
Attests(h) == message[h].action = "attestation"
Revokes(h) == message[h].action = "revoke"
At(h) ==
  /\ pc[h] # "idle" => message[h] \in Messages
  /\ pc[h] = "insert" => Attests(h) /\ held[h] = message[h].row
  /\ pc[h] \in {"load", "update"} => ~Attests(h)
  /\ pc[h] \in Writing <=> writer = h

(* A snapshot that is not outdated is what the tables say.                  *)
Read(h) ==
  pc[h] = "update" /\ h \notin outdated =>
    held[h] = attestations[Id(h)] /\ Taken(message[h], held[h])

(* What the writer is about to commit.                                      *)
Drafted(h) ==
  LET m == message[h]
      old == attestations[Id(h)]
  IN  /\ Attests(h) => old = NoRow /\ held[h] = m.row /\ draft.row = m.row
      /\ ~Attests(h) =>
           /\ held[h] = old /\ Taken(m, old)
           /\ draft.row = [old EXCEPT !.status = NewStatus(h)]
      /\ draft.log = IF pc[h] \in {"log", "delete"} THEN <<>> ELSE <<Entry(m)>>
DraftedEdges(h) ==
  /\ pc[h] = "delete" => Revokes(h)
  /\ pc[h] = "log" => draft.edges = <<>>
  /\ pc[h] = "edge" => draft.edges = <<>> /\ MakesEdges(h)
  /\ pc[h] = "edge_back" =>
       /\ Confirming(h)
       /\ draft.edges = <<Linked(held[h], held[h].attestor, held[h].subject)>>
  /\ pc[h] = "commit" => draft.edges = Graph!EdgesOf(draft.row)

Standing ==
  \A id \in Ids : /\ edges[id] = Graph!EdgesOf(attestations[id])
                  /\ StatusIs(id, {"pending"}) => Bilateral(id)

LedgerInv ==
  /\ TypeInv /\ Standing
  /\ \A h \in Handlers : At(h) /\ Read(h)
  /\ \A h \in Handlers : writer = h => Drafted(h) /\ DraftedEdges(h)

-----------------------------------------------------------------------------
LEMMA MessageFacts ==
  ASSUME NEW m \in Messages
  PROVE  /\ m.id \in Ids /\ m.sender \in Addrs
         /\ m.action \in {"attestation", "confirm", "revoke"}
         /\ m.action = "attestation" =>
              /\ m.row \in Row /\ m.row # NoRow /\ m.row.attestor = m.sender
              /\ m.row.status = IF m.row.kind = "unilateral" THEN "confirmed"
                                                             ELSE "pending"
         /\ m.action # "attestation" => m.row = NoRow
<1>1. CASE m \in [action : {"confirm", "revoke"}, id : Ids, sender : Addrs, row : {NoRow}]
  BY <1>1
<1>2. ASSUME NEW c \in Claims,
             m = [action |-> "attestation", id |-> c.id, sender |-> c.sender,
                  row |-> Recorded(c)]
      PROVE  /\ m.id \in Ids /\ m.sender \in Addrs
             /\ m.action = "attestation"
             /\ m.row \in Row /\ m.row # NoRow /\ m.row.attestor = m.sender
             /\ m.row.status = IF m.row.kind = "unilateral" THEN "confirmed"
                                                            ELSE "pending"
  <2>1. c \in [id : Ids, type : Types, sender : Addrs, subject : Addrs]
    BY TrustAssumption
  <2>2. m.row \in Row
    BY <1>2, <2>1 DEF Recorded, Row
  <2>3. QED BY <1>2, <2>1, <2>2, TrustAssumption DEF Recorded
<1>3. QED BY <1>1, <1>2 DEF Messages

LEMMA NoneIsNoMessage == None \notin Messages
BY MessageFacts DEF None

LEMMA LedgerInitHolds == LedgerInit => LedgerInv
<1> SUFFICES ASSUME LedgerInit PROVE LedgerInv
  OBVIOUS
<1> USE TrustAssumption DEF LedgerInit
<1>1. TypeInv
  BY DEF TypeInv, NoDraft, Labels
<1>2. Standing
  BY DEF Standing, Graph!EdgesOf, StatusIs
<1>3. \A h \in Handlers : At(h) /\ Read(h) /\ writer # h
  BY DEF At, Read, Writing
<1>4. QED BY <1>1, <1>2, <1>3 DEF LedgerInv

-----------------------------------------------------------------------------
(* A step of h that is no commit leaves the tables alone, and so what is    *)
(* known of every other handler.                                            *)
Elsewhere(h) ==
  /\ UNCHANGED tables
  /\ \A g \in Handlers \ {h} :
       /\ pc'[g] = pc[g] /\ message'[g] = message[g] /\ held'[g] = held[g]
       /\ g \in outdated' <=> g \in outdated
       /\ writer' = g <=> writer = g
       /\ writer = g => draft' = draft

LEMMA OthersUntouched ==
  ASSUME LedgerInv, NEW h \in Handlers, Elsewhere(h), TypeInv',
         At(h)', Read(h)', writer' = h => Drafted(h)' /\ DraftedEdges(h)'
  PROVE  LedgerInv'
<1>1. Standing'
  BY DEF LedgerInv, Standing, Elsewhere, tables, StatusIs, Bilateral
<1>2. ASSUME NEW g \in Handlers, g # h
      PROVE  At(g)' /\ Read(g)' /\ (writer' = g => Drafted(g)' /\ DraftedEdges(g)')
  <2>1. At(g) /\ Read(g) /\ (writer = g => Drafted(g) /\ DraftedEdges(g))
    BY DEF LedgerInv
  <2>2. At(g)'
    BY <1>2, <2>1 DEF At, Elsewhere, Attests
  <2>3. Read(g)'
    BY <1>2, <2>1 DEF Read, Elsewhere, tables, Id
  <2>4. ASSUME writer' = g PROVE Drafted(g)' /\ DraftedEdges(g)'
    <3>1. writer = g /\ draft' = draft /\ attestations' = attestations
      BY <1>2, <2>4 DEF Elsewhere, tables
    <3>2. /\ pc'[g] = pc[g] /\ message'[g] = message[g] /\ held'[g] = held[g]
          /\ Id(g)' = Id(g) /\ Attests(g)' = Attests(g) /\ Revokes(g)' = Revokes(g)
          /\ Confirming(g)' = Confirming(g) /\ NewStatus(g)' = NewStatus(g)
          /\ MakesEdges(g)' = MakesEdges(g)
      BY <1>2 DEF Elsewhere, Attests, Revokes, Confirming, MakesEdges, Id, NewStatus
    <3>3. Drafted(g)'
      BY <2>1, <3>1, <3>2 DEF Drafted
    <3>4. DraftedEdges(g)'
      BY <2>1, <3>1, <3>2 DEF DraftedEdges
    <3>5. QED BY <3>3, <3>4
  <2>5. QED BY <2>2, <2>3, <2>4
<1>3. QED BY <1>1, <1>2 DEF LedgerInv

LEMMA RollbackHolds ==
  ASSUME LedgerInv, NEW h \in Handlers, Rollback(h)
  PROVE  LedgerInv'
<1>1. TypeInv'
  BY DEF LedgerInv, TypeInv, Rollback, Proceed, Labels, NoDraft, tables
<1>2. Elsewhere(h)
  BY TrustAssumption DEF LedgerInv, TypeInv, Rollback, Proceed, Elsewhere
<1>3. pc'[h] = "idle" /\ writer' # h
  BY TrustAssumption DEF LedgerInv, TypeInv, Rollback, Proceed
<1>4. At(h)' /\ Read(h)'
  BY <1>3 DEF At, Read, Writing
<1>5. QED BY <1>1, <1>2, <1>3, <1>4, OthersUntouched

LEMMA ReceiveHolds ==
  ASSUME LedgerInv, NEW h \in Handlers, Receive(h)
  PROVE  LedgerInv'
<1> USE DEF LedgerInv, TypeInv
<1>1. PICK m \in Messages :
        /\ message' = [message EXCEPT ![h] = m] /\ held' = [held EXCEPT ![h] = m.row]
        /\ Proceed(h, IF m.action = "attestation" THEN "insert" ELSE "load")
  BY DEF Receive
<1>2. m.row \in Row \cup {NoRow}
  BY MessageFacts
<1>3. TypeInv'
  BY <1>1, <1>2 DEF Receive, Proceed, Labels, tables, lock
<1>4. Elsewhere(h)
  BY <1>1 DEF Receive, Proceed, Elsewhere, tables, lock
<1>5. writer # h /\ writer' = writer
  BY DEF Receive, At, Writing, lock
<1>6. At(h)' /\ Read(h)'
  BY <1>1, <1>5 DEF Proceed, At, Read, Attests, Writing
<1>7. QED BY <1>3, <1>4, <1>5, <1>6, OthersUntouched

LEMMA LoadHolds ==
  ASSUME LedgerInv, NEW h \in Handlers, Load(h)
  PROVE  LedgerInv'
<1> USE DEF LedgerInv, TypeInv
<1> DEFINE row == attestations[Id(h)]
<1>1. CASE /\ Taken(message[h], row)
           /\ held' = [held EXCEPT ![h] = row]
           /\ Proceed(h, "update")
           /\ UNCHANGED <<tables, lock, message>>
  <2>1. message[h] \in Messages /\ ~Attests(h) /\ Id(h) \in Ids
    BY MessageFacts DEF Load, At, Id
  <2>2. TypeInv'
    BY <1>1, <2>1 DEF Proceed, Labels, tables, lock
  <2>3. Elsewhere(h)
    BY <1>1 DEF Proceed, Elsewhere, tables, lock
  <2>4. writer # h /\ writer' = writer
    BY <1>1 DEF Load, At, Writing, lock
  <2>5. At(h)'
    BY <1>1, <2>1, <2>4 DEF Proceed, At, Attests, Writing
  <2>6. Read(h)'
    BY <1>1 DEF Read, Id, tables, Taken, May
  <2>7. QED BY <2>2, <2>3, <2>4, <2>5, <2>6, OthersUntouched
<1>2. CASE Rollback(h)
  BY <1>2, RollbackHolds
<1>3. QED BY <1>1, <1>2 DEF Load

-----------------------------------------------------------------------------
(* The first write is on tables that the last read was of.                  *)
LEMMA FirstWriteHolds ==
  ASSUME LedgerInv, NEW h \in Handlers, NEW row \in Row, NEW label,
         FirstWrite(h, row), Proceed(h, label),
         pc[h] \in {"insert", "update"}, label \in {"log", "delete"},
         label = "delete" => Revokes(h), label = "log" => edges[Id(h)] = <<>>,
         Attests(h) => attestations[Id(h)] = NoRow /\ held[h] = row
                         /\ row = message[h].row,
         ~Attests(h) => /\ held[h] = attestations[Id(h)]
                        /\ Taken(message[h], held[h])
                        /\ row = [held[h] EXCEPT !.status = NewStatus(h)]
  PROVE  LedgerInv'
<1> USE DEF LedgerInv, TypeInv
<1>1. message[h] \in Messages /\ Id(h) \in Ids
  BY MessageFacts DEF At, Id
<1>2. TypeInv'
  BY <1>1 DEF FirstWrite, Proceed, Labels, Writing, tables
<1>3. writer = Free /\ writer' = h
  BY DEF FirstWrite, CanWrite
<1>4. Elsewhere(h)
  BY <1>3, TrustAssumption DEF FirstWrite, Proceed, Elsewhere, tables
<1>5. At(h)' /\ Read(h)'
  BY <1>1, <1>3 DEF FirstWrite, Proceed, At, Read, Writing
<1>6. /\ message' = message /\ held' = held /\ attestations' = attestations
      /\ pc'[h] = label
      /\ draft' = [row |-> row, edges |-> edges[Id(h)], log |-> <<>>]
  BY DEF FirstWrite, Proceed, tables
<1>7. Drafted(h)'
  BY <1>6 DEF Drafted, Attests, Id, Confirming, NewStatus
<1>8. DraftedEdges(h)'
  BY <1>6 DEF DraftedEdges, Revokes, Id
<1>9. QED BY <1>2, <1>4, <1>5, <1>7, <1>8, OthersUntouched

LEMMA InsertHolds ==
  ASSUME LedgerInv, NEW h \in Handlers, Insert(h)
  PROVE  LedgerInv'
<1>1. message[h] \in Messages /\ Attests(h) /\ held[h] = message[h].row
  BY DEF Insert, LedgerInv, At
<1>2. message[h].row \in Row /\ Id(h) \in Ids
  BY <1>1, MessageFacts DEF Attests, Id
<1>3. edges[Id(h)] = <<>>
  BY <1>2 DEF Insert, LedgerInv, Standing, Graph!EdgesOf
<1>4. QED BY <1>1, <1>2, <1>3, FirstWriteHolds DEF Insert, Revokes

LEMMA UpdateHolds ==
  ASSUME LedgerInv, NEW h \in Handlers, Update(h)
  PROVE  LedgerInv'
<1> DEFINE row == [held[h] EXCEPT !.status = NewStatus(h)]
<1>1. message[h] \in Messages /\ ~Attests(h)
  BY DEF Update, LedgerInv, At
<1>2. held[h] = attestations[Id(h)] /\ Taken(message[h], held[h])
  BY DEF Update, LedgerInv, Read, FirstWrite, CanWrite
<1>3. Id(h) \in Ids /\ held[h] \in Row
  BY <1>1, <1>2, MessageFacts DEF Id, Taken, LedgerInv, TypeInv
<1>4. row \in Row
  BY <1>3 DEF Row, NewStatus
<1>5. Confirming(h) => edges[Id(h)] = <<>>
  <2>1. Confirming(h) => held[h].status = "pending"
    BY <1>2 DEF Taken, May, Confirming
  <2>2. QED BY <1>2, <1>3, <2>1 DEF LedgerInv, Standing, Graph!EdgesOf
<1>6. ~Confirming(h) => Revokes(h)
  BY <1>1, MessageFacts DEF Confirming, Revokes, Attests
<1>7. /\ FirstWrite(h, row)
      /\ Proceed(h, IF Confirming(h) THEN "log" ELSE "delete")
      /\ pc[h] = "update"
  BY <1>2 DEF Update
<1>8. CASE Confirming(h)
  BY <1>1, <1>2, <1>4, <1>5, <1>7, <1>8, FirstWriteHolds
<1>9. CASE ~Confirming(h)
  BY <1>1, <1>2, <1>4, <1>6, <1>7, <1>9, FirstWriteHolds
<1>10. QED BY <1>8, <1>9

(* Every later statement of the writer changes its draft only.              *)
LEMMA WriteHolds ==
  ASSUME LedgerInv, NEW h \in Handlers, writer = h, NEW label \in Writing,
         NEW new, Write(h, new), Proceed(h, label),
         new \in [row : Row \cup {NoRow}, edges : Seq(Link), log : Seq(Entries)],
         Drafted(h)', DraftedEdges(h)'
  PROVE  LedgerInv'
<1>1. TypeInv'
  BY DEF LedgerInv, TypeInv, Write, Proceed, Labels, tables
<1>2. Elsewhere(h)
  BY DEF LedgerInv, TypeInv, Write, Proceed, Elsewhere, tables
<1>3. message[h] \in Messages
  BY DEF LedgerInv, At, Writing
<1>4. At(h)' /\ Read(h)'
  BY <1>3 DEF LedgerInv, TypeInv, Write, Proceed, At, Read, Writing
<1>5. QED BY <1>1, <1>2, <1>4, OthersUntouched

LEMMA WriterFacts ==
  ASSUME LedgerInv, NEW h \in Handlers, pc[h] \in Writing
  PROVE  /\ writer = h /\ message[h] \in Messages /\ Id(h) \in Ids
         /\ Drafted(h) /\ DraftedEdges(h)
         /\ held[h] \in Row /\ draft.row \in Row
         /\ draft \in [row : Row \cup {NoRow}, edges : Seq(Link), log : Seq(Entries)]
<1>1. writer = h /\ message[h] \in Messages /\ Drafted(h) /\ DraftedEdges(h)
  BY DEF LedgerInv, At, Writing
<1>2. Id(h) \in Ids
  BY <1>1, MessageFacts DEF Id
<1>3. CASE Attests(h)
  BY <1>1, <1>2, <1>3, MessageFacts DEF Drafted, Attests, LedgerInv, TypeInv
<1>4. CASE ~Attests(h)
  <2>1. held[h] \in Row
    BY <1>1, <1>2, <1>4 DEF Drafted, Taken, LedgerInv, TypeInv
  <2>2. [held[h] EXCEPT !.status = NewStatus(h)] \in Row
    BY <2>1 DEF Row, NewStatus
  <2>3. QED BY ZenonT(40), <1>1, <1>2, <1>4, <2>1, <2>2 DEF Drafted, LedgerInv, TypeInv
<1>5. QED BY <1>3, <1>4

(* The drafts of a step, their parts being in any sets.                     *)
LEMMA EdgesReplaced ==
  ASSUME NEW R, NEW L, NEW E, NEW d \in [row : R, edges : L, log : E], NEW s \in L
  PROVE  LET new == [d EXCEPT !.edges = s]
         IN  /\ new \in [row : R, edges : L, log : E]
             /\ new.row = d.row /\ new.edges = s /\ new.log = d.log
OBVIOUS

LEMMA LogReplaced ==
  ASSUME NEW R, NEW L, NEW E, NEW d \in [row : R, edges : L, log : E], NEW s \in E
  PROVE  LET new == [d EXCEPT !.log = s]
         IN  /\ new \in [row : R, edges : L, log : E]
             /\ new.row = d.row /\ new.edges = d.edges /\ new.log = s
OBVIOUS

LEMMA PairBuilt ==
  ASSUME NEW S, NEW a \in S, NEW b \in S
  PROVE  Append(<<a>>, b) = <<a, b>> /\ <<a, b>> \in Seq(S)
<1>1. <<a>> \in Seq(S) /\ Len(<<a>>) = 1
  OBVIOUS
<1>2. /\ Append(<<a>>, b) \in Seq(S) /\ Len(Append(<<a>>, b)) = 2
      /\ Append(<<a>>, b)[1] = a /\ Append(<<a>>, b)[2] = b
  BY <1>1
<1>3. <<a, b>> \in Seq(S) /\ Len(<<a, b>>) = 2
  OBVIOUS
<1>4. \A i \in 1 .. 2 : Append(<<a>>, b)[i] = <<a, b>>[i]
  BY <1>2, <1>3
<1>5. QED BY <1>2, <1>3, <1>4, SeqEqual

(* What the draft keeps while a statement of the writer changes the rest.   *)
LEMMA WriteKeeps ==
  ASSUME LedgerInv, NEW h \in Handlers, NEW new, NEW label,
         Write(h, new), Proceed(h, label)
  PROVE  /\ message' = message /\ held' = held /\ attestations' = attestations
         /\ draft' = new /\ pc'[h] = label
         /\ Attests(h)' = Attests(h) /\ Revokes(h)' = Revokes(h)
         /\ Confirming(h)' = Confirming(h) /\ MakesEdges(h)' = MakesEdges(h)
         /\ NewStatus(h)' = NewStatus(h) /\ Id(h)' = Id(h)
BY DEF LedgerInv, TypeInv, Write, Proceed, tables, Attests, Revokes, Confirming,
   MakesEdges, NewStatus, Id

LEMMA DeleteEdgesHolds ==
  ASSUME LedgerInv, NEW h \in Handlers, DeleteEdges(h)
  PROVE  LedgerInv'
<1> DEFINE new == [draft EXCEPT !.edges = <<>>]
<1>1. pc[h] = "delete" /\ Write(h, new) /\ Proceed(h, "log") /\ pc[h] \in Writing
  BY DEF DeleteEdges, Writing
<1>2. /\ writer = h /\ Drafted(h) /\ DraftedEdges(h)
      /\ draft \in [row : Row \cup {NoRow}, edges : Seq(Link), log : Seq(Entries)]
  BY <1>1, WriterFacts
<1>3. /\ new \in [row : Row \cup {NoRow}, edges : Seq(Link), log : Seq(Entries)]
      /\ new.row = draft.row /\ new.edges = <<>> /\ new.log = draft.log
  <2>1. <<>> \in Seq(Link)
    OBVIOUS
  <2>2. QED BY <1>2, <2>1, EdgesReplaced
<1> HIDE DEF new
<1>4. Drafted(h)'
  BY <1>1, <1>2, <1>3, WriteKeeps DEF Drafted
<1>5. DraftedEdges(h)'
  BY <1>1, <1>3, WriteKeeps DEF DraftedEdges
<1>6. QED BY <1>1, <1>2, <1>3, <1>4, <1>5, WriteHolds DEF Writing

LEMMA LogActionHolds ==
  ASSUME LedgerInv, NEW h \in Handlers, LogAction(h)
  PROVE  LedgerInv'
<1> DEFINE new == [draft EXCEPT !.log = Append(@, Entry(message[h]))]
           label == IF MakesEdges(h) THEN "edge" ELSE "commit"
<1>1. pc[h] = "log" /\ Write(h, new) /\ Proceed(h, label) /\ pc[h] \in Writing
  BY DEF LogAction, Writing
<1>2. /\ writer = h /\ Drafted(h) /\ DraftedEdges(h) /\ message[h] \in Messages
      /\ draft \in [row : Row \cup {NoRow}, edges : Seq(Link), log : Seq(Entries)]
      /\ draft.row \in Row /\ held[h] \in Row
  BY <1>1, WriterFacts
<1>3. Entry(message[h]) \in Entries
  BY <1>2, MessageFacts DEF Entry, Entries
<1>4. draft.log = <<>> /\ draft.edges = <<>>
  BY <1>1, <1>2 DEF Drafted, DraftedEdges
<1>5. /\ new \in [row : Row \cup {NoRow}, edges : Seq(Link), log : Seq(Entries)]
      /\ new.row = draft.row /\ new.edges = <<>> /\ new.log = <<Entry(message[h])>>
  <2>1. /\ Append(draft.log, Entry(message[h])) = <<Entry(message[h])>>
        /\ <<Entry(message[h])>> \in Seq(Entries)
    BY <1>3, <1>4
  <2>2. new = [draft EXCEPT !.log = <<Entry(message[h])>>]
    BY <2>1
  <2>3. QED BY <1>2, <1>4, <2>1, <2>2, LogReplaced
<1>6. ~MakesEdges(h) => Graph!EdgesOf(draft.row) = <<>>
  <2>1. CASE Attests(h)
    <3>1. held[h] = draft.row /\ draft.row = message[h].row
      BY <1>2, <2>1 DEF Drafted
    <3>2. QED BY <1>2, <2>1, <3>1, MessageFacts DEF MakesEdges, Attests, Graph!EdgesOf
  <2>2. CASE ~Attests(h) /\ ~Confirming(h)
    <3>1. draft.row = [attestations[Id(h)] EXCEPT !.status = "revoked"]
      BY <1>2, <2>2 DEF Drafted, NewStatus
    <3>2. attestations[Id(h)] \in Row
      BY <1>2, <2>2 DEF Drafted
    <3>3. draft.row.status = "revoked"
      BY <3>1, <3>2 DEF Row
    <3>4. QED BY <3>3 DEF Graph!EdgesOf
  <2>3. QED BY <2>1, <2>2 DEF MakesEdges
<1> HIDE DEF new
<1>7. Drafted(h)'
  BY <1>1, <1>2, <1>5, WriteKeeps DEF Drafted
<1>8. DraftedEdges(h)'
  BY <1>1, <1>5, <1>6, WriteKeeps DEF DraftedEdges
<1>9. QED BY <1>1, <1>2, <1>5, <1>7, <1>8, WriteHolds DEF Writing

LEMMA InsertEdgeHolds ==
  ASSUME LedgerInv, NEW h \in Handlers, InsertEdge(h)
  PROVE  LedgerInv'
<1> DEFINE link == Linked(held[h], held[h].attestor, held[h].subject)
           new == [draft EXCEPT !.edges = Append(@, link)]
           label == IF Confirming(h) THEN "edge_back" ELSE "commit"
<1>1. pc[h] = "edge" /\ Write(h, new) /\ Proceed(h, label) /\ pc[h] \in Writing
  BY DEF InsertEdge, Writing
<1>2. /\ writer = h /\ Drafted(h) /\ DraftedEdges(h) /\ message[h] \in Messages
      /\ draft \in [row : Row \cup {NoRow}, edges : Seq(Link), log : Seq(Entries)]
      /\ draft.row \in Row /\ held[h] \in Row
  BY <1>1, WriterFacts
<1>3. link \in Link
  BY <1>2 DEF Linked, Link, Row
<1>4. draft.edges = <<>> /\ MakesEdges(h)
  BY <1>1, <1>2 DEF DraftedEdges
<1>5. /\ new \in [row : Row \cup {NoRow}, edges : Seq(Link), log : Seq(Entries)]
      /\ new.row = draft.row /\ new.edges = <<link>> /\ new.log = draft.log
  <2>1. Append(draft.edges, link) = <<link>> /\ <<link>> \in Seq(Link)
    BY <1>3, <1>4
  <2>2. new = [draft EXCEPT !.edges = <<link>>]
    BY <2>1
  <2>3. QED BY ZenonT(40), <1>2, <2>1, <2>2, EdgesReplaced
<1>6. ~Confirming(h) => Graph!EdgesOf(draft.row) = <<link>>
  <2>1. SUFFICES ASSUME ~Confirming(h) PROVE Graph!EdgesOf(draft.row) = <<link>>
    OBVIOUS
  <2>2. Attests(h) /\ held[h].kind = "unilateral"
    BY <1>4, <2>1 DEF MakesEdges, Attests
  <2>3. held[h] = draft.row /\ draft.row = message[h].row
    BY <1>2, <2>2 DEF Drafted
  <2>4. draft.row # NoRow /\ draft.row.status = "confirmed"
    BY <1>2, <2>2, <2>3, MessageFacts DEF Attests
  <2>5. QED BY <2>2, <2>3, <2>4 DEF Graph!EdgesOf, Graph!Edge, Linked
<1> HIDE DEF new, link
<1>7. Drafted(h)'
  BY <1>1, <1>2, <1>5, WriteKeeps DEF Drafted
<1>8. DraftedEdges(h)'
  BY <1>1, <1>5, <1>6, WriteKeeps DEF DraftedEdges, link
<1>9. QED BY <1>1, <1>2, <1>5, <1>7, <1>8, WriteHolds DEF Writing

LEMMA InsertEdgeBackHolds ==
  ASSUME LedgerInv, NEW h \in Handlers, InsertEdgeBack(h)
  PROVE  LedgerInv'
<1> DEFINE there == Linked(held[h], held[h].attestor, held[h].subject)
           back == Linked(held[h], held[h].subject, held[h].attestor)
           new == [draft EXCEPT !.edges = Append(@, back)]
<1>1. /\ pc[h] = "edge_back" /\ Write(h, new) /\ Proceed(h, "commit")
      /\ pc[h] \in Writing
  BY DEF InsertEdgeBack, Writing
<1>2. /\ writer = h /\ Drafted(h) /\ DraftedEdges(h) /\ Id(h) \in Ids
      /\ draft \in [row : Row \cup {NoRow}, edges : Seq(Link), log : Seq(Entries)]
      /\ held[h] \in Row
  BY <1>1, WriterFacts
<1>3. there \in Link /\ back \in Link
  BY <1>2 DEF Linked, Link, Row
<1>4. draft.edges = <<there>> /\ Confirming(h)
  BY <1>1, <1>2 DEF DraftedEdges
<1> HIDE DEF there, back
<1>5. /\ new \in [row : Row \cup {NoRow}, edges : Seq(Link), log : Seq(Entries)]
      /\ new.row = draft.row /\ new.edges = <<there, back>> /\ new.log = draft.log
  <2>1. /\ Append(draft.edges, back) = <<there, back>>
        /\ <<there, back>> \in Seq(Link)
    BY <1>3, <1>4, PairBuilt
  <2>2. new = [draft EXCEPT !.edges = <<there, back>>]
    BY <2>1
  <2>3. QED BY ZenonT(40), <1>2, <2>1, <2>2, EdgesReplaced
<1>6. Graph!EdgesOf(draft.row) = <<there, back>>
  <2>1. ~Attests(h) /\ NewStatus(h) = "confirmed"
    BY <1>4 DEF Confirming, Attests, NewStatus
  <2>2. held[h] = attestations[Id(h)] /\ Taken(message[h], held[h])
        /\ draft.row = [held[h] EXCEPT !.status = "confirmed"]
    BY <1>2, <2>1 DEF Drafted
  <2>3. held[h].status = "pending"
    BY <1>4, <2>2 DEF Taken, May, Confirming
  <2>4. held[h].kind = "bilateral"
    BY <1>2, <2>2, <2>3 DEF LedgerInv, Standing, StatusIs, Bilateral, Taken
  <2>5. draft.row \in Row
    BY <1>1, WriterFacts
  <2>6. /\ draft.row # NoRow /\ draft.row.status = "confirmed"
        /\ draft.row.kind = "bilateral" /\ draft.row.type = held[h].type
        /\ draft.row.attestor = held[h].attestor /\ draft.row.subject = held[h].subject
    BY <1>2, <2>2, <2>4, <2>5, TrustAssumption DEF Row
  <2>7. QED BY <2>4, <2>6 DEF Graph!EdgesOf, Graph!Edge, Linked, there, back
<1> HIDE DEF new
<1>7. Drafted(h)'
  BY <1>1, <1>2, <1>5, WriteKeeps DEF Drafted
<1>8. DraftedEdges(h)'
  BY <1>1, <1>5, <1>6, WriteKeeps DEF DraftedEdges
<1>9. QED BY <1>1, <1>2, <1>5, <1>7, <1>8, WriteHolds DEF Writing

(* The commit changes one attestation; whoever had read before it is        *)
(* outdated, and nobody else is writing.                                    *)
LEMMA CommitFacts ==
  ASSUME LedgerInv, NEW h \in Handlers, Commit(h)
  PROVE  /\ pc[h] = "commit" /\ message[h] \in Messages /\ Id(h) \in Ids
         /\ Drafted(h) /\ draft.row \in Row
         /\ attestations' = [attestations EXCEPT ![Id(h)] = draft.row]
         /\ edges' = [edges EXCEPT ![Id(h)] = Graph!EdgesOf(draft.row)]
         /\ Graph!EdgesOf(draft.row) \in Seq(Link)
         /\ log' = Append(log, Entry(message[h]))
         /\ Entry(message[h]) \in Entries
<1>1. pc[h] = "commit" /\ pc[h] \in Writing
  BY DEF Commit, Writing
<1>2. /\ message[h] \in Messages /\ Id(h) \in Ids
      /\ Drafted(h) /\ DraftedEdges(h) /\ draft.row \in Row
      /\ draft \in [row : Row \cup {NoRow}, edges : Seq(Link), log : Seq(Entries)]
  BY <1>1, WriterFacts
<1>3. draft.edges = Graph!EdgesOf(draft.row)
  BY <1>1, <1>2 DEF DraftedEdges
<1>4. draft.log = <<Entry(message[h])>>
  BY <1>1, <1>2 DEF Drafted
<1>5. Entry(message[h]) \in Entries
  BY <1>2, MessageFacts DEF Entry, Entries
<1>6. log \o <<Entry(message[h])>> = Append(log, Entry(message[h]))
  BY <1>5, AppendIsConcat DEF LedgerInv, TypeInv
<1>7. QED BY <1>1, <1>2, <1>3, <1>4, <1>5, <1>6 DEF Commit

LEMMA CommitHolds ==
  ASSUME LedgerInv, NEW h \in Handlers, Commit(h)
  PROVE  LedgerInv'
<1>1. /\ pc[h] = "commit" /\ message[h] \in Messages /\ Id(h) \in Ids
      /\ Drafted(h) /\ draft.row \in Row
      /\ attestations' = [attestations EXCEPT ![Id(h)] = draft.row]
      /\ edges' = [edges EXCEPT ![Id(h)] = Graph!EdgesOf(draft.row)]
      /\ Graph!EdgesOf(draft.row) \in Seq(Link)
      /\ log' = Append(log, Entry(message[h]))
      /\ Entry(message[h]) \in Entries
  BY CommitFacts
<1>2. writer = h
  BY <1>1 DEF LedgerInv, At, Writing
<1>3. TypeInv'
  <2>1. log' \in Seq(Entries) /\ attestations' \in [Ids -> Row \cup {NoRow}]
        /\ edges' \in [Ids -> Seq(Link)]
    BY <1>1 DEF LedgerInv, TypeInv
  <2>2. QED BY <2>1 DEF LedgerInv, TypeInv, Commit, Proceed, Labels, NoDraft
<1>4. Standing'
  <2>1. draft.row # NoRow
    BY <1>1, TrustAssumption
  <2>2. draft.row.status = "pending" => draft.row.kind = "bilateral"
    <3>1. CASE Attests(h)
      BY <1>1, <3>1, MessageFacts DEF Drafted, Attests, Row
    <3>2. CASE ~Attests(h)
      <4>1. attestations[Id(h)] \in Row
        BY <1>1, <3>2 DEF Drafted, Taken, LedgerInv, TypeInv
      <4>2. draft.row.status = NewStatus(h)
        BY <1>1, <3>2, <4>1 DEF Drafted, Row
      <4>3. QED BY <4>2 DEF NewStatus
    <3>3. QED BY <3>1, <3>2
  <2>3. SUFFICES ASSUME NEW id \in Ids
        PROVE  /\ edges'[id] = Graph!EdgesOf(attestations'[id])
               /\ /\ attestations'[id] # NoRow
                  /\ attestations'[id].status = "pending"
                  => attestations'[id].kind = "bilateral"
    BY DEF Standing, StatusIs, Bilateral, Graph!EdgesOf
  <2>4. CASE id = Id(h)
    BY <1>1, <2>2, <2>4 DEF LedgerInv, TypeInv
  <2>5. CASE id # Id(h)
    BY <1>1, <2>5 DEF LedgerInv, TypeInv, Standing, StatusIs, Bilateral
  <2>6. QED BY <2>4, <2>5
<1>5. writer' = Free /\ pc' = [pc EXCEPT ![h] = "idle"]
  BY DEF Commit, Proceed
<1>6. ASSUME NEW g \in Handlers PROVE At(g)' /\ Read(g)'
  <2>1. CASE g = h
    BY <1>5, <2>1, TrustAssumption DEF At, Read, Writing, LedgerInv, TypeInv
  <2>2. CASE g # h
    <3>1. /\ pc'[g] = pc[g] /\ message'[g] = message[g] /\ held'[g] = held[g]
          /\ pc[g] = "update" => g \in outdated'
      BY <2>2, <1>5 DEF Commit, Proceed, LedgerInv, TypeInv
    <3>2. At(g) /\ pc[g] \notin Writing
      BY <1>2, <2>2 DEF LedgerInv, At
    <3>3. QED BY <1>5, <3>1, <3>2, TrustAssumption DEF At, Read, Attests
  <2>3. QED BY <2>1, <2>2
<1>7. QED BY <1>3, <1>4, <1>5, <1>6, TrustAssumption DEF LedgerInv

LEMMA LedgerStepHolds == LedgerInv /\ [LedgerNext]_ledgerVars => LedgerInv'
<1> SUFFICES ASSUME LedgerInv, [LedgerNext]_ledgerVars PROVE LedgerInv'
  OBVIOUS
<1>1. ASSUME NEW h \in Handlers, Process(h) PROVE LedgerInv'
  BY <1>1, ReceiveHolds, LoadHolds, InsertHolds, UpdateHolds, DeleteEdgesHolds,
     LogActionHolds, InsertEdgeHolds, InsertEdgeBackHolds, CommitHolds,
     RollbackHolds DEF Process, Fail
<1>2. CASE UNCHANGED ledgerVars
  <2>1. UNCHANGED <<attestations, edges, log, writer, draft, outdated, pc, message,
                    held>>
    BY <1>2 DEF ledgerVars, tables, lock, session
  <2>2. TypeInv' /\ Standing'
    BY <2>1 DEF LedgerInv, TypeInv, Standing, StatusIs, Bilateral
  <2>3. ASSUME NEW h \in Handlers PROVE At(h)' /\ Read(h)'
    BY <2>1 DEF LedgerInv, At, Read, Attests, Id
  <2>4. ASSUME NEW h \in Handlers, writer' = h PROVE Drafted(h)' /\ DraftedEdges(h)'
    <3>1. Drafted(h) /\ DraftedEdges(h)
      BY <2>1, <2>4 DEF LedgerInv
    <3>2. /\ Id(h)' = Id(h) /\ Attests(h)' = Attests(h) /\ Revokes(h)' = Revokes(h)
          /\ Confirming(h)' = Confirming(h) /\ NewStatus(h)' = NewStatus(h)
          /\ MakesEdges(h)' = MakesEdges(h)
      BY <2>1 DEF Attests, Revokes, Confirming, MakesEdges, Id, NewStatus
    <3>3. QED BY <2>1, <3>1, <3>2 DEF Drafted, DraftedEdges
  <2>5. QED BY <2>2, <2>3, <2>4 DEF LedgerInv
<1>3. QED BY <1>1, <1>2 DEF LedgerNext

THEOREM LedgerInvariant == LedgerSpec => []LedgerInv
<1>1. LedgerInit => LedgerInv
  BY LedgerInitHolds
<1>2. LedgerInv /\ [LedgerNext]_ledgerVars => LedgerInv'
  BY LedgerStepHolds
<1>3. QED BY <1>1, <1>2, PTL DEF LedgerSpec

-----------------------------------------------------------------------------
(* What a commit does to the attestation of its message.                    *)
LEMMA CommitMakes ==
  ASSUME LedgerInv, NEW h \in Handlers, Commit(h)
  PROVE  LET old == attestations[Id(h)]
             m == message[h]
         IN  \/ /\ m.action = "attestation" /\ old = NoRow
                /\ draft.row.attestor = m.sender
                /\ draft.row.status = IF draft.row.kind = "unilateral"
                                      THEN "confirmed" ELSE "pending"
             \/ /\ m.action = "confirm" /\ old \in Row /\ m.sender = old.subject
                /\ old.status = "pending" /\ old.kind = "bilateral"
                /\ draft.row = [old EXCEPT !.status = "confirmed"]
             \/ /\ m.action = "revoke" /\ old \in Row /\ old.status # "revoked"
                /\ m.sender \in {old.attestor, old.subject}
                /\ draft.row = [old EXCEPT !.status = "revoked"]
<1>1. message[h] \in Messages /\ Id(h) \in Ids /\ Drafted(h)
  BY CommitFacts
<1>2. CASE Attests(h)
  BY <1>1, <1>2, MessageFacts DEF Drafted, Attests
<1>3. CASE ~Attests(h)
  <2>1. /\ attestations[Id(h)] \in Row /\ Taken(message[h], attestations[Id(h)])
        /\ draft.row = [attestations[Id(h)] EXCEPT !.status = NewStatus(h)]
    BY <1>1, <1>3 DEF Drafted, Taken, LedgerInv, TypeInv
  <2>2. CASE Confirming(h)
    <3>1. /\ attestations[Id(h)].status = "pending"
          /\ message[h].sender = attestations[Id(h)].subject
      BY <2>1, <2>2 DEF Taken, May, Confirming
    <3>2. attestations[Id(h)].kind = "bilateral"
      BY <1>1, <2>1, <3>1, TrustAssumption DEF LedgerInv, Standing, StatusIs, Bilateral
    <3>3. draft.row = [attestations[Id(h)] EXCEPT !.status = "confirmed"]
      BY <2>1, <2>2 DEF NewStatus
    <3>4. QED BY <2>1, <2>2, <3>1, <3>2, <3>3 DEF Confirming
  <2>3. CASE ~Confirming(h)
    <3>1. message[h].action = "revoke"
      BY <1>1, <1>3, <2>3, MessageFacts DEF Attests, Confirming
    <3>2. draft.row = [attestations[Id(h)] EXCEPT !.status = "revoked"]
      BY <2>1, <2>3 DEF NewStatus
    <3>3. QED BY <2>1, <3>1, <3>2 DEF Taken, May
  <2>4. QED BY <2>2, <2>3
<1>4. QED BY <1>2, <1>3

LEMMA OnlyCommitsTell ==
  ASSUME LedgerInv, [LedgerNext]_ledgerVars,
         \A h \in Handlers : ~Commit(h)
  PROVE  UNCHANGED tables
BY DEF LedgerNext, Process, ledgerVars, Receive, Load, Insert, Update, DeleteEdges,
   LogAction, InsertEdge, InsertEdgeBack, Fail, Rollback, FirstWrite, Write, tables

(* Each commit is one step of TrustGraph, every other step a stutter: the   *)
(* transaction is as good as indivisible.                                   *)
LEMMA StepOfGraph ==
  LedgerInv /\ [LedgerNext]_ledgerVars => [Graph!Next]_(Graph!vars)
<1> SUFFICES ASSUME LedgerInv, [LedgerNext]_ledgerVars
             PROVE  [Graph!Next]_(Graph!vars)
  OBVIOUS
<1>1. ASSUME NEW h \in Handlers, Commit(h) PROVE Graph!Next
  <2>1. /\ Id(h) \in Ids /\ draft.row \in Row /\ draft.row # NoRow
        /\ attestations' = [attestations EXCEPT ![Id(h)] = draft.row]
        /\ edges' = [edges EXCEPT ![Id(h)] = Graph!EdgesOf(draft.row)]
        /\ attestations'[Id(h)] = draft.row
    BY <1>1, CommitFacts, TrustAssumption DEF LedgerInv, TypeInv
  <2>2. Graph!Becomes(Id(h), draft.row)
    BY <2>1 DEF Graph!Becomes
  <2>3. CASE /\ attestations[Id(h)] = NoRow
             /\ draft.row.status = IF draft.row.kind = "unilateral"
                                   THEN "confirmed" ELSE "pending"
    BY <2>1, <2>2, <2>3 DEF Graph!Next, Graph!Attest
  <2>4. CASE /\ attestations[Id(h)] \in Row
             /\ attestations[Id(h)].status = "pending"
             /\ attestations[Id(h)].kind = "bilateral"
             /\ draft.row = [attestations[Id(h)] EXCEPT !.status = "confirmed"]
    BY <2>1, <2>2, <2>4, TrustAssumption DEF Graph!Next, Graph!Confirm
  <2>5. CASE /\ attestations[Id(h)] \in Row
             /\ attestations[Id(h)].status # "revoked"
             /\ draft.row = [attestations[Id(h)] EXCEPT !.status = "revoked"]
    BY <2>1, <2>2, <2>5, TrustAssumption DEF Graph!Next, Graph!Revoke
  <2>6. QED BY <1>1, <2>3, <2>4, <2>5, CommitMakes
<1>2. CASE \A h \in Handlers : ~Commit(h)
  BY <1>2, OnlyCommitsTell DEF tables, Graph!vars
<1>3. QED BY <1>1, <1>2

(***************************************************************************)
(* The ledger implements the indivisible steps of TrustGraph, for any      *)
(* number of messages at a time, whatever fails, repeats or overtakes.     *)
(***************************************************************************)
THEOREM GraphTheorem == LedgerSpec => ImplementsTrustGraph
<1>1. LedgerInit => Graph!Init
  BY DEF LedgerInit, Graph!Init
<1>2. LedgerInv /\ [LedgerNext]_ledgerVars => [Graph!Next]_(Graph!vars)
  BY StepOfGraph
<1>3. QED BY <1>1, <1>2, LedgerInvariant, PTL DEF LedgerSpec, ImplementsTrustGraph

-----------------------------------------------------------------------------
LEMMA RankOf == /\ Rank["attestation"] = 0 /\ Rank["confirm"] = 1
                /\ Rank["revoke"] = 2
BY DEF Rank

(* The log after a commit: one entry more.                                  *)
LEMMA CommitLogs ==
  ASSUME LedgerInv, NEW h \in Handlers, Commit(h)
  PROVE  LET n == Len(log)
         IN  /\ n \in Nat /\ DOMAIN log = 1 .. n /\ DOMAIN log' = 1 .. (n + 1)
             /\ \A i \in 1 .. n : log'[i] = log[i] /\ log[i] \in Entries
             /\ log'[n + 1] = Entry(message[h])
<1> DEFINE e == Entry(message[h])
<1>1. log' = Append(log, e) /\ e \in Entries /\ log \in Seq(Entries)
  BY CommitFacts DEF LedgerInv, TypeInv
<1> HIDE DEF e
<1>2. /\ Append(log, e) \in Seq(Entries) /\ Len(Append(log, e)) = Len(log) + 1
      /\ \A i \in 1 .. Len(log) : Append(log, e)[i] = log[i] /\ log[i] \in Entries
      /\ Append(log, e)[Len(log) + 1] = e
  BY <1>1, AppendProperties
<1>3. Len(log) \in Nat /\ DOMAIN log = 1 .. Len(log)
  BY <1>1
<1>4. DOMAIN log' = 1 .. (Len(log) + 1)
  BY <1>1, <1>2
<1>5. QED BY <1>1, <1>2, <1>3, <1>4 DEF e

LEMMA CommitTold ==
  ASSUME LedgerInv, LogTellsStatus, NEW h \in Handlers, Commit(h), NEW id \in Ids
  PROVE  Told(id)'
<1> DEFINE n == Len(log)
           e == Entry(message[h])
<1>1. /\ n \in Nat /\ DOMAIN log = 1 .. n /\ DOMAIN log' = 1 .. (n + 1)
      /\ \A i \in 1 .. n : log'[i] = log[i] /\ log[i] \in Entries
      /\ log'[n + 1] = e
  BY CommitLogs
<1>2. /\ Id(h) \in Ids /\ draft.row \in Row /\ draft.row # NoRow
      /\ attestations' = [attestations EXCEPT ![Id(h)] = draft.row]
      /\ e.id = Id(h) /\ e.action = message[h].action
      /\ attestations[id] \in Row \cup {NoRow}
  BY CommitFacts, TrustAssumption DEF LedgerInv, TypeInv, Entry, Id
<1>3. Told(id)
  BY DEF LogTellsStatus
<1> HIDE DEF n, e
<1>4. ASSUME NEW a
      PROVE  Logged(a, id)' <=> Logged(a, id) \/ (e.action = a /\ e.id = id)
  <2>1. n + 1 \in DOMAIN log' /\ \A i \in 1 .. n : i \in DOMAIN log'
    BY <1>1
  <2>2. \A i \in DOMAIN log' : i \in 1 .. n \/ i = n + 1
    BY <1>1
  <2>3. QED BY <1>1, <2>1, <2>2 DEF Logged
<1>5. CASE id # Id(h)
  <2>1. attestations'[id] = attestations[id]
    BY <1>2, <1>5 DEF LedgerInv, TypeInv
  <2>2. \A a : Logged(a, id)' <=> Logged(a, id)
    BY <1>2, <1>4, <1>5
  <2>3. QED BY <1>3, <2>1, <2>2 DEF Told, StatusIs, Bilateral
<1>6. CASE id = Id(h)
  <2>1. attestations'[id] = draft.row
    BY <1>2, <1>6 DEF LedgerInv, TypeInv
  <2>2. \A a : Logged(a, id)' <=> Logged(a, id) \/ message[h].action = a
    BY <1>2, <1>4, <1>6
  <2>3. CASE /\ message[h].action = "attestation" /\ attestations[id] = NoRow
             /\ draft.row.status = IF draft.row.kind = "unilateral"
                                   THEN "confirmed" ELSE "pending"
    BY <1>2, <1>3, <2>1, <2>2, <2>3 DEF Told, StatusIs, Bilateral, Row
  <2>4. CASE /\ message[h].action = "confirm" /\ attestations[id] \in Row
             /\ attestations[id].status = "pending"
             /\ attestations[id].kind = "bilateral"
             /\ draft.row = [attestations[id] EXCEPT !.status = "confirmed"]
    <3>1. draft.row.status = "confirmed" /\ draft.row.kind = "bilateral"
      BY <2>4 DEF Row
    <3>2. QED BY <1>2, <1>3, <2>1, <2>2, <2>4, <3>1, TrustAssumption
              DEF Told, StatusIs, Bilateral
  <2>5. CASE /\ message[h].action = "revoke" /\ attestations[id] \in Row
             /\ attestations[id].status # "revoked"
             /\ draft.row = [attestations[id] EXCEPT !.status = "revoked"]
    <3>1. draft.row.status = "revoked" /\ draft.row.kind = attestations[id].kind
      BY <2>5 DEF Row
    <3>2. QED BY <1>2, <1>3, <2>1, <2>2, <2>5, <3>1, TrustAssumption
              DEF Told, StatusIs, Bilateral
  <2>6. QED BY <1>6, <2>3, <2>4, <2>5, CommitMakes
<1>7. QED BY <1>5, <1>6

(* What the log already holds of the attestation that a commit changes.     *)
LEMMA CommitIsNext ==
  ASSUME LedgerInv, LogTellsStatus, NEW h \in Handlers, Commit(h),
         NEW i \in DOMAIN log, log[i].id = Id(h)
  PROVE  /\ Rank[log[i].action] < Rank[message[h].action]
         /\ message[h].action # "attestation"
<1>1. Id(h) \in Ids /\ log[i] \in Entries
  BY CommitFacts, CommitLogs
<1>2. Told(Id(h)) /\ Logged(log[i].action, Id(h))
  BY <1>1 DEF LogTellsStatus, Logged
<1>3. log[i].action \in {"attestation", "confirm", "revoke"}
  BY <1>1 DEF Entries
<1>4. attestations[Id(h)] # NoRow
  BY <1>2, <1>3 DEF Told, StatusIs, Bilateral
<1>5. CASE message[h].action = "confirm" /\ attestations[Id(h)].status = "pending"
  <2>1. log[i].action = "attestation"
    BY <1>2, <1>3, <1>4, <1>5 DEF Told, StatusIs
  <2>2. QED BY <1>5, <2>1, RankOf
<1>6. CASE message[h].action = "revoke" /\ attestations[Id(h)].status # "revoked"
  <2>1. log[i].action \in {"attestation", "confirm"}
    BY <1>2, <1>3, <1>4, <1>6 DEF Told, StatusIs
  <2>2. QED BY <1>6, <2>1, RankOf
<1>7. QED BY <1>4, <1>5, <1>6, CommitMakes

LEMMA CommitInOrder ==
  ASSUME LedgerInv, LogTellsStatus, NEW h \in Handlers, Commit(h)
  PROVE  InOrder'
<1> DEFINE n == Len(log)
<1>1. /\ n \in Nat /\ DOMAIN log = 1 .. n /\ DOMAIN log' = 1 .. (n + 1)
      /\ \A i \in 1 .. n : log'[i] = log[i]
      /\ log'[n + 1] = Entry(message[h])
  BY CommitLogs
<1> HIDE DEF n
<1>2. SUFFICES ASSUME NEW i \in 1 .. (n + 1), NEW j \in 1 .. (n + 1),
                      i < j, log'[i].id = log'[j].id
               PROVE  Rank[log'[i].action] < Rank[log'[j].action]
  BY <1>1 DEF InOrder, Rank
<1>3. CASE j \in 1 .. n
  <2>1. i \in 1 .. n
    BY <1>1, <1>2, <1>3
  <2>2. QED BY <1>1, <1>2, <1>3, <2>1 DEF LogTellsStatus, InOrder
<1>4. CASE j = n + 1
  <2>1. i \in DOMAIN log /\ log'[i] = log[i]
    BY <1>1, <1>2, <1>4
  <2>2. log'[j].id = Id(h) /\ log'[j].action = message[h].action
    BY <1>1, <1>4 DEF Entry, Id
  <2>3. QED BY <1>2, <2>1, <2>2, CommitIsNext
<1>5. QED BY <1>1, <1>3, <1>4

LEMMA CommitKeepsParties ==
  ASSUME LedgerInv, NEW h \in Handlers, Commit(h),
         message[h].action # "attestation"
  PROVE  /\ draft.row.attestor = attestations[Id(h)].attestor
         /\ draft.row.subject = attestations[Id(h)].subject
<1>1. /\ attestations[Id(h)] \in Row
      /\ \/ draft.row = [attestations[Id(h)] EXCEPT !.status = "confirmed"]
         \/ draft.row = [attestations[Id(h)] EXCEPT !.status = "revoked"]
  BY CommitMakes
<1>2. QED BY <1>1 DEF Row

LEMMA CommitSigned ==
  ASSUME LedgerInv, LogTellsStatus, NEW h \in Handlers, Commit(h),
         NEW i \in DOMAIN log'
  PROVE  Signed(log[i])'
<1> DEFINE n == Len(log)
<1>1. /\ n \in Nat /\ DOMAIN log = 1 .. n /\ DOMAIN log' = 1 .. (n + 1)
      /\ \A k \in 1 .. n : log'[k] = log[k] /\ log[k] \in Entries
      /\ log'[n + 1] = Entry(message[h])
  BY CommitLogs
<1> HIDE DEF n
<1>2. /\ Id(h) \in Ids /\ draft.row \in Row
      /\ attestations' = [attestations EXCEPT ![Id(h)] = draft.row]
      /\ attestations'[Id(h)] = draft.row
  BY CommitFacts DEF LedgerInv, TypeInv
<1>3. CASE i \in 1 .. n
  <2>1. log'[i] = log[i] /\ i \in DOMAIN log /\ Signed(log[i]) /\ log[i].id \in Ids
    BY <1>1, <1>3 DEF LogTellsStatus, Entries
  <2>2. CASE log[i].id = Id(h)
    <3>1. message[h].action # "attestation"
      BY <2>1, <2>2, CommitIsNext
    <3>2. /\ draft.row.attestor = attestations[Id(h)].attestor
          /\ draft.row.subject = attestations[Id(h)].subject
      BY <3>1, CommitKeepsParties
    <3>3. QED BY <1>2, <2>1, <2>2, <3>2 DEF Signed
  <2>3. CASE log[i].id # Id(h)
    <3>1. attestations'[log[i].id] = attestations[log[i].id]
      BY <1>2, <2>1, <2>3 DEF LedgerInv, TypeInv
    <3>2. QED BY <2>1, <3>1 DEF Signed
  <2>4. QED BY <2>2, <2>3
<1>4. CASE i = n + 1
  <2>1. /\ log'[i].id = Id(h) /\ log'[i].action = message[h].action
        /\ log'[i].sender = message[h].sender
    BY <1>1, <1>4 DEF Entry, Id
  <2>2. /\ message[h].action = "attestation" => message[h].sender = draft.row.attestor
        /\ message[h].action = "confirm" => message[h].sender = draft.row.subject
        /\ message[h].action = "revoke" =>
             message[h].sender \in {draft.row.attestor, draft.row.subject}
    <3>1. CASE message[h].action = "attestation"
      BY <3>1, CommitMakes
    <3>2. CASE message[h].action # "attestation"
      <4>1. /\ draft.row.attestor = attestations[Id(h)].attestor
            /\ draft.row.subject = attestations[Id(h)].subject
        BY <3>2, CommitKeepsParties
      <4>2. QED BY <3>2, <4>1, CommitMakes
    <3>3. QED BY <3>1, <3>2
  <2>3. QED BY <1>2, <2>1, <2>2 DEF Signed
<1>5. QED BY <1>1, <1>3, <1>4

(***************************************************************************)
(* The log accounts for every attestation: no step of its life is missing  *)
(* or logged twice, and what was rolled back leaves no entry.              *)
(***************************************************************************)
THEOREM LogTheorem == LedgerSpec => []LogTellsStatus
<1>1. LedgerInit => LogTellsStatus
  BY DEF LedgerInit, LogTellsStatus, InOrder, Told, Logged, StatusIs, Bilateral
<1>2. LedgerInv /\ LogTellsStatus /\ [LedgerNext]_ledgerVars => LogTellsStatus'
  <2> SUFFICES ASSUME LedgerInv, LogTellsStatus, [LedgerNext]_ledgerVars
               PROVE  LogTellsStatus'
    OBVIOUS
  <2>1. ASSUME NEW h \in Handlers, Commit(h) PROVE LogTellsStatus'
    BY <2>1, CommitTold, CommitInOrder, CommitSigned DEF LogTellsStatus
  <2>2. CASE \A h \in Handlers : ~Commit(h)
    <3>1. attestations' = attestations /\ log' = log
      BY <2>2, OnlyCommitsTell DEF tables
    <3>2. QED BY <3>1 DEF LogTellsStatus, InOrder, Told, Logged, StatusIs, Bilateral,
                     Signed
  <2>3. QED BY <2>1, <2>2
<1>3. QED BY <1>1, <1>2, LedgerInvariant, PTL DEF LedgerSpec
=============================================================================
