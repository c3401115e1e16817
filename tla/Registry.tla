------------------------------ MODULE Registry ------------------------------
(***************************************************************************)
(* The position registry: the positions that take part in auctions, kept   *)
(* in memory under an RWMutex and, one statement at a time, in the         *)
(* advertisers table; and the cached version of their embeddings that      *)
(* GET /embeddings sends as its ETag.                                      *)
(*                                                                         *)
(* Each action is what one request does under one hold of the lock, or one *)
(* database statement.  Contents are abstract: an embedding, the terms of  *)
(* the bid (price and sigma), and the id whose budget the position spends. *)
(* The hash of the version does not collide, so a version is what it is    *)
(* the hash of.  Budgets are in module Settlement.                         *)
(***************************************************************************)
EXTENDS Integers

CONSTANTS
  Writers,     \* goroutines serving registrations, updates and deletions
  MaxId,       \* bound: ids are 1..MaxId
  MaxWrites,   \* bound: requests of a behaviour
  Embeddings, Terms,
  GroupSizes,  \* numbers of keywords a group may be registered with
  Operations,  \* which of "update", "delete", "early", "crash" occur
  Faults,      \* which of "embed" (the sidecar), "persist" may fail
  Absent

Ids == 1..MaxId
Position == [emb : Embeddings, terms : Terms, head : Ids]

ASSUME RegistryBounds == MaxId \in Nat /\ MaxWrites \in Nat
ASSUME AbsentIsNoPosition == Absent \notin Position
ASSUME AbsentIsNoVersion == \A S \in SUBSET (Ids \X Embeddings) : S # Absent

VARIABLES
  positions,   \* PositionRegistry.positions, Absent where there is no entry
  version,     \* embeddingsVersion: "" or what computeVersion hashed
  nextId,
  rows,        \* the advertisers table
  pc, idOf, heldOf, groupOf, toGo,   \* locals of each request
  known,       \* ids a client was given, or found after a start, and not deleted
  failed,      \* ids of groups whose registration failed
  writes

locals == <<idOf, heldOf, groupOf, toGo>>
registryVars == <<positions, version, nextId, rows, pc, idOf, heldOf, groupOf,
                  toGo, known, failed, writes>>
history == <<known, failed>>

Present(S) == {id \in Ids : S[id] # Absent}
NoVersion == Absent   \* the version is not cached
Fingerprint(S) == {<<id, S[id].emb>> : id \in Present(S)}

RegistryInit ==
  /\ positions = [id \in Ids |-> Absent] /\ rows = [id \in Ids |-> Absent]
  /\ version = NoVersion /\ nextId = 1
  /\ pc = [h \in Writers |-> "idle"]
  /\ idOf = [h \in Writers |-> 0] /\ heldOf = [h \in Writers |-> Absent]
  /\ groupOf = [h \in Writers |-> {}] /\ toGo = [h \in Writers |-> 0]
  /\ known = {} /\ failed = {} /\ writes = 0

Goto(h, label) == pc' = [pc EXCEPT ![h] = label]
Locals(h, id, held, group, n) ==
  /\ idOf' = [idOf EXCEPT ![h] = id]
  /\ heldOf' = [heldOf EXCEPT ![h] = held]
  /\ groupOf' = [groupOf EXCEPT ![h] = group]
  /\ toGo' = [toGo EXCEPT ![h] = n]
Answer(h) == Goto(h, "idle") /\ Locals(h, 0, Absent, {}, 0)
Accept(h) == pc[h] = "idle" /\ writes < MaxWrites /\ writes' = writes + 1

KeepVersion == UNCHANGED version   \* mutant
InvalidateVersion == version' = NoVersion

(* Ids a request may name: those a client knows, or any it can list while  *)
(* a registration is still under way ("early").                            *)
Nameable == IF "early" \in Operations THEN Present(positions)
            ELSE Present(positions) \cap known

-----------------------------------------------------------------------------
(***************************************************************************)
(* Register: the text has been embedded; the position gets the next id and *)
(* enters the map.                                                         *)
(***************************************************************************)
Enter(h, pos) ==
  /\ nextId \in Ids
  /\ nextId' = nextId + 1
  /\ positions' = [positions EXCEPT ![nextId] = pos]
  /\ InvalidateVersion

RegisterOne(h, emb, terms) ==
  LET pos == [emb |-> emb, terms |-> terms, head |-> nextId] IN
  /\ Accept(h)
  /\ Enter(h, pos)
  /\ Goto(h, "insert")
  /\ Locals(h, nextId, pos, {}, 0)
  /\ UNCHANGED <<rows, history>>

NothingInserted(h) == UNCHANGED rows   \* mutant
RowInserted(h) == rows' = [rows EXCEPT ![idOf[h]] = heldOf[h]]

(* InsertAdvertiser of a single position: on an error it stays in memory.  *)
InsertRow(h) ==
  /\ pc[h] = "insert"
  /\ \/ RowInserted(h) /\ known' = known \cup {idOf[h]}
     \/ "persist" \in Faults /\ UNCHANGED <<rows, known>>
  /\ Answer(h)
  /\ UNCHANGED <<positions, version, nextId, failed, writes>>

(***************************************************************************)
(* RegisterKeywordGroupWithBudget: one position per keyword, entered and   *)
(* persisted one after the other.  A member enters the map as a position   *)
(* of its own, and is put there a second time with the head's id.          *)
(***************************************************************************)
RegisterGroup(h, n) ==
  /\ Accept(h)
  /\ Goto(h, "keyword")
  /\ Locals(h, 0, Absent, {}, n)
  /\ UNCHANGED <<positions, version, nextId, rows, history>>

Keyword(h, emb, terms) ==
  LET pos == [emb |-> emb, terms |-> terms, head |-> nextId] IN
  /\ pc[h] = "keyword"
  /\ Enter(h, pos)
  /\ Goto(h, IF groupOf[h] = {} THEN "member_row" ELSE "adopt")
  /\ Locals(h, nextId, pos, groupOf[h], toGo[h] - 1)
  /\ UNCHANGED <<rows, history, writes>>

KeywordFails(h) ==
  /\ "embed" \in Faults
  /\ pc[h] = "keyword"
  /\ Goto(h, "rollback")
  /\ UNCHANGED <<positions, version, nextId, rows, locals, history, writes>>

Head(h) == CHOOSE id \in groupOf[h] : \A m \in groupOf[h] : id <= m

Adopt(h) ==
  LET member == [emb |-> heldOf[h].emb, terms |-> heldOf[h].terms, head |-> Head(h)] IN
  /\ pc[h] = "adopt"
  /\ positions' = [positions EXCEPT ![idOf[h]] = member]
  /\ Goto(h, "member_row")
  /\ Locals(h, idOf[h], member, groupOf[h], toGo[h])
  /\ UNCHANGED <<version, nextId, rows, history, writes>>

MemberRow(h) ==
  LET group == groupOf[h] \cup {idOf[h]} IN
  /\ pc[h] = "member_row"
  /\ RowInserted(h)
  /\ \/ /\ toGo[h] > 0
        /\ Goto(h, "keyword")
        /\ Locals(h, 0, Absent, group, toGo[h])
        /\ UNCHANGED known
     \/ /\ toGo[h] = 0
        /\ known' = known \cup group
        /\ Answer(h)
  /\ UNCHANGED <<positions, version, nextId, failed, writes>>

(* The row is not inserted; or it is, its history is not, and the deletion *)
(* that follows fails too.                                                 *)
MemberRowFails(h) ==
  /\ "persist" \in Faults
  /\ pc[h] = "member_row"
  /\ UNCHANGED rows \/ RowInserted(h)
  /\ positions' = [positions EXCEPT ![idOf[h]] = Absent]
  /\ InvalidateVersion
  /\ failed' = failed \cup {idOf[h]}
  /\ Goto(h, "rollback")
  /\ Locals(h, 0, Absent, groupOf[h], 0)
  /\ UNCHANGED <<nextId, known, writes>>

(***************************************************************************)
(* The rollback of a group, in order of registration: each position leaves *)
(* the map, then its row is deleted; an error of that statement is dropped.*)
(***************************************************************************)
RollbackMemory(h) ==
  /\ pc[h] = "rollback"
  /\ IF groupOf[h] = {}
     THEN Answer(h) /\ UNCHANGED <<positions, version, failed>>
     ELSE /\ positions' = [positions EXCEPT ![Head(h)] = Absent]
          /\ InvalidateVersion
          /\ failed' = failed \cup {Head(h)}
          /\ Goto(h, "rollback_row")
          /\ UNCHANGED locals
  /\ UNCHANGED <<nextId, rows, known, writes>>

RowsKept(id) == UNCHANGED rows   \* mutant
RowDeleted(id) == rows' = [rows EXCEPT ![id] = Absent]

RollbackRow(h) ==
  /\ pc[h] = "rollback_row"
  /\ \/ RowDeleted(Head(h))
     \/ "persist" \in Faults /\ UNCHANGED rows
  /\ Goto(h, "rollback")
  /\ Locals(h, 0, Absent, groupOf[h] \ {Head(h)}, 0)
  /\ UNCHANGED <<positions, version, nextId, history, writes>>

-----------------------------------------------------------------------------
(***************************************************************************)
(* Update: the position is read, the new one is built from it (a field the *)
(* request leaves out keeps the value that was read), stored later, and    *)
(* persisted later still.                                                  *)
(***************************************************************************)
UpdateRead(h, id, emb, terms) ==
  /\ "update" \in Operations
  /\ id \in Nameable
  /\ Accept(h)
  /\ Goto(h, "store")
  /\ Locals(h, id, [emb |-> emb, terms |-> terms, head |-> positions[id].head], {}, 0)
  /\ UNCHANGED <<positions, version, nextId, rows, history>>

UpdateStore(h) ==
  /\ pc[h] = "store"
  /\ positions' = [positions EXCEPT ![idOf[h]] = heldOf[h]]
  /\ InvalidateVersion
  /\ Goto(h, "update_row")
  /\ UNCHANGED <<nextId, rows, locals, history, writes>>

UpdateRow(h) ==
  /\ pc[h] = "update_row"
  /\ \/ /\ rows[idOf[h]] # Absent
        /\ rows' = [rows EXCEPT ![idOf[h]] =
                      [emb |-> heldOf[h].emb, terms |-> heldOf[h].terms, head |-> rows[idOf[h]].head]]
     \/ /\ rows[idOf[h]] = Absent \/ "persist" \in Faults
        /\ UNCHANGED rows
  /\ Answer(h)
  /\ UNCHANGED <<positions, version, nextId, history, writes>>

(***************************************************************************)
(* Delete: the position and the group it heads leave the map at once; the  *)
(* rows follow, the position's own first, until one cannot be deleted.     *)
(***************************************************************************)
HeadOnly(id) == {id}   \* mutant
GroupOf(id) == {id} \cup {m \in Present(positions) : positions[m].head = id}

Delete(h, id) ==
  /\ "delete" \in Operations
  /\ id \in Nameable
  /\ Accept(h)
  /\ positions' = [m \in Ids |-> IF m \in GroupOf(id) THEN Absent
                                 ELSE positions[m]]
  /\ InvalidateVersion
  /\ Goto(h, "delete_rows")
  /\ Locals(h, id, Absent, GroupOf(id), 0)
  /\ known' = known \ GroupOf(id)
  /\ UNCHANGED <<nextId, rows, failed>>

DeleteRow(h) ==
  /\ pc[h] = "delete_rows"
  /\ \E id \in groupOf[h] :
       /\ idOf[h] \in groupOf[h] => id = idOf[h]
       /\ \/ /\ rows[id] # Absent
             /\ RowDeleted(id)
             /\ IF groupOf[h] = {id} THEN Answer(h)
                ELSE /\ Goto(h, "delete_rows")
                     /\ Locals(h, idOf[h], Absent, groupOf[h] \ {id}, 0)
          \/ /\ rows[id] = Absent \/ "persist" \in Faults
             /\ Answer(h)
             /\ UNCHANGED rows
  /\ UNCHANGED <<positions, version, nextId, history, writes>>

-----------------------------------------------------------------------------
(***************************************************************************)
(* EmbeddingsVersion: the cached version, or one computed under the lock.  *)
(***************************************************************************)
CurrentVersion == IF version = NoVersion THEN Fingerprint(positions) ELSE version
ReadVersion ==
  /\ version' = CurrentVersion
  /\ UNCHANGED <<positions, nextId, rows, pc, locals, history, writes>>

(***************************************************************************)
(* A crash, and the SetDB of the next start.                               *)
(***************************************************************************)
Crash ==
  /\ "crash" \in Operations
  /\ positions' = rows
  /\ InvalidateVersion
  /\ \E n \in 1 .. MaxId + 1 :
       /\ \A k \in Present(rows) : k < n
       /\ n = 1 \/ n - 1 \in Present(rows)
       /\ nextId' = n
  /\ pc' = [h \in Writers |-> "idle"]
  /\ idOf' = [h \in Writers |-> 0] /\ heldOf' = [h \in Writers |-> Absent]
  /\ groupOf' = [h \in Writers |-> {}] /\ toGo' = [h \in Writers |-> 0]
  /\ known' = Present(rows)
  /\ UNCHANGED <<rows, failed, writes>>

Request(h) ==
  \/ \E emb \in Embeddings, terms \in Terms :
       \/ RegisterOne(h, emb, terms) \/ Keyword(h, emb, terms)
       \/ \E id \in Ids : UpdateRead(h, id, emb, terms)
  \/ \E n \in GroupSizes : RegisterGroup(h, n)
  \/ \E id \in Ids : Delete(h, id)

Progress(h) ==
  \/ InsertRow(h)
  \/ KeywordFails(h) \/ Adopt(h) \/ MemberRow(h) \/ MemberRowFails(h)
  \/ RollbackMemory(h) \/ RollbackRow(h)
  \/ UpdateStore(h) \/ UpdateRow(h) \/ DeleteRow(h)

RegistryNext == Crash \/ \E h \in Writers : Request(h) \/ Progress(h)
Next == RegistryNext \/ ReadVersion
Spec == RegistryInit /\ [][Next]_registryVars

-----------------------------------------------------------------------------
(***************************************************************************)
(* A cached version is the hash of the positions that are in memory        *)
(* ("cached and invalidated whenever positions are mutated").  It fails    *)
(* when a keyword is deleted while its group is still being registered.    *)
(***************************************************************************)
VersionCurrent == version # NoVersion => version = Fingerprint(positions)

Quiescent == \A h \in Writers : pc[h] = "idle"

(***************************************************************************)
(* When no request is under way, memory and table agree, so that a restart *)
(* changes no auction.  It needs every statement to succeed and positions  *)
(* not to be updated by two requests at once.                              *)
(***************************************************************************)
MemoryMatchesTable == Quiescent => positions = rows

(***************************************************************************)
(* No keyword outlives the head whose budget it spends: "members without   *)
(* the head would point at a budget that no longer exists" (Delete).  An   *)
(* update that read a member before the deletion brings it back.           *)
(***************************************************************************)
NoOrphans ==
  Quiescent => \A id \in Present(positions) :
                 positions[id].head \in Present(positions)

(***************************************************************************)
(* A group whose registration failed leaves nothing behind, "in memory and *)
(* in the DB".  It fails when the statement that deletes a row fails too.  *)
(***************************************************************************)
AllOrNothing ==
  Quiescent => failed \cap (Present(positions) \cup Present(rows)) = {}

(***************************************************************************)
(* An id that a client was given is in the table until its deletion, over  *)
(* crashes, failing statements and the rollbacks of other registrations.   *)
(***************************************************************************)
AnsweredIsDurable == known \subseteq Present(rows)
=============================================================================
