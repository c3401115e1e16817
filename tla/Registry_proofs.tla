-------------------------- MODULE Registry_proofs --------------------------
(***************************************************************************)
(* Proofs about the position registry, for any number of concurrent        *)
(* requests, when they name only positions that a client was given (no     *)
(* "early" ones). The first two theorems are about every operation and     *)
(* fault; the next three say which ones they leave out, and the last is    *)
(* about the caches that clients keep of the registry.                     *)
(***************************************************************************)
EXTENDS EmbeddingSync, WellFoundedInduction, TLAPS

(***************************************************************************)
(* What a request has in hand: the ids it registers and has not answered   *)
(* for, or is to roll back; and the rows it is to delete.                  *)
(***************************************************************************)
Entered == {"insert", "adopt", "member_row"}
Changing == {"store", "update_row"}
Own(h) == CASE pc[h] \in Entered -> groupOf[h] \cup {idOf[h]}
            [] pc[h] \in {"keyword", "rollback", "rollback_row"} -> groupOf[h]
            [] OTHER -> {}
Doomed(h) == IF pc[h] = "delete_rows" THEN groupOf[h] ELSE {}

Labels == Entered \cup Changing \cup
            {"idle", "keyword", "rollback", "rollback_row", "delete_rows"}
TypeInv ==
  /\ positions \in [Ids -> Position \cup {Absent}]
  /\ rows \in [Ids -> Position \cup {Absent}]
  /\ nextId \in Nat /\ known \subseteq Ids
  /\ pc \in [Writers -> Labels] /\ idOf \in [Writers -> Ids \cup {0}]
  /\ heldOf \in [Writers -> Position \cup {Absent}]
  /\ groupOf \in [Writers -> SUBSET Ids]

(* Nobody else has an id a request registers, and no client knows it.       *)
OwnInv ==
  /\ \A h \in Writers : \A id \in Own(h) : id < nextId /\ id \notin known
  /\ \A g, h \in Writers : g # h => Own(g) \cap Own(h) = {}

(* What is being deleted is neither known nor being registered.             *)
DoomedInv ==
  \A h \in Writers : \A id \in Doomed(h) :
    /\ id < nextId /\ id \notin known
    /\ \A g \in Writers : id \notin Own(g)

(* What a request holds.                                                    *)
HeldBy(h) ==
  /\ pc[h] \in Entered \cup Changing =>
       /\ idOf[h] \in Ids /\ idOf[h] < nextId
       /\ heldOf[h] \in Position /\ heldOf[h].head <= idOf[h]
  /\ pc[h] \in Changing => \A g \in Writers : idOf[h] \notin Own(g)
  /\ pc[h] = "adopt" => /\ positions[idOf[h]] = heldOf[h]
                        /\ \A id \in groupOf[h] : id < idOf[h]
  /\ pc[h] \in {"adopt", "rollback_row"} => groupOf[h] # {}
  /\ pc[h] \in {"keyword", "adopt", "member_row"} =>
       \A id \in groupOf[h] : rows[id] # Absent
HeldInv == \A h \in Writers : HeldBy(h)

(* Ids are below the next one, and a head is no later than its members.     *)
LowInv ==
  \A id \in Ids :
    /\ positions[id] # Absent => id < nextId /\ positions[id].head <= id
    /\ rows[id] # Absent => id < nextId /\ rows[id].head <= id

(* The head of what is being registered is not known, nor another's.        *)
HeadInv ==
  \A h \in Writers : \A m \in Own(h) :
    positions[m] # Absent =>
      /\ positions[m].head \notin known
      /\ \A g \in Writers : g # h => positions[m].head \notin Own(g)

Durable == \A id \in known : rows[id] # Absent

RegInv == /\ TypeInv /\ OwnInv /\ DoomedInv /\ HeldInv /\ LowInv /\ HeadInv
          /\ Durable

(* Natural numbers are well ordered, so that a group that is not empty has  *)
(* a head.                                                                  *)
LEMMA Least ==
  ASSUME NEW T, T \subseteq Nat, T # {}
  PROVE  \E x \in T : \A y \in T : x <= y
<1> DEFINE R == {ss \in Nat \X Nat : ss[1] < ss[2]}
<1>1. IsWellFoundedOn(R, Nat)
  BY NatLessThanWellFounded, Zenon DEF OpToRel
<1>2. PICK x \in T : \A y \in T : ~(<<y, x>> \in R)
  <2> HIDE DEF R
  <2> QED BY <1>1, WFMin
<1>3. ASSUME NEW y \in T PROVE x <= y
  <2>1. x \in Nat /\ y \in Nat
    OBVIOUS
  <2>2. ~(<<y, x>> \in R)
    BY <1>2
  <2>3. <<y, x>> \in R <=> y < x
    BY <2>1
  <2>4. QED BY <2>1, <2>2, <2>3
<1>4. QED BY <1>3

LEMMA HeadOfGroup ==
  ASSUME TypeInv, NEW h \in Writers, groupOf[h] # {}
  PROVE  Head(h) \in groupOf[h]
<1>1. groupOf[h] \subseteq Nat
  BY RegistryBounds DEF TypeInv, Ids
<1>2. \E id \in groupOf[h] : \A m \in groupOf[h] : id <= m
  BY <1>1, Least
<1>3. QED BY <1>2 DEF Head

LEMMA RegInitHolds == RegistryInit => RegInv
BY RegistryBounds
   DEF RegistryInit, RegInv, TypeInv, OwnInv, DoomedInv, HeldInv, LowInv, HeadInv,
       Durable, HeldBy, Own, Doomed, Entered, Changing, Labels

(***************************************************************************)
(* After a step of request h: the others have in hand what they had.       *)
(***************************************************************************)
Moved(h, label, id, held, group) ==
  /\ pc' = [pc EXCEPT ![h] = label] /\ idOf' = [idOf EXCEPT ![h] = id]
  /\ heldOf' = [heldOf EXCEPT ![h] = held]
  /\ groupOf' = [groupOf EXCEPT ![h] = group]

LEMMA After ==
  ASSUME TypeInv, NEW h \in Writers, NEW label, NEW id, NEW held, NEW group,
         Moved(h, label, id, held, group)
  PROVE  /\ \A g \in Writers : g # h =>
              /\ pc'[g] = pc[g] /\ idOf'[g] = idOf[g] /\ heldOf'[g] = heldOf[g]
              /\ groupOf'[g] = groupOf[g]
              /\ Own(g)' = Own(g) /\ Doomed(g)' = Doomed(g)
         /\ pc'[h] = label /\ idOf'[h] = id /\ heldOf'[h] = held
         /\ groupOf'[h] = group
         /\ Own(h)' = (CASE label \in Entered -> group \cup {id}
                         [] label \in {"keyword", "rollback", "rollback_row"} -> group
                         [] OTHER -> {})
         /\ Doomed(h)' = IF label = "delete_rows" THEN group ELSE {}
<1>1. /\ \A g \in Writers : g # h =>
           /\ pc'[g] = pc[g] /\ idOf'[g] = idOf[g] /\ heldOf'[g] = heldOf[g]
           /\ groupOf'[g] = groupOf[g]
      /\ pc'[h] = label /\ idOf'[h] = id /\ heldOf'[h] = held
      /\ groupOf'[h] = group
  BY DEF Moved, TypeInv
<1>2. \A g \in Writers : g # h => Own(g)' = Own(g) /\ Doomed(g)' = Doomed(g)
  BY <1>1 DEF Own, Doomed
<1>3. Own(h)' = (CASE label \in Entered -> group \cup {id}
                   [] label \in {"keyword", "rollback", "rollback_row"} -> group
                   [] OTHER -> {})
  BY <1>1 DEF Own
<1>4. Doomed(h)' = IF label = "delete_rows" THEN group ELSE {}
  BY <1>1 DEF Doomed
<1>5. QED BY <1>1, <1>2, <1>3, <1>4

(***************************************************************************)
(* What a step of request h may do, if the invariant is to hold after it:  *)
(* it takes the next id at most, touches only what it has in hand or       *)
(* nobody registers, and makes known only what it then lets go.            *)
(***************************************************************************)
Permitted(h) ==
  /\ \/ nextId' = nextId /\ Own(h)' \subseteq Own(h)
     \/ nextId' = nextId + 1 /\ Own(h)' \subseteq Own(h) \cup {nextId}
  /\ \/ known' \subseteq known
     \/ known' \subseteq known \cup Own(h) /\ Own(h)' = {}
  /\ \A id \in Doomed(h)' :
       id < nextId /\ id \notin known' /\ \A g \in Writers : id \notin Own(g)'
  /\ \A id \in Ids :
       \/ rows'[id] = rows[id] \/ id \in Own(h) \cup Doomed(h)
       \/ rows'[id] # Absent
  /\ \A id \in Ids :
       \/ positions'[id] = positions[id] \/ id \in Own(h) \cup {nextId}
       \/ \A g \in Writers : id \notin Own(g)
  /\ \A id \in Own(h)' :
       \/ positions'[id] = Absent
       \/ positions'[id].head \in Own(h)'
       \/ id \in Own(h) /\ positions'[id] = positions[id]

LEMMA Preserved ==
  ASSUME RegInv, NEW h \in Writers, NEW label, NEW id, NEW held, NEW group,
         Moved(h, label, id, held, group), Permitted(h),
         TypeInv', HeldBy(h)', LowInv', Durable'
  PROVE  RegInv'
<1> USE DEF RegInv
<1>1. \A g \in Writers : g # h =>
        /\ pc'[g] = pc[g] /\ idOf'[g] = idOf[g] /\ heldOf'[g] = heldOf[g]
        /\ groupOf'[g] = groupOf[g]
        /\ Own(g)' = Own(g) /\ Doomed(g)' = Doomed(g)
  BY After
<1>2. nextId \in Nat /\ nextId' \in Nat /\ nextId <= nextId'
  BY DEF Permitted, TypeInv
<1>3. \A g \in Writers : Own(g) \subseteq Ids /\ Doomed(g) \subseteq Ids
  BY DEF Own, Doomed, TypeInv, HeldInv, HeldBy
<1>4. Ids \subseteq Nat
  BY RegistryBounds DEF Ids
<1>5. nextId \notin known
  BY <1>4 DEF Durable, LowInv, TypeInv
<1>6. \A g \in Writers : nextId \notin Own(g) /\ nextId \notin Doomed(g)
  BY <1>2, <1>3, <1>4 DEF OwnInv, DoomedInv
<1> HIDE DEF RegInv
<1>a. /\ OwnInv /\ DoomedInv /\ HeldInv /\ LowInv /\ HeadInv /\ TypeInv /\ Durable
      /\ \A x \in Ids : x < nextId => x < nextId'
  BY <1>2, <1>4 DEF RegInv
<1>7. OwnInv'
  <2>1. ASSUME NEW x \in Own(h)' PROVE x < nextId' /\ x \notin known'
    <3>1. CASE x \in Own(h)
      <4>1. x < nextId /\ x \notin known /\ x \in Ids
        BY <1>3, <1>a, <3>1 DEF OwnInv
      <4>2. x \notin known'
        BY <2>1, <4>1 DEF Permitted
      <4>3. QED BY <1>a, <4>1, <4>2
    <3>2. CASE x = nextId /\ nextId' = nextId + 1
      <4>1. x \notin known'
        BY <1>5, <2>1, <3>2 DEF Permitted
      <4>2. QED BY <1>2, <3>2, <4>1
    <3>3. QED BY <2>1, <3>1, <3>2 DEF Permitted
  <2>2. \A g \in Writers : g # h => Own(h)' \cap Own(g) = {}
    BY <1>6, <1>a DEF Permitted, OwnInv
  <2>3. ASSUME NEW g \in Writers, g # h, NEW x \in Own(g)
        PROVE  x < nextId' /\ x \notin known'
    <3>1. x \in Ids /\ x < nextId /\ x \notin known /\ x \notin Own(h)
      BY <1>3, <1>a, <2>3 DEF OwnInv
    <3>2. x < nextId'
      BY <1>a, <3>1
    <3>3. x \notin known'
      BY <3>1 DEF Permitted
    <3>4. QED BY <3>2, <3>3
  <2>4. \A g \in Writers : \A x \in Own(g)' : x < nextId' /\ x \notin known'
    BY <1>1, <2>1, <2>3
  <2>5. \A g, k \in Writers : g # k => Own(g)' \cap Own(k)' = {}
    BY <1>1, <1>a, <2>2 DEF OwnInv
  <2>6. QED BY <2>4, <2>5 DEF OwnInv
<1>8. DoomedInv'
  <2>1. ASSUME NEW g \in Writers, g # h, NEW x \in Doomed(g)
        PROVE  x < nextId' /\ x \notin known'
    <3>1. x \in Ids /\ x < nextId /\ x \notin known /\ x \notin Own(h)
      BY <1>3, <1>a, <2>1 DEF DoomedInv
    <3>2. x < nextId'
      BY <1>a, <3>1
    <3>3. x \notin known'
      BY <3>1 DEF Permitted
    <3>4. QED BY <3>2, <3>3
  <2>2. \A g \in Writers : \A x \in Doomed(g) : x \notin Own(h)'
    BY <1>6, <1>a DEF Permitted, DoomedInv
  <2>3. \A x \in Doomed(h)' : x < nextId'
    <3>1. Doomed(h)' \subseteq Ids
      BY DEF Doomed, TypeInv
    <3>2. \A x \in Doomed(h)' : x < nextId
      BY DEF Permitted
    <3>3. QED BY <1>a, <3>1, <3>2
  <2>4. ASSUME NEW g \in Writers, NEW x \in Doomed(g)'
        PROVE  /\ x < nextId' /\ x \notin known'
               /\ \A k \in Writers : x \notin Own(k)'
    <3>1. CASE g = h
      BY <2>3, <2>4, <3>1 DEF Permitted
    <3>2. CASE g # h
      <4>1. x \in Doomed(g)
        BY <1>1, <2>4, <3>2
      <4>2. \A k \in Writers : x \notin Own(k)
        BY <1>a, <4>1 DEF DoomedInv
      <4>3. \A k \in Writers : x \notin Own(k)'
        BY <1>1, <2>2, <4>1, <4>2
      <4>4. QED BY <2>1, <3>2, <4>1, <4>3
    <3>3. QED BY <3>1, <3>2
  <2>5. QED BY <2>4 DEF DoomedInv
<1>9. ASSUME NEW g \in Writers, g # h, NEW x \in Own(g)
      PROVE  /\ positions'[x] = positions[x] /\ x \in Ids
             /\ rows[x] # Absent => rows'[x] # Absent
  <2>1. x \notin Own(h) /\ x \notin Doomed(h) /\ x # nextId /\ x \in Ids
    BY <1>3, <1>6, <1>9, <1>a DEF OwnInv, DoomedInv
  <2>2. QED BY <1>9, <2>1 DEF Permitted
<1>10. ASSUME NEW g \in Writers, g # h PROVE HeldBy(g)'
  <2>1. HeldBy(g)
    BY <1>a DEF HeldInv
  <2>2. pc[g] \in Changing => idOf[g] # nextId /\ idOf[g] \notin Own(h)
    BY <1>2, <2>1, <1>4 DEF HeldBy
  <2>3. pc[g] \in Changing => \A k \in Writers : idOf[g] \notin Own(k)'
    BY <1>1, <2>1, <2>2 DEF HeldBy, Permitted
  <2>4. pc[g] = "adopt" => positions'[idOf[g]] = positions[idOf[g]]
    BY <1>9, <1>10 DEF Own, Entered
  <2>5. pc[g] \in {"keyword", "adopt", "member_row"} =>
          \A x \in groupOf[g] : rows[x] # Absent => rows'[x] # Absent
    BY <1>9, <1>10 DEF Own, Entered
  <2>6. QED BY <1>1, <1>10, <1>a, <2>1, <2>3, <2>4, <2>5 DEF HeldBy
<1>11. HeldInv'
  BY <1>10 DEF HeldInv
<1>12. HeadInv'
  <2>1. ASSUME NEW m \in Own(h)', positions'[m] # Absent
        PROVE  /\ positions'[m].head \notin known'
               /\ \A g \in Writers : g # h => positions'[m].head \notin Own(g)
    <3>1. CASE positions'[m].head \in Own(h)'
      BY <1>1, <1>7, <3>1 DEF OwnInv
    <3>2. CASE m \in Own(h) /\ positions'[m] = positions[m]
      BY <1>a, <2>1, <3>2 DEF HeadInv, Permitted
    <3>3. QED BY <2>1, <3>1, <3>2 DEF Permitted
  <2>2. ASSUME NEW g \in Writers, g # h, NEW m \in Own(g), positions'[m] # Absent
        PROVE  /\ positions'[m].head \notin known'
               /\ \A k \in Writers : k # g => positions'[m].head \notin Own(k)'
    <3>1. positions'[m] = positions[m] /\ m \in Ids
      BY <1>9, <2>2
    <3>2. /\ positions[m].head \notin known
          /\ \A k \in Writers : k # g => positions[m].head \notin Own(k)
      BY <1>a, <2>2, <3>1 DEF HeadInv
    <3>3. positions[m].head # nextId
      <4>1. m < nextId /\ positions[m].head <= m
        BY <1>a, <2>2, <3>1 DEF LowInv
      <4>2. positions[m].head \in Ids
        BY <1>a, <2>2, <3>1 DEF TypeInv, Position
      <4>3. QED BY <1>2, <1>4, <3>1, <4>1, <4>2
    <3>4. QED BY <1>1, <2>2, <3>1, <3>2, <3>3 DEF Permitted
  <2>3. QED BY <1>1, <2>1, <2>2 DEF HeadInv
<1>13. QED BY <1>7, <1>8, <1>11, <1>12 DEF RegInv

LEMMA TypeAfter ==
  ASSUME TypeInv, NEW h \in Writers, NEW label \in Labels, NEW id \in Ids \cup {0},
         NEW held \in Position \cup {Absent}, NEW group \in SUBSET Ids,
         Moved(h, label, id, held, group),
         positions' \in [Ids -> Position \cup {Absent}],
         rows' \in [Ids -> Position \cup {Absent}],
         nextId' \in Nat, known' \subseteq Ids
  PROVE  TypeInv'
BY DEF Moved, TypeInv

(* What the steps below use again and again.                                *)
LEMMA Facts ==
  ASSUME RegInv
  PROVE  /\ TypeInv /\ OwnInv /\ DoomedInv /\ HeldInv /\ LowInv /\ HeadInv /\ Durable
         /\ Ids \subseteq Nat /\ nextId \in Nat /\ nextId \notin known
         /\ \A g \in Writers : Own(g) \subseteq Ids /\ nextId \notin Own(g)
<1>1. Ids \subseteq Nat
  BY RegistryBounds DEF Ids
<1>2. nextId \in Nat /\ nextId \notin known
  BY <1>1 DEF RegInv, Durable, LowInv, TypeInv
<1>3. \A g \in Writers : Own(g) \subseteq Ids
  BY DEF RegInv, Own, TypeInv, HeldInv, HeldBy
<1>4. ASSUME NEW g \in Writers, nextId \in Own(g) PROVE FALSE
  <2>1. nextId < nextId
    BY <1>4 DEF RegInv, OwnInv
  <2>2. QED BY <1>2, <2>1
<1>5. QED BY <1>1, <1>2, <1>3, <1>4 DEF RegInv

LEMMA RegisterOneHolds ==
  ASSUME RegInv, NEW h \in Writers, NEW emb \in Embeddings, NEW terms \in Terms,
         RegisterOne(h, emb, terms)
  PROVE  RegInv'
<1> DEFINE pos == [emb |-> emb, terms |-> terms, head |-> nextId]
<1>1. /\ nextId \in Ids /\ nextId' = nextId + 1 /\ pc[h] = "idle"
      /\ positions' = [positions EXCEPT ![nextId] = pos]
      /\ rows' = rows /\ known' = known
      /\ Moved(h, "insert", nextId, pos, {})
  BY DEF RegisterOne, Accept, Enter, Goto, Locals, Moved, history
<1>2. pos \in Position /\ pos.head = nextId
  BY <1>1 DEF Position
<1> HIDE DEF pos
<1>3. Own(h)' = {nextId} /\ Doomed(h)' = {} /\ idOf'[h] = nextId /\ heldOf'[h] = pos
      /\ pc'[h] = "insert"
  BY <1>1, Facts, After DEF Entered
<1>4. positions'[nextId] = pos /\ \A x \in Ids \ {nextId} : positions'[x] = positions[x]
  BY <1>1, Facts DEF TypeInv
<1>5. Permitted(h)
  BY <1>1, <1>2, <1>3, <1>4 DEF Permitted
<1>6. TypeInv'
  <2>1. positions' \in [Ids -> Position \cup {Absent}] /\ nextId' \in Nat
    BY <1>1, <1>2, Facts DEF TypeInv
  <2>2. /\ rows' \in [Ids -> Position \cup {Absent}] /\ known' \subseteq Ids
        /\ "insert" \in Labels
    BY <1>1, Facts DEF TypeInv, Labels, Entered
  <2>3. QED BY <1>1, <1>2, <2>1, <2>2, Facts, TypeAfter
<1>7. HeldBy(h)'
  BY <1>1, <1>2, <1>3, Facts DEF HeldBy, Entered, Changing
<1>8. LowInv'
  BY <1>1, <1>2, <1>4, Facts DEF LowInv
<1>9. Durable'
  BY <1>1, Facts DEF Durable
<1>10. QED BY <1>1, <1>5, <1>6, <1>7, <1>8, <1>9, Preserved

LEMMA InsertRowHolds ==
  ASSUME RegInv, NEW h \in Writers, InsertRow(h)
  PROVE  RegInv'
<1>1. /\ nextId' = nextId /\ pc[h] = "insert" /\ positions' = positions
      /\ \/ RowInserted(h) /\ known' = known \cup {idOf[h]}
         \/ rows' = rows /\ known' = known
      /\ Moved(h, "idle", 0, Absent, {})
  BY DEF InsertRow, Answer, Goto, Locals, Moved
<1>2. Own(h)' = {} /\ Doomed(h)' = {} /\ pc'[h] = "idle"
  BY <1>1, Facts, After DEF Entered
<1>3. /\ idOf[h] \in Own(h) /\ idOf[h] \in Ids /\ idOf[h] < nextId
      /\ heldOf[h] \in Position /\ heldOf[h].head <= idOf[h]
  BY <1>1, Facts DEF HeldInv, HeldBy, Own, Entered
<1>4. heldOf[h] # Absent
  BY <1>3, AbsentIsNoPosition
<1>5. \/ rows' = rows /\ known' = known
      \/ /\ rows'[idOf[h]] = heldOf[h] /\ known' = known \cup {idOf[h]}
         /\ \A x \in Ids \ {idOf[h]} : rows'[x] = rows[x]
         /\ rows' \in [Ids -> Position \cup {Absent}]
  BY <1>1, <1>3, Facts DEF RowInserted, TypeInv
<1>6. Permitted(h)
  BY <1>1, <1>2, <1>3, <1>5 DEF Permitted
<1>7. TypeInv'
  <2>1. rows' \in [Ids -> Position \cup {Absent}] /\ known' \subseteq Ids
    BY <1>3, <1>5, Facts DEF TypeInv
  <2>2. /\ positions' \in [Ids -> Position \cup {Absent}] /\ nextId' \in Nat
        /\ "idle" \in Labels
    BY <1>1, Facts DEF TypeInv, Labels
  <2>3. Moved(h, "idle", 0, Absent, {}) /\ TypeInv
    BY <1>1, Facts
  <2>4. QED BY SMTT(40), <2>1, <2>2, <2>3, TypeAfter
<1>8. HeldBy(h)'
  BY <1>2 DEF HeldBy, Entered, Changing
<1>9. LowInv'
  BY <1>1, <1>3, <1>5, Facts DEF LowInv
<1>10. Durable'
  BY <1>4, <1>5, Facts DEF Durable, TypeInv
<1>11. QED BY <1>1, <1>6, <1>7, <1>8, <1>9, <1>10, Preserved

LEMMA RegisterGroupHolds ==
  ASSUME RegInv, NEW h \in Writers, NEW n, RegisterGroup(h, n)
  PROVE  RegInv'
<1>1. /\ nextId' = nextId /\ positions' = positions /\ rows' = rows /\ known' = known
      /\ Moved(h, "keyword", 0, Absent, {})
  BY DEF RegisterGroup, Goto, Locals, Moved, history
<1>2. Own(h)' = {} /\ Doomed(h)' = {} /\ pc'[h] = "keyword" /\ groupOf'[h] = {}
  BY <1>1, Facts, After DEF Entered
<1>3. Permitted(h)
  BY <1>1, <1>2 DEF Permitted
<1>4. TypeInv'
  <2>1. /\ positions' \in [Ids -> Position \cup {Absent}] /\ nextId' \in Nat
        /\ rows' \in [Ids -> Position \cup {Absent}] /\ known' \subseteq Ids
        /\ "keyword" \in Labels
    BY <1>1, Facts DEF TypeInv, Labels
  <2>2. QED BY SMTT(40), <1>1, <2>1, Facts, TypeAfter
<1>5. HeldBy(h)'
  BY <1>2 DEF HeldBy, Entered, Changing
<1>6. LowInv' /\ Durable'
  BY <1>1, Facts DEF LowInv, Durable
<1>7. QED BY <1>1, <1>3, <1>4, <1>5, <1>6, Preserved

LEMMA KeywordHolds ==
  ASSUME RegInv, NEW h \in Writers, NEW emb \in Embeddings, NEW terms \in Terms,
         Keyword(h, emb, terms)
  PROVE  RegInv'
<1> DEFINE pos == [emb |-> emb, terms |-> terms, head |-> nextId]
           label == IF groupOf[h] = {} THEN "member_row" ELSE "adopt"
<1>1. /\ nextId \in Ids /\ nextId' = nextId + 1 /\ pc[h] = "keyword"
      /\ positions' = [positions EXCEPT ![nextId] = pos]
      /\ rows' = rows /\ known' = known
      /\ Moved(h, label, nextId, pos, groupOf[h])
  BY DEF Keyword, Enter, Goto, Locals, Moved, history
<1>2. pos \in Position /\ pos.head = nextId
  BY <1>1 DEF Position
<1>3. label \in {"member_row", "adopt"} /\ (label = "adopt" => groupOf[h] # {})
  OBVIOUS
<1> HIDE DEF pos, label
<1>4. /\ Own(h)' = groupOf[h] \cup {nextId} /\ Doomed(h)' = {}
      /\ idOf'[h] = nextId /\ heldOf'[h] = pos /\ groupOf'[h] = groupOf[h]
      /\ pc'[h] = label
  BY <1>1, <1>3, Facts, After DEF Entered
<1>5. /\ Own(h) = groupOf[h] /\ \A x \in groupOf[h] : rows[x] # Absent
      /\ \A x \in groupOf[h] : x < nextId
  BY <1>1, Facts DEF HeldInv, HeldBy, OwnInv, Own, Entered
<1>6. positions'[nextId] = pos /\ \A x \in Ids \ {nextId} : positions'[x] = positions[x]
  BY <1>1, Facts DEF TypeInv
<1>7. Permitted(h)
  <2>1. ASSUME NEW x \in Own(h)'
        PROVE  \/ positions'[x].head \in Own(h)'
               \/ x \in Own(h) /\ positions'[x] = positions[x]
    <3>1. CASE x = nextId
      <4>1. positions'[x].head = nextId /\ nextId \in Own(h)'
        BY <1>2, <1>4, <1>6, <3>1
      <4>2. QED BY <4>1
    <3>2. CASE x # nextId
      <4>1. x \in Own(h) /\ x \in Ids
        BY <1>4, <1>5, <2>1, <3>2, Facts
      <4>2. QED BY <1>6, <3>2, <4>1
    <3>3. QED BY <3>1, <3>2
  <2>2. QED BY <1>1, <1>4, <1>5, <1>6, <2>1 DEF Permitted
<1>8. TypeInv'
  <2>1. positions' \in [Ids -> Position \cup {Absent}] /\ nextId' \in Nat
    BY <1>1, <1>2, Facts DEF TypeInv
  <2>2. /\ rows' \in [Ids -> Position \cup {Absent}] /\ known' \subseteq Ids
        /\ label \in Labels /\ groupOf[h] \in SUBSET Ids
    BY <1>1, <1>3, Facts DEF TypeInv, Labels, Entered
  <2>3. QED BY <1>1, <1>2, <2>1, <2>2, Facts, TypeAfter
<1>9. HeldBy(h)'
  BY <1>1, <1>2, <1>3, <1>4, <1>5, <1>6, Facts DEF HeldBy, Entered, Changing
<1>10. LowInv'
  BY <1>1, <1>2, <1>6, Facts DEF LowInv
<1>11. Durable'
  BY <1>1, Facts DEF Durable
<1>12. QED BY <1>1, <1>7, <1>8, <1>9, <1>10, <1>11, Preserved

LEMMA KeywordFailsHolds ==
  ASSUME RegInv, NEW h \in Writers, KeywordFails(h)
  PROVE  RegInv'
<1>1. /\ nextId' = nextId /\ positions' = positions /\ rows' = rows /\ known' = known
      /\ pc[h] = "keyword"
      /\ Moved(h, "rollback", idOf[h], heldOf[h], groupOf[h])
  BY Facts DEF KeywordFails, Goto, locals, Moved, history, TypeInv
<1>2. /\ Own(h)' = groupOf[h] /\ Own(h) = groupOf[h] /\ Doomed(h)' = {}
      /\ pc'[h] = "rollback"
  BY ZenonT(40), <1>1, Facts, After DEF Entered, Own
<1>3. Permitted(h)
  BY <1>1, <1>2 DEF Permitted
<1>4. TypeInv'
  <2>1. /\ positions' \in [Ids -> Position \cup {Absent}] /\ nextId' \in Nat
        /\ rows' \in [Ids -> Position \cup {Absent}] /\ known' \subseteq Ids
        /\ "rollback" \in Labels /\ idOf[h] \in Ids \cup {0}
        /\ heldOf[h] \in Position \cup {Absent} /\ groupOf[h] \in SUBSET Ids
    BY <1>1, Facts DEF TypeInv, Labels
  <2>2. QED BY <1>1, <2>1, Facts, TypeAfter
<1>5. HeldBy(h)'
  BY <1>2 DEF HeldBy, Entered, Changing
<1>6. LowInv' /\ Durable'
  BY <1>1, Facts DEF LowInv, Durable
<1>7. QED BY <1>1, <1>3, <1>4, <1>5, <1>6, Preserved

LEMMA AdoptHolds ==
  ASSUME RegInv, NEW h \in Writers, Adopt(h)
  PROVE  RegInv'
<1> DEFINE member == [emb |-> heldOf[h].emb, terms |-> heldOf[h].terms, head |-> Head(h)]
<1>1. /\ nextId' = nextId /\ rows' = rows /\ known' = known /\ pc[h] = "adopt"
      /\ positions' = [positions EXCEPT ![idOf[h]] = member]
      /\ Moved(h, "member_row", idOf[h], member, groupOf[h])
  BY DEF Adopt, Goto, Locals, Moved, history
<1>2. /\ idOf[h] \in Ids /\ idOf[h] < nextId /\ heldOf[h] \in Position
      /\ groupOf[h] # {} /\ groupOf[h] \subseteq Ids
      /\ \A x \in groupOf[h] : x < idOf[h] /\ rows[x] # Absent
      /\ Own(h) = groupOf[h] \cup {idOf[h]}
  BY <1>1, Facts DEF HeldInv, HeldBy, Own, Entered, TypeInv
<1>3. Head(h) \in groupOf[h] /\ Head(h) \in Ids /\ Head(h) <= idOf[h]
  BY <1>2, Facts, HeadOfGroup
<1>4. member \in Position /\ member.head = Head(h)
  BY <1>2, <1>3 DEF Position
<1> HIDE DEF member
<1>5. /\ Own(h)' = Own(h) /\ Doomed(h)' = {} /\ idOf'[h] = idOf[h]
      /\ heldOf'[h] = member /\ groupOf'[h] = groupOf[h] /\ pc'[h] = "member_row"
  BY <1>1, <1>2, Facts, After DEF Entered
<1>6. positions'[idOf[h]] = member
      /\ \A x \in Ids \ {idOf[h]} : positions'[x] = positions[x]
  BY <1>1, <1>2, Facts DEF TypeInv
<1>7. Permitted(h)
  <2>1. ASSUME NEW x \in Own(h)'
        PROVE  \/ positions'[x].head \in Own(h)'
               \/ x \in Own(h) /\ positions'[x] = positions[x]
    <3>1. CASE x = idOf[h]
      <4>1. positions'[x].head = Head(h) /\ Head(h) \in Own(h)'
        BY <1>2, <1>3, <1>4, <1>5, <1>6, <3>1
      <4>2. QED BY <4>1
    <3>2. CASE x # idOf[h]
      <4>1. x \in Own(h) /\ x \in Ids
        BY <1>5, <2>1, <3>2, Facts
      <4>2. QED BY <1>6, <3>2, <4>1
    <3>3. QED BY <3>1, <3>2
  <2>2. QED BY <1>1, <1>2, <1>5, <1>6, <2>1 DEF Permitted
<1>8. TypeInv'
  <2>1. positions' \in [Ids -> Position \cup {Absent}] /\ nextId' \in Nat
    BY <1>1, <1>2, <1>4, Facts DEF TypeInv
  <2>2. /\ rows' \in [Ids -> Position \cup {Absent}] /\ known' \subseteq Ids
        /\ "member_row" \in Labels
    BY <1>1, Facts DEF TypeInv, Labels, Entered
  <2>3. QED BY <1>1, <1>2, <1>4, <2>1, <2>2, Facts, TypeAfter
<1>9. HeldBy(h)'
  BY <1>1, <1>2, <1>3, <1>4, <1>5, Facts DEF HeldBy, Entered, Changing
<1>10. LowInv'
  BY <1>1, <1>2, <1>3, <1>4, <1>6, Facts DEF LowInv
<1>11. Durable'
  BY <1>1, Facts DEF Durable
<1>12. QED BY <1>1, <1>7, <1>8, <1>9, <1>10, <1>11, Preserved

LEMMA MemberRowHolds ==
  ASSUME RegInv, NEW h \in Writers, MemberRow(h)
  PROVE  RegInv'
<1> DEFINE group == groupOf[h] \cup {idOf[h]}
<1>1. /\ nextId' = nextId /\ positions' = positions /\ RowInserted(h)
      /\ pc[h] = "member_row"
  BY DEF MemberRow
<1>2. /\ idOf[h] \in Ids /\ idOf[h] < nextId /\ heldOf[h] \in Position
      /\ heldOf[h].head <= idOf[h] /\ groupOf[h] \subseteq Ids
      /\ \A x \in groupOf[h] : rows[x] # Absent
      /\ Own(h) = group
  BY <1>1, Facts DEF HeldInv, HeldBy, Own, Entered, TypeInv
<1>3. /\ rows' \in [Ids -> Position \cup {Absent}] /\ rows'[idOf[h]] = heldOf[h]
      /\ \A x \in Ids \ {idOf[h]} : rows'[x] = rows[x]
  BY <1>1, <1>2, Facts DEF RowInserted, TypeInv
<1>4. \A x \in Own(h) : rows'[x] # Absent
  BY <1>2, <1>3, AbsentIsNoPosition
<1>5. LowInv'
  BY <1>1, <1>2, <1>3, Facts DEF LowInv
<1>6. /\ positions' \in [Ids -> Position \cup {Absent}] /\ nextId' \in Nat
      /\ TypeInv /\ group \in SUBSET Ids /\ known \subseteq Ids
  BY <1>1, <1>2, Facts DEF TypeInv
<1>7. CASE /\ Moved(h, "keyword", 0, Absent, group) /\ known' = known
  <2>1. /\ Own(h)' = group /\ Doomed(h)' = {} /\ groupOf'[h] = group
        /\ pc'[h] = "keyword"
    BY <1>6, <1>7, After DEF Entered
  <2>2. Permitted(h)
    BY <1>1, <1>2, <1>3, <1>7, <2>1 DEF Permitted
  <2>3. TypeInv'
    <3>1. "keyword" \in Labels /\ known' \subseteq Ids
      BY <1>6, <1>7 DEF Labels
    <3>2. QED BY <1>3, <1>6, <1>7, <3>1, TypeAfter
  <2>4. HeldBy(h)'
    BY <1>2, <1>4, <2>1 DEF HeldBy, Entered, Changing
  <2>5. Durable'
    BY <1>2, <1>3, <1>4, <1>6, <1>7, Facts DEF Durable
  <2>6. QED BY <1>5, <1>7, <2>2, <2>3, <2>4, <2>5, Preserved
<1>8. CASE /\ Moved(h, "idle", 0, Absent, {}) /\ known' = known \cup group
  <2>1. Own(h)' = {} /\ Doomed(h)' = {} /\ pc'[h] = "idle"
    BY <1>6, <1>8, After DEF Entered
  <2>2. Permitted(h)
    BY <1>1, <1>2, <1>3, <1>8, <2>1 DEF Permitted
  <2>3. TypeInv'
    <3>1. "idle" \in Labels /\ known' \subseteq Ids
      BY <1>6, <1>8 DEF Labels
    <3>2. QED BY <1>3, <1>6, <1>8, <3>1, TypeAfter
  <2>4. HeldBy(h)'
    BY <2>1 DEF HeldBy, Entered, Changing
  <2>5. Durable'
    BY <1>2, <1>3, <1>4, <1>6, <1>8, Facts DEF Durable
  <2>6. QED BY <1>5, <1>8, <2>2, <2>3, <2>4, <2>5, Preserved
<1>9. QED BY <1>7, <1>8 DEF MemberRow, Goto, Locals, Moved, Answer

LEMMA MemberRowFailsHolds ==
  ASSUME RegInv, NEW h \in Writers, MemberRowFails(h)
  PROVE  RegInv'
<1>1. /\ nextId' = nextId /\ known' = known /\ pc[h] = "member_row"
      /\ positions' = [positions EXCEPT ![idOf[h]] = Absent]
      /\ rows' = rows \/ RowInserted(h)
      /\ Moved(h, "rollback", 0, Absent, groupOf[h])
  BY DEF MemberRowFails, Goto, Locals, Moved
<1>2. /\ idOf[h] \in Ids /\ idOf[h] < nextId /\ heldOf[h] \in Position
      /\ heldOf[h].head <= idOf[h] /\ groupOf[h] \in SUBSET Ids
      /\ Own(h) = groupOf[h] \cup {idOf[h]}
  BY <1>1, Facts DEF HeldInv, HeldBy, Own, Entered, TypeInv
<1>3. heldOf[h] # Absent
  BY <1>2, AbsentIsNoPosition
<1>4. \/ rows' = rows
      \/ /\ rows' \in [Ids -> Position \cup {Absent}] /\ rows'[idOf[h]] = heldOf[h]
         /\ \A x \in Ids \ {idOf[h]} : rows'[x] = rows[x]
  BY <1>1, <1>2, Facts DEF RowInserted, TypeInv
<1>5. /\ positions' \in [Ids -> Position \cup {Absent}] /\ positions'[idOf[h]] = Absent
      /\ \A x \in Ids \ {idOf[h]} : positions'[x] = positions[x]
  BY <1>1, <1>2, Facts DEF TypeInv
<1>6. /\ Own(h)' = groupOf[h] /\ Doomed(h)' = {} /\ pc'[h] = "rollback"
  BY <1>1, Facts, After DEF Entered
<1>7. Permitted(h)
  <2>1. ASSUME NEW x \in Own(h)'
        PROVE  \/ positions'[x] = Absent
               \/ x \in Own(h) /\ positions'[x] = positions[x]
    <3>1. x \in Ids /\ x \in Own(h)
      BY <1>2, <1>6, <2>1
    <3>2. QED BY <1>5, <3>1
  <2>2. QED BY <1>1, <1>2, <1>3, <1>4, <1>5, <1>6, <2>1 DEF Permitted
<1>8. TypeInv'
  <2>1. /\ rows' \in [Ids -> Position \cup {Absent}] /\ known' \subseteq Ids
        /\ nextId' \in Nat /\ "rollback" \in Labels /\ TypeInv
    BY <1>1, <1>4, Facts DEF TypeInv, Labels
  <2>2. QED BY <1>1, <1>2, <1>5, <2>1, TypeAfter
<1>9. HeldBy(h)'
  BY <1>6 DEF HeldBy, Entered, Changing
<1>10. LowInv'
  BY <1>1, <1>2, <1>4, <1>5, Facts DEF LowInv
<1>11. Durable'
  BY <1>1, <1>3, <1>4, Facts DEF Durable, TypeInv
<1>12. QED BY <1>1, <1>7, <1>8, <1>9, <1>10, <1>11, Preserved

LEMMA RollbackMemoryHolds ==
  ASSUME RegInv, NEW h \in Writers, RollbackMemory(h)
  PROVE  RegInv'
<1>1. /\ nextId' = nextId /\ known' = known /\ rows' = rows /\ pc[h] = "rollback"
  BY DEF RollbackMemory
<1>2. Own(h) = groupOf[h] /\ groupOf[h] \in SUBSET Ids /\ idOf[h] \in Ids \cup {0}
      /\ heldOf[h] \in Position \cup {Absent}
  BY <1>1, Facts DEF Own, Entered, TypeInv
<1>3. CASE /\ positions' = positions /\ Moved(h, "idle", 0, Absent, {})
  <2>1. Own(h)' = {} /\ Doomed(h)' = {} /\ pc'[h] = "idle"
    BY <1>3, Facts, After DEF Entered
  <2>2. Permitted(h)
    BY <1>1, <1>3, <2>1 DEF Permitted
  <2>3. TypeInv'
    <3>1. /\ positions' \in [Ids -> Position \cup {Absent}] /\ nextId' \in Nat
          /\ rows' \in [Ids -> Position \cup {Absent}] /\ known' \subseteq Ids
          /\ "idle" \in Labels /\ TypeInv
      BY <1>1, <1>3, Facts DEF TypeInv, Labels
    <3>2. Moved(h, "idle", 0, Absent, {}) /\ {} \in SUBSET Ids
      BY <1>3
    <3>3. QED BY <3>1, <3>2, TypeAfter
  <2>4. HeldBy(h)'
    BY <2>1 DEF HeldBy, Entered, Changing
  <2>5. LowInv' /\ Durable'
    BY <1>1, <1>3, Facts DEF LowInv, Durable
  <2>6. QED BY <1>3, <2>2, <2>3, <2>4, <2>5, Preserved
<1>4. CASE /\ groupOf[h] # {} /\ positions' = [positions EXCEPT ![Head(h)] = Absent]
           /\ Moved(h, "rollback_row", idOf[h], heldOf[h], groupOf[h])
  <2>1. Head(h) \in groupOf[h]
    BY <1>4, Facts, HeadOfGroup
  <2>2. /\ positions' \in [Ids -> Position \cup {Absent}]
        /\ \A x \in Ids : \/ positions'[x] = Absent /\ x \in Own(h)
                          \/ positions'[x] = positions[x]
    BY <1>2, <1>4, <2>1, Facts DEF TypeInv
  <2>3. /\ Own(h)' = Own(h) /\ Doomed(h)' = {} /\ pc'[h] = "rollback_row"
        /\ groupOf'[h] = groupOf[h]
    BY <1>2, <1>4, Facts, After DEF Entered
  <2>4. Permitted(h)
    BY <1>1, <1>2, <2>2, <2>3 DEF Permitted
  <2>5. TypeInv'
    <3>1. /\ rows' \in [Ids -> Position \cup {Absent}] /\ known' \subseteq Ids
          /\ nextId' \in Nat /\ "rollback_row" \in Labels /\ TypeInv
      BY <1>1, Facts DEF TypeInv, Labels
    <3>2. QED BY <1>2, <1>4, <2>2, <3>1, TypeAfter
  <2>6. HeldBy(h)'
    BY <1>4, <2>3 DEF HeldBy, Entered, Changing
  <2>7. LowInv' /\ Durable'
    BY <1>1, <2>2, Facts DEF LowInv, Durable
  <2>8. QED BY <1>4, <2>4, <2>5, <2>6, <2>7, Preserved
<1>5. QED
  <2>1. CASE groupOf[h] = {}
    BY <1>3, <2>1 DEF RollbackMemory, Answer, Goto, Locals, Moved
  <2>2. CASE groupOf[h] # {}
    BY <1>4, <2>2, Facts DEF RollbackMemory, Goto, locals, Moved, TypeInv
  <2>3. QED BY <2>1, <2>2

LEMMA RollbackRowHolds ==
  ASSUME RegInv, NEW h \in Writers, RollbackRow(h)
  PROVE  RegInv'
<1> DEFINE rest == groupOf[h] \ {Head(h)}
<1>1. /\ nextId' = nextId /\ known' = known /\ positions' = positions
      /\ pc[h] = "rollback_row"
      /\ RowDeleted(Head(h)) \/ rows' = rows
      /\ Moved(h, "rollback", 0, Absent, rest)
  BY DEF RollbackRow, Goto, Locals, Moved, history
<1>2. /\ Own(h) = groupOf[h] /\ groupOf[h] \in SUBSET Ids /\ groupOf[h] # {}
  BY <1>1, Facts DEF Own, Entered, TypeInv, HeldInv, HeldBy
<1>3. Head(h) \in groupOf[h] /\ rest \in SUBSET Ids
  BY <1>2, Facts, HeadOfGroup
<1>4. /\ rows' \in [Ids -> Position \cup {Absent}]
      /\ \A x \in Ids : (rows'[x] = Absent /\ x \in Own(h)) \/ rows'[x] = rows[x]
  BY <1>1, <1>2, <1>3, Facts DEF RowDeleted, TypeInv
<1>5. Own(h)' = rest /\ Doomed(h)' = {} /\ pc'[h] = "rollback"
  BY <1>1, Facts, After DEF Entered
<1>6. Permitted(h)
  BY <1>1, <1>2, <1>4, <1>5 DEF Permitted
<1>7. TypeInv'
  <2>1. /\ positions' \in [Ids -> Position \cup {Absent}] /\ nextId' \in Nat
        /\ known' \subseteq Ids /\ "rollback" \in Labels /\ TypeInv
    BY <1>1, Facts DEF TypeInv, Labels
  <2>2. QED BY <1>1, <1>3, <1>4, <2>1, TypeAfter
<1>8. HeldBy(h)'
  BY <1>5 DEF HeldBy, Entered, Changing
<1>9. LowInv'
  BY <1>1, <1>4, Facts DEF LowInv
<1>10. Durable'
  <2>1. ASSUME NEW x \in known PROVE rows'[x] # Absent
    <3>1. x \notin Own(h) /\ x \in Ids /\ rows[x] # Absent
      BY Facts DEF OwnInv, TypeInv, Durable
    <3>2. QED BY <1>4, <3>1
  <2>2. QED BY <1>1, <2>1 DEF Durable
<1>11. QED BY <1>1, <1>6, <1>7, <1>8, <1>9, <1>10, Preserved

LEMMA UpdateReadHolds ==
  ASSUME RegInv, "early" \notin Operations, NEW h \in Writers, NEW id \in Ids,
         NEW emb \in Embeddings, NEW terms \in Terms, UpdateRead(h, id, emb, terms)
  PROVE  RegInv'
<1> DEFINE held == [emb |-> emb, terms |-> terms, head |-> positions[id].head]
<1>1. /\ nextId' = nextId /\ known' = known /\ positions' = positions /\ rows' = rows
      /\ positions[id] # Absent /\ id \in known
      /\ Moved(h, "store", id, held, {})
  BY DEF UpdateRead, Accept, Nameable, Present, Goto, Locals, Moved, history
<1>2. /\ held \in Position /\ held.head <= id /\ id < nextId
  BY <1>1, Facts DEF TypeInv, LowInv, Position
<1> HIDE DEF held
<1>3. /\ Own(h)' = {} /\ Doomed(h)' = {} /\ pc'[h] = "store" /\ idOf'[h] = id
      /\ heldOf'[h] = held
  BY <1>1, Facts, After DEF Entered
<1>4. \A g \in Writers : id \notin Own(g)'
  <2>1. \A g \in Writers : id \notin Own(g)
    BY <1>1, Facts DEF OwnInv
  <2>2. \A g \in Writers : g # h => Own(g)' = Own(g)
    BY <1>1, Facts, After
  <2>3. QED BY <1>3, <2>1, <2>2
<1>5. Permitted(h)
  BY <1>1, <1>3 DEF Permitted
<1>6. TypeInv'
  <2>1. /\ positions' \in [Ids -> Position \cup {Absent}] /\ nextId' \in Nat
        /\ rows' \in [Ids -> Position \cup {Absent}] /\ known' \subseteq Ids
        /\ "store" \in Labels /\ TypeInv /\ {} \in SUBSET Ids
    BY <1>1, Facts DEF TypeInv, Labels, Changing
  <2>2. QED BY <1>1, <1>2, <2>1, TypeAfter
<1>7. HeldBy(h)'
  BY <1>1, <1>2, <1>3, <1>4 DEF HeldBy, Entered, Changing
<1>8. LowInv' /\ Durable'
  BY <1>1, Facts DEF LowInv, Durable
<1>9. QED BY <1>1, <1>5, <1>6, <1>7, <1>8, Preserved

LEMMA UpdateStoreHolds ==
  ASSUME RegInv, NEW h \in Writers, UpdateStore(h)
  PROVE  RegInv'
<1>1. /\ nextId' = nextId /\ known' = known /\ rows' = rows /\ pc[h] = "store"
      /\ positions' = [positions EXCEPT ![idOf[h]] = heldOf[h]]
      /\ Moved(h, "update_row", idOf[h], heldOf[h], groupOf[h])
  BY Facts DEF UpdateStore, Goto, locals, Moved, history, TypeInv
<1>2. /\ idOf[h] \in Ids /\ idOf[h] < nextId /\ heldOf[h] \in Position
      /\ heldOf[h].head <= idOf[h] /\ \A g \in Writers : idOf[h] \notin Own(g)
      /\ groupOf[h] \in SUBSET Ids /\ Own(h) = {}
  BY <1>1, Facts DEF HeldInv, HeldBy, Changing, Entered, Own, TypeInv
<1>3. /\ positions' \in [Ids -> Position \cup {Absent}]
      /\ positions'[idOf[h]] = heldOf[h]
      /\ \A x \in Ids \ {idOf[h]} : positions'[x] = positions[x]
  BY <1>1, <1>2, Facts DEF TypeInv
<1>4. /\ Own(h)' = {} /\ Doomed(h)' = {} /\ pc'[h] = "update_row"
      /\ idOf'[h] = idOf[h] /\ heldOf'[h] = heldOf[h]
      /\ \A g \in Writers : g # h => Own(g)' = Own(g)
  BY <1>1, Facts, After DEF Entered
<1>5. Permitted(h)
  BY <1>1, <1>2, <1>3, <1>4 DEF Permitted
<1>6. TypeInv'
  <2>1. /\ rows' \in [Ids -> Position \cup {Absent}] /\ known' \subseteq Ids
        /\ nextId' \in Nat /\ "update_row" \in Labels /\ TypeInv
    BY <1>1, Facts DEF TypeInv, Labels, Changing
  <2>2. QED BY <1>1, <1>2, <1>3, <2>1, TypeAfter
<1>7. HeldBy(h)'
  BY <1>1, <1>2, <1>4 DEF HeldBy, Entered, Changing
<1>8. LowInv'
  BY <1>1, <1>2, <1>3, Facts DEF LowInv
<1>9. Durable'
  BY <1>1, Facts DEF Durable
<1>10. QED BY <1>1, <1>5, <1>6, <1>7, <1>8, <1>9, Preserved

LEMMA UpdateRowHolds ==
  ASSUME RegInv, NEW h \in Writers, UpdateRow(h)
  PROVE  RegInv'
<1> DEFINE row == [emb |-> heldOf[h].emb, terms |-> heldOf[h].terms,
                   head |-> rows[idOf[h]].head]
<1>1. /\ nextId' = nextId /\ known' = known /\ positions' = positions
      /\ pc[h] = "update_row"
      /\ \/ rows[idOf[h]] # Absent /\ rows' = [rows EXCEPT ![idOf[h]] = row]
         \/ rows' = rows
      /\ Moved(h, "idle", 0, Absent, {})
  BY DEF UpdateRow, Answer, Goto, Locals, Moved, history
<1>2. /\ idOf[h] \in Ids /\ idOf[h] < nextId /\ heldOf[h] \in Position
  BY <1>1, Facts DEF HeldInv, HeldBy, Changing
<1>3. rows[idOf[h]] # Absent => /\ row \in Position /\ row # Absent
                                /\ row.head <= idOf[h]
  BY <1>2, Facts, AbsentIsNoPosition DEF TypeInv, LowInv, Position
<1> HIDE DEF row
<1>4. \/ rows' = rows
      \/ /\ rows' \in [Ids -> Position \cup {Absent}] /\ rows'[idOf[h]] # Absent
         /\ rows'[idOf[h]].head <= idOf[h]
         /\ \A x \in Ids \ {idOf[h]} : rows'[x] = rows[x]
  BY <1>1, <1>2, <1>3, Facts DEF TypeInv
<1>5. Own(h)' = {} /\ Doomed(h)' = {} /\ pc'[h] = "idle"
  BY <1>1, Facts, After DEF Entered
<1>6. Permitted(h)
  BY <1>1, <1>4, <1>5 DEF Permitted
<1>7. TypeInv'
  <2>1. /\ positions' \in [Ids -> Position \cup {Absent}] /\ nextId' \in Nat
        /\ rows' \in [Ids -> Position \cup {Absent}] /\ known' \subseteq Ids
        /\ "idle" \in Labels
    BY <1>1, <1>4, Facts DEF TypeInv, Labels
  <2>2. Moved(h, "idle", 0, Absent, {}) /\ TypeInv /\ {} \in SUBSET Ids
    BY <1>1, Facts
  <2>3. QED BY <2>1, <2>2, TypeAfter
<1>8. HeldBy(h)'
  BY <1>5 DEF HeldBy, Entered, Changing
<1>9. LowInv'
  BY <1>1, <1>2, <1>4, Facts DEF LowInv
<1>10. Durable'
  BY <1>1, <1>4, Facts DEF Durable, TypeInv
<1>11. QED BY <1>1, <1>6, <1>7, <1>8, <1>9, <1>10, Preserved

LEMMA DeleteHolds ==
  ASSUME RegInv, "early" \notin Operations, NEW h \in Writers, NEW id \in Ids,
         Delete(h, id)
  PROVE  RegInv'
<1> DEFINE group == GroupOf(id)
<1>1. /\ nextId' = nextId /\ rows' = rows /\ known' = known \ group
      /\ positions[id] # Absent /\ id \in known
      /\ positions' = [m \in Ids |-> IF m \in group THEN Absent ELSE positions[m]]
      /\ Moved(h, "delete_rows", id, Absent, group)
  BY DEF Delete, Accept, Nameable, Present, Goto, Locals, Moved
<1>2. group \in SUBSET Ids /\ \A m \in group : positions[m] # Absent
  BY <1>1 DEF GroupOf, Present
<1>3. ASSUME NEW m \in group, NEW g \in Writers, m \in Own(g) PROVE FALSE
  <2>1. CASE m = id
    BY <1>1, <1>3, <2>1, Facts DEF OwnInv
  <2>2. CASE m # id
    <3>1. positions[m] # Absent /\ positions[m].head = id
      BY <2>2 DEF GroupOf, Present
    <3>2. positions[m].head \notin known
      BY <1>3, <3>1, Facts DEF HeadInv
    <3>3. QED BY <1>1, <3>1, <3>2
  <2>3. QED BY <2>1, <2>2
<1>4. \A m \in group : m < nextId /\ \A g \in Writers : m \notin Own(g)
  BY <1>2, <1>3, Facts DEF LowInv
<1> HIDE DEF group
<1>5. /\ Own(h)' = {} /\ Doomed(h)' = group /\ pc'[h] = "delete_rows"
      /\ \A g \in Writers : g # h => Own(g)' = Own(g)
  BY <1>1, Facts, After DEF Entered
<1>6. \A x \in Ids : positions'[x] = positions[x] \/ (x \in group /\ positions'[x] = Absent)
  BY <1>1
<1>7. Permitted(h)
  BY <1>1, <1>4, <1>5, <1>6 DEF Permitted
<1>8. TypeInv'
  <2>1. /\ positions' \in [Ids -> Position \cup {Absent}] /\ nextId' \in Nat
        /\ rows' \in [Ids -> Position \cup {Absent}] /\ known' \subseteq Ids
        /\ "delete_rows" \in Labels /\ TypeInv
    BY <1>1, Facts DEF TypeInv, Labels
  <2>2. QED BY <1>1, <1>2, <2>1, TypeAfter
<1>9. HeldBy(h)'
  BY <1>5 DEF HeldBy, Entered, Changing
<1>10. LowInv'
  BY <1>1, <1>6, Facts DEF LowInv
<1>11. Durable'
  BY <1>1, Facts DEF Durable
<1>12. QED BY <1>1, <1>7, <1>8, <1>9, <1>10, <1>11, Preserved

LEMMA DeleteRowHolds ==
  ASSUME RegInv, NEW h \in Writers, DeleteRow(h)
  PROVE  RegInv'
<1>1. /\ nextId' = nextId /\ known' = known /\ positions' = positions
      /\ pc[h] = "delete_rows"
  BY DEF DeleteRow, history
<1>2. PICK id \in groupOf[h] :
        \/ /\ RowDeleted(id)
           /\ \/ Moved(h, "idle", 0, Absent, {})
              \/ Moved(h, "delete_rows", idOf[h], Absent, groupOf[h] \ {id})
        \/ /\ rows' = rows
           /\ Moved(h, "idle", 0, Absent, {})
  BY DEF DeleteRow, Answer, Goto, Locals, Moved
<1>3. /\ Doomed(h) = groupOf[h] /\ Own(h) = {} /\ groupOf[h] \in SUBSET Ids
      /\ idOf[h] \in Ids \cup {0}
      /\ \A x \in groupOf[h] : /\ x < nextId /\ x \notin known
                               /\ \A g \in Writers : x \notin Own(g)
  BY <1>1, Facts DEF Doomed, DoomedInv, Own, Entered, TypeInv
<1>4. /\ rows' \in [Ids -> Position \cup {Absent}]
      /\ \A x \in Ids : rows'[x] = rows[x] \/ (x \in groupOf[h] /\ rows'[x] = Absent)
  BY <1>2, <1>3, Facts DEF RowDeleted, TypeInv
<1>5. /\ positions' \in [Ids -> Position \cup {Absent}] /\ nextId' \in Nat
      /\ known' \subseteq Ids /\ TypeInv
  BY <1>1, Facts DEF TypeInv
<1>6. LowInv'
  BY <1>1, <1>4, Facts DEF LowInv
<1>7. Durable'
  BY <1>1, <1>3, <1>4, Facts DEF Durable, TypeInv
<1>8. CASE Moved(h, "idle", 0, Absent, {})
  <2>1. Own(h)' = {} /\ Doomed(h)' = {} /\ pc'[h] = "idle"
    BY <1>8, Facts, After DEF Entered
  <2>2. Permitted(h)
    BY <1>1, <1>3, <1>4, <2>1 DEF Permitted
  <2>3. TypeInv'
    <3>1. "idle" \in Labels /\ {} \in SUBSET Ids
      BY DEF Labels
    <3>2. QED BY <1>4, <1>5, <1>8, <3>1, TypeAfter
  <2>4. HeldBy(h)'
    BY <2>1 DEF HeldBy, Entered, Changing
  <2>5. QED BY <1>6, <1>7, <1>8, <2>2, <2>3, <2>4, Preserved
<1>9. CASE Moved(h, "delete_rows", idOf[h], Absent, groupOf[h] \ {id})
  <2>1. /\ Own(h)' = {} /\ Doomed(h)' = groupOf[h] \ {id} /\ pc'[h] = "delete_rows"
        /\ \A g \in Writers : g # h => Own(g)' = Own(g)
    BY <1>9, Facts, After DEF Entered
  <2>2. Permitted(h)
    BY <1>1, <1>3, <1>4, <2>1 DEF Permitted
  <2>3. TypeInv'
    <3>1. "delete_rows" \in Labels /\ groupOf[h] \ {id} \in SUBSET Ids
      BY <1>3 DEF Labels
    <3>2. QED BY <1>3, <1>4, <1>5, <1>9, <3>1, TypeAfter
  <2>4. HeldBy(h)'
    BY <2>1 DEF HeldBy, Entered, Changing
  <2>5. QED BY <1>6, <1>7, <1>9, <2>2, <2>3, <2>4, Preserved
<1>10. QED BY <1>2, <1>8, <1>9

LEMMA CrashHolds ==
  ASSUME RegInv, Crash
  PROVE  RegInv'
<1>1. /\ positions' = rows /\ rows' = rows /\ known' = Present(rows)
      /\ nextId' \in Nat /\ \A k \in Present(rows) : k < nextId'
      /\ pc' = [h \in Writers |-> "idle"] /\ idOf' = [h \in Writers |-> 0]
      /\ heldOf' = [h \in Writers |-> Absent] /\ groupOf' = [h \in Writers |-> {}]
  BY RegistryBounds DEF Crash
<1>2. TypeInv'
  BY <1>1, Facts DEF TypeInv, Labels, Present
<1>3. LowInv' /\ Durable'
  BY <1>1, Facts DEF LowInv, Durable, Present
<1>4. \A h \in Writers : Own(h)' = {} /\ Doomed(h)' = {} /\ HeldBy(h)'
  BY <1>1 DEF Own, Doomed, HeldBy, Entered, Changing
<1>5. OwnInv' /\ DoomedInv' /\ HeldInv' /\ HeadInv'
  BY <1>4 DEF OwnInv, DoomedInv, HeldInv, HeadInv
<1>6. QED BY <1>2, <1>3, <1>5 DEF RegInv

LEMMA SameHolds ==
  ASSUME RegInv, UNCHANGED <<positions, nextId, rows, pc, locals, known>>
  PROVE  RegInv'
<1>1. \A h \in Writers : Own(h)' = Own(h) /\ Doomed(h)' = Doomed(h)
  BY DEF Own, Doomed, locals
<1>2. \A h \in Writers : HeldBy(h)'
  BY <1>1, Facts DEF HeldInv, HeldBy, locals
<1>3. TypeInv' /\ LowInv' /\ Durable'
  BY Facts DEF TypeInv, LowInv, Durable, locals
<1>4. OwnInv' /\ DoomedInv' /\ HeadInv'
  BY <1>1, Facts DEF OwnInv, DoomedInv, HeadInv
<1>5. QED BY <1>2, <1>3, <1>4 DEF RegInv, HeldInv

LEMMA RegStep ==
  ASSUME RegInv, "early" \notin Operations, [Next]_registryVars
  PROVE  RegInv'
<1>1. CASE Crash
  BY <1>1, CrashHolds
<1>2. CASE ReadVersion
  BY <1>2, SameHolds DEF ReadVersion, history
<1>3. CASE UNCHANGED registryVars
  BY <1>3, SameHolds DEF registryVars, locals
<1>4. ASSUME NEW h \in Writers, Request(h) PROVE RegInv'
  BY <1>4, RegisterOneHolds, KeywordHolds, UpdateReadHolds, RegisterGroupHolds,
     DeleteHolds DEF Request
<1>5. ASSUME NEW h \in Writers, Progress(h) PROVE RegInv'
  BY <1>5, InsertRowHolds, KeywordFailsHolds, AdoptHolds, MemberRowHolds,
     MemberRowFailsHolds, RollbackMemoryHolds, RollbackRowHolds, UpdateStoreHolds,
     UpdateRowHolds, DeleteRowHolds DEF Progress
<1>6. QED BY <1>1, <1>2, <1>3, <1>4, <1>5 DEF Next, RegistryNext

(***************************************************************************)
(* An id a client was given is in the table until its deletion             *)
(* (RegisterWithBudget, RegisterKeywordGroupWithBudget, Delete), over      *)
(* crashes, failing statements and the rollbacks of other requests.        *)
(***************************************************************************)
THEOREM AnsweredStays ==
  ASSUME "early" \notin Operations
  PROVE  Spec => []AnsweredIsDurable
<1>1. RegInv => AnsweredIsDurable
  BY Facts DEF RegInv, Durable, AnsweredIsDurable, Present, TypeInv
<1>2. RegInv /\ [Next]_registryVars => RegInv'
  BY RegStep
<1>3. QED BY <1>1, <1>2, RegInitHolds, PTL DEF Spec

(***************************************************************************)
(* Every step that changes an embedding or the set of ids in memory drops  *)
(* the cached version (EmbeddingsVersion); the second entry of a keyword   *)
(* does not need to, because nobody deletes it before it is answered.      *)
(***************************************************************************)
LEMMA SameFingerprint ==
  ASSUME RegInv, NEW h \in Writers, Adopt(h)
  PROVE  Fingerprint(positions') = Fingerprint(positions)
<1> DEFINE member == [emb |-> heldOf[h].emb, terms |-> heldOf[h].terms, head |-> Head(h)]
<1>1. /\ pc[h] = "adopt" /\ positions' = [positions EXCEPT ![idOf[h]] = member]
  BY DEF Adopt
<1>2. /\ idOf[h] \in Ids /\ heldOf[h] \in Position /\ groupOf[h] # {}
      /\ positions[idOf[h]] = heldOf[h]
  BY <1>1, Facts DEF HeldInv, HeldBy, Entered
<1>3. Head(h) \in Ids
  BY <1>2, Facts, HeadOfGroup DEF TypeInv
<1>4. member \in Position /\ member.emb = heldOf[h].emb
  BY <1>2, <1>3 DEF Position
<1> HIDE DEF member
<1>5. positions'[idOf[h]] = member /\ \A x \in Ids \ {idOf[h]} : positions'[x] = positions[x]
  BY <1>1, <1>2, Facts DEF TypeInv
<1>6. \A x \in Ids : positions'[x] # Absent <=> positions[x] # Absent
  BY <1>2, <1>4, <1>5, AbsentIsNoPosition
<1>7. \A x \in Ids : positions[x] # Absent => positions'[x].emb = positions[x].emb
  BY <1>2, <1>4, <1>5
<1>8. Present(positions') = Present(positions)
  BY <1>6 DEF Present
<1>9. QED BY <1>7, <1>8 DEF Fingerprint, Present

LEMMA VersionStep ==
  ASSUME RegInv, VersionCurrent, [Next]_registryVars
  PROVE  VersionCurrent'
<1>1. CASE version' = NoVersion
  BY <1>1 DEF VersionCurrent, NoVersion
<1>2. CASE version' = version /\ positions' = positions
  BY <1>2 DEF VersionCurrent, Fingerprint, Present, NoVersion
<1>3. CASE ReadVersion
  BY <1>3 DEF ReadVersion, CurrentVersion, VersionCurrent, Fingerprint, Present,
              NoVersion
<1>4. CASE \E h \in Writers : Adopt(h)
  <2>1. version' = version /\ Fingerprint(positions') = Fingerprint(positions)
    BY <1>4, SameFingerprint DEF Adopt
  <2>2. QED BY <2>1 DEF VersionCurrent, NoVersion
<1>5. ASSUME NEW h \in Writers, Request(h)
      PROVE  version' = NoVersion \/ (version' = version /\ positions' = positions)
  BY <1>5 DEF Request, RegisterOne, Keyword, UpdateRead, RegisterGroup, Delete,
              Enter, InvalidateVersion
<1>6. ASSUME NEW h \in Writers, Progress(h), ~Adopt(h)
      PROVE  version' = NoVersion \/ (version' = version /\ positions' = positions)
  BY <1>6 DEF Progress, InsertRow, KeywordFails, MemberRow, MemberRowFails,
              RollbackMemory, RollbackRow, UpdateStore, UpdateRow, DeleteRow,
              InvalidateVersion
<1>7. CASE Crash
  BY <1>1, <1>7 DEF Crash, InvalidateVersion
<1>8. CASE UNCHANGED registryVars
  BY <1>2, <1>8 DEF registryVars
<1>9. QED BY <1>1, <1>2, <1>3, <1>4, <1>5, <1>6, <1>7, <1>8 DEF Next, RegistryNext

(***************************************************************************)
(* The ETag of GET /embeddings, when it is cached, is the hash of the      *)
(* positions in memory ("cached and invalidated whenever positions are     *)
(* mutated").                                                              *)
(***************************************************************************)
THEOREM VersionIsCurrent ==
  ASSUME "early" \notin Operations
  PROVE  Spec => []VersionCurrent
<1>1. RegistryInit => VersionCurrent
  BY DEF RegistryInit, VersionCurrent
<1>2. RegInv /\ VersionCurrent /\ [Next]_registryVars => VersionCurrent'
  BY VersionStep
<1>3. RegInv /\ [Next]_registryVars => RegInv'
  BY RegStep
<1>4. QED BY <1>1, <1>2, <1>3, RegInitHolds, PTL DEF Spec

(***************************************************************************)
(* What may be in memory and not in the table, or the other way round: the *)
(* position a request is to insert, is rolling back, or is to delete.      *)
(***************************************************************************)
Pending(h) == CASE pc[h] \in Entered -> {idOf[h]}
                [] pc[h] = "rollback_row" -> {Head(h)}
                [] pc[h] = "delete_rows" -> groupOf[h]
                [] OTHER -> {}

Tidy(h) ==
  /\ pc[h] \notin Changing
  /\ pc[h] \in Entered => positions[idOf[h]] = heldOf[h]
  /\ pc[h] = "rollback_row" => positions[Head(h)] = Absent
  /\ \A id \in Doomed(h) : positions[id] = Absent /\ rows[id] # Absent

AgreeInv ==
  /\ \A id \in Ids : positions[id] = rows[id] \/ \E h \in Writers : id \in Pending(h)
  /\ \A h \in Writers : Tidy(h)
  /\ \A g, h \in Writers : g # h => Doomed(g) \cap Doomed(h) = {}

LEMMA PendingIsHeld ==
  ASSUME RegInv, NEW h \in Writers
  PROVE  Pending(h) \subseteq Own(h) \cup Doomed(h)
<1>1. CASE pc[h] = "rollback_row"
  <2>1. groupOf[h] # {} /\ Own(h) = groupOf[h]
    BY <1>1, Facts DEF HeldInv, HeldBy, Own, Entered
  <2>2. QED BY <1>1, <2>1, Facts, HeadOfGroup DEF Pending, Entered
<1>2. CASE pc[h] # "rollback_row"
  BY <1>2 DEF Pending, Own, Doomed, Entered
<1>3. QED BY <1>1, <1>2

LEMMA HeadStays ==
  ASSUME NEW h \in Writers, groupOf'[h] = groupOf[h]
  PROVE  Head(h)' = Head(h)
BY DEF Head

(* What is left to show of a step of request h.                             *)
Settles(h) ==
  /\ \A id \in Ids :
       \/ positions'[id] = positions[id] /\ rows'[id] = rows[id]
       \/ /\ id \in Pending(h)' \/ positions'[id] = rows'[id]
          /\ \A g \in Writers : g # h => id \notin Own(g) /\ id \notin Doomed(g)
  /\ \A id \in Pending(h) : id \in Pending(h)' \/ positions'[id] = rows'[id]
  /\ \A g \in Writers : g # h => Doomed(h)' \cap Doomed(g) = {}

LEMMA AgreePreserved ==
  ASSUME RegInv, AgreeInv, NEW h \in Writers, NEW label, NEW id, NEW held, NEW group,
         Moved(h, label, id, held, group), Settles(h), Tidy(h)'
  PROVE  AgreeInv'
<1>1. ASSUME NEW g \in Writers, g # h
      PROVE  /\ pc'[g] = pc[g] /\ idOf'[g] = idOf[g] /\ heldOf'[g] = heldOf[g]
             /\ Doomed(g)' = Doomed(g) /\ Head(g)' = Head(g)
             /\ Pending(g)' = Pending(g)
  <2>1. /\ pc'[g] = pc[g] /\ idOf'[g] = idOf[g] /\ heldOf'[g] = heldOf[g]
        /\ groupOf'[g] = groupOf[g] /\ Doomed(g)' = Doomed(g)
    BY <1>1, Facts, After
  <2>2. Head(g)' = Head(g)
    BY <2>1, HeadStays
  <2>3. QED BY <2>1, <2>2 DEF Pending
<1>2. \A g \in Writers : Own(g) \subseteq Ids /\ Doomed(g) \subseteq Ids
  BY Facts DEF Doomed, TypeInv
<1>3. ASSUME NEW g \in Writers, g # h, NEW x \in Own(g) \cup Doomed(g)
      PROVE  positions'[x] = positions[x] /\ rows'[x] = rows[x]
  BY <1>2, <1>3 DEF Settles
<1>4. ASSUME NEW x \in Ids, positions'[x] # rows'[x]
      PROVE  \E g \in Writers : x \in Pending(g)'
  <2>1. CASE x \in Pending(h)'
    BY <2>1
  <2>2. CASE x \notin Pending(h)'
    <3>1. x \notin Pending(h) /\ positions'[x] = positions[x] /\ rows'[x] = rows[x]
      BY <1>4, <2>2 DEF Settles
    <3>2. PICK g \in Writers : x \in Pending(g)
      BY <1>4, <3>1 DEF AgreeInv
    <3>3. g # h
      BY <3>1, <3>2
    <3>4. QED BY <1>1, <3>2, <3>3
  <2>3. QED BY <2>1, <2>2
<1>5. ASSUME NEW g \in Writers, g # h PROVE Tidy(g)'
  <2>1. Tidy(g)
    BY DEF AgreeInv
  <2>2. \A x \in Pending(g) : positions'[x] = positions[x]
    BY <1>3, <1>5, PendingIsHeld
  <2>3. pc[g] \in Entered => idOf[g] \in Pending(g)
    BY DEF Pending, Entered
  <2>4. pc[g] = "rollback_row" => Head(g) \in Pending(g)
    BY DEF Pending, Entered
  <2>5. QED BY <1>1, <1>3, <1>5, <2>1, <2>2, <2>3, <2>4 DEF Tidy
<1>6. \A g, k \in Writers : g # k => Doomed(g)' \cap Doomed(k)' = {}
  BY <1>1 DEF AgreeInv, Settles
<1>7. QED BY <1>4, <1>5, <1>6 DEF AgreeInv

(* The steps that touch neither memory nor table.                           *)
LEMMA AgreeIdle ==
  ASSUME RegInv, AgreeInv, NEW h \in Writers, NEW label, NEW id, NEW held, NEW group,
         Moved(h, label, id, held, group), Pending(h) = {},
         label \in {"idle", "keyword", "rollback"},
         positions' = positions, rows' = rows
  PROVE  AgreeInv'
<1>1. /\ Doomed(h)' = {} /\ pc'[h] = label
  BY Facts, After
<1>2. Tidy(h)' /\ Settles(h)
  BY <1>1 DEF Tidy, Settles, Entered, Changing
<1>3. QED BY <1>2, AgreePreserved

LEMMA AgreeEnter ==
  ASSUME RegInv, AgreeInv, NEW h \in Writers, NEW pos, NEW label \in Entered, NEW group,
         nextId \in Ids, positions' = [positions EXCEPT ![nextId] = pos], rows' = rows,
         pc[h] \in {"idle", "keyword"}, Moved(h, label, nextId, pos, group)
  PROVE  AgreeInv'
<1>1. /\ pc'[h] = label /\ idOf'[h] = nextId /\ heldOf'[h] = pos /\ Doomed(h)' = {}
  BY Facts, After DEF Entered
<1>2. Pending(h) = {} /\ Pending(h)' = {nextId}
  BY <1>1 DEF Pending, Entered
<1>3. /\ positions'[nextId] = pos
      /\ \A x \in Ids \ {nextId} : positions'[x] = positions[x]
  BY Facts DEF TypeInv
<1>4. \A g \in Writers : nextId \notin Own(g) /\ nextId \notin Doomed(g)
  BY Facts DEF DoomedInv
<1>5. Settles(h)
  BY <1>1, <1>2, <1>3, <1>4 DEF Settles
<1>6. Tidy(h)'
  BY <1>1, <1>3 DEF Tidy, Entered, Changing
<1>7. QED BY <1>5, <1>6, AgreePreserved

LEMMA AgreeInserted ==
  ASSUME RegInv, AgreeInv, NEW h \in Writers, pc[h] \in {"insert", "member_row"},
         RowInserted(h), positions' = positions, NEW label \in {"idle", "keyword"},
         NEW group, Moved(h, label, 0, Absent, group)
  PROVE  AgreeInv'
<1>1. Doomed(h)' = {} /\ pc'[h] = label
  BY Facts, After
<1>2. /\ idOf[h] \in Ids /\ idOf[h] \in Own(h) /\ Pending(h) = {idOf[h]}
  BY Facts DEF HeldInv, HeldBy, Own, Pending, Entered
<1>3. positions[idOf[h]] = heldOf[h]
  BY DEF AgreeInv, Tidy, Entered
<1>4. /\ rows'[idOf[h]] = heldOf[h]
      /\ \A x \in Ids \ {idOf[h]} : rows'[x] = rows[x]
  BY <1>2, Facts DEF RowInserted, TypeInv
<1>5. \A g \in Writers : g # h => idOf[h] \notin Own(g) /\ idOf[h] \notin Doomed(g)
  BY <1>2, Facts DEF OwnInv, DoomedInv
<1>6. Settles(h) /\ Tidy(h)'
  BY <1>1, <1>2, <1>3, <1>4, <1>5 DEF Settles, Tidy, Entered, Changing
<1>7. QED BY <1>6, AgreePreserved

LEMMA AgreeAdopt ==
  ASSUME RegInv, AgreeInv, NEW h \in Writers, Adopt(h)
  PROVE  AgreeInv'
<1> DEFINE member == [emb |-> heldOf[h].emb, terms |-> heldOf[h].terms, head |-> Head(h)]
<1>1. /\ rows' = rows /\ pc[h] = "adopt"
      /\ positions' = [positions EXCEPT ![idOf[h]] = member]
      /\ Moved(h, "member_row", idOf[h], member, groupOf[h])
  BY DEF Adopt, Goto, Locals, Moved
<1> HIDE DEF member
<1>2. /\ idOf[h] \in Ids /\ idOf[h] \in Own(h) /\ Pending(h) = {idOf[h]}
  BY <1>1, Facts DEF HeldInv, HeldBy, Own, Pending, Entered
<1>3. /\ pc'[h] = "member_row" /\ idOf'[h] = idOf[h] /\ heldOf'[h] = member
      /\ Doomed(h)' = {}
  BY <1>1, Facts, After DEF Entered
<1>4. Pending(h)' = {idOf[h]}
  BY <1>3 DEF Pending, Entered
<1>5. /\ positions'[idOf[h]] = member
      /\ \A x \in Ids \ {idOf[h]} : positions'[x] = positions[x]
  BY <1>1, <1>2, Facts DEF TypeInv
<1>6. \A g \in Writers : g # h => idOf[h] \notin Own(g) /\ idOf[h] \notin Doomed(g)
  BY <1>2, Facts DEF OwnInv, DoomedInv
<1>7. Settles(h) /\ Tidy(h)'
  BY <1>1, <1>2, <1>3, <1>4, <1>5, <1>6 DEF Settles, Tidy, Entered, Changing
<1>8. QED BY <1>1, <1>7, AgreePreserved

LEMMA AgreeRollback ==
  ASSUME RegInv, AgreeInv, NEW h \in Writers, RollbackMemory(h)
  PROVE  AgreeInv'
<1>1. rows' = rows /\ pc[h] = "rollback" /\ Pending(h) = {} /\ Own(h) = groupOf[h]
  BY DEF RollbackMemory, Pending, Entered, Own
<1>2. CASE groupOf[h] = {}
  <2>1. positions' = positions /\ Moved(h, "idle", 0, Absent, {})
    BY <1>2 DEF RollbackMemory, Answer, Goto, Locals, Moved
  <2>2. QED BY <1>1, <2>1, AgreeIdle
<1>3. CASE groupOf[h] # {}
  <2>1. /\ positions' = [positions EXCEPT ![Head(h)] = Absent]
        /\ Moved(h, "rollback_row", idOf[h], heldOf[h], groupOf[h])
    BY <1>3, Facts DEF RollbackMemory, Goto, locals, Moved, TypeInv
  <2>2. Head(h) \in Own(h) /\ Head(h) \in Ids
    BY <1>1, <1>3, Facts, HeadOfGroup
  <2>3. pc'[h] = "rollback_row" /\ groupOf'[h] = groupOf[h] /\ Doomed(h)' = {}
    BY <2>1, Facts, After
  <2>4. Head(h)' = Head(h) /\ Pending(h)' = {Head(h)}
    BY <2>3, HeadStays DEF Pending, Entered
  <2>5. /\ positions'[Head(h)] = Absent
        /\ \A x \in Ids \ {Head(h)} : positions'[x] = positions[x]
    BY <2>1, <2>2, Facts DEF TypeInv
  <2>6. \A g \in Writers : g # h => Head(h) \notin Own(g) /\ Head(h) \notin Doomed(g)
    BY <2>2, Facts DEF OwnInv, DoomedInv
  <2>7. Settles(h)
    BY <1>1, <2>3, <2>4, <2>5, <2>6 DEF Settles
  <2>8. Tidy(h)'
    BY <2>3, <2>4, <2>5 DEF Tidy, Entered, Changing
  <2>9. QED BY <2>1, <2>7, <2>8, AgreePreserved
<1>4. QED BY <1>2, <1>3

LEMMA AgreeRollbackRow ==
  ASSUME RegInv, AgreeInv, "persist" \notin Faults, NEW h \in Writers, RollbackRow(h)
  PROVE  AgreeInv'
<1> DEFINE rest == groupOf[h] \ {Head(h)}
<1>1. /\ positions' = positions /\ pc[h] = "rollback_row" /\ RowDeleted(Head(h))
      /\ Moved(h, "rollback", 0, Absent, rest)
  BY DEF RollbackRow, Goto, Locals, Moved
<1>2. /\ groupOf[h] # {} /\ Own(h) = groupOf[h] /\ Pending(h) = {Head(h)}
  BY <1>1, Facts DEF HeldInv, HeldBy, Own, Pending, Entered
<1>3. Head(h) \in Own(h) /\ Head(h) \in Ids
  BY <1>2, Facts, HeadOfGroup
<1>4. pc'[h] = "rollback" /\ Doomed(h)' = {}
  BY <1>1, Facts, After
<1>5. /\ rows'[Head(h)] = Absent /\ positions[Head(h)] = Absent
      /\ \A x \in Ids \ {Head(h)} : rows'[x] = rows[x]
  BY <1>1, <1>3, Facts DEF RowDeleted, TypeInv, AgreeInv, Tidy
<1>6. \A g \in Writers : g # h => Head(h) \notin Own(g) /\ Head(h) \notin Doomed(g)
  BY <1>3, Facts DEF OwnInv, DoomedInv
<1>7. Settles(h) /\ Tidy(h)'
  BY <1>1, <1>2, <1>4, <1>5, <1>6 DEF Settles, Tidy, Entered, Changing
<1>8. QED BY <1>1, <1>7, AgreePreserved

LEMMA AgreeDelete ==
  ASSUME RegInv, AgreeInv, "early" \notin Operations, NEW h \in Writers, NEW id \in Ids,
         Delete(h, id)
  PROVE  AgreeInv'
<1> DEFINE group == GroupOf(id)
<1>1. /\ rows' = rows /\ pc[h] = "idle" /\ id \in known
      /\ positions' = [m \in Ids |-> IF m \in group THEN Absent ELSE positions[m]]
      /\ Moved(h, "delete_rows", id, Absent, group)
  BY DEF Delete, Accept, Nameable, Goto, Locals, Moved
<1>2. group \subseteq Ids
  BY DEF GroupOf, Present
<1>3. ASSUME NEW m \in group
      PROVE  /\ rows[m] # Absent
             /\ \A g \in Writers : m \notin Own(g) /\ m \notin Doomed(g)
  <2>1. CASE m = id
    BY <1>1, <2>1, Facts DEF OwnInv, DoomedInv, Durable
  <2>2. CASE m # id
    <3>1. m \in Ids /\ positions[m] # Absent /\ positions[m].head = id
      BY <2>2 DEF GroupOf, Present
    <3>2. \A g \in Writers : m \notin Own(g)
      BY <1>1, <3>1, Facts DEF HeadInv
    <3>3. ASSUME NEW g \in Writers, m \in Doomed(g) PROVE FALSE
      <4>1. Tidy(g)
        BY DEF AgreeInv
      <4>2. QED BY <3>1, <3>3, <4>1 DEF Tidy
    <3>4. positions[m] = rows[m]
      BY <3>1, <3>2, <3>3, PendingIsHeld DEF AgreeInv
    <3>5. QED BY <3>1, <3>2, <3>3, <3>4
  <2>3. QED BY <2>1, <2>2
<1> HIDE DEF group
<1>4. pc'[h] = "delete_rows" /\ groupOf'[h] = group /\ Doomed(h)' = group
  BY <1>1, Facts, After
<1>5. Pending(h) = {} /\ Pending(h)' = group
  BY <1>1, <1>4 DEF Pending, Entered
<1>6. \A x \in Ids : /\ x \in group => positions'[x] = Absent
                     /\ x \notin group => positions'[x] = positions[x]
  BY <1>1
<1>7. Settles(h)
  BY <1>1, <1>3, <1>4, <1>5, <1>6 DEF Settles
<1>8. Tidy(h)'
  BY <1>1, <1>2, <1>3, <1>4, <1>6 DEF Tidy, Entered, Changing
<1>9. QED BY <1>1, <1>7, <1>8, AgreePreserved

LEMMA AgreeDeleteRow ==
  ASSUME RegInv, AgreeInv, "persist" \notin Faults, NEW h \in Writers, DeleteRow(h)
  PROVE  AgreeInv'
<1>1. positions' = positions /\ pc[h] = "delete_rows"
  BY DEF DeleteRow
<1>2. /\ Doomed(h) = groupOf[h] /\ Pending(h) = groupOf[h] /\ groupOf[h] \subseteq Ids
      /\ \A x \in groupOf[h] : positions[x] = Absent /\ rows[x] # Absent
  BY <1>1, Facts DEF Doomed, Pending, Entered, TypeInv, AgreeInv, Tidy
<1>3. PICK id \in groupOf[h] :
        /\ RowDeleted(id)
        /\ \/ groupOf[h] = {id} /\ Moved(h, "idle", 0, Absent, {})
           \/ Moved(h, "delete_rows", idOf[h], Absent, groupOf[h] \ {id})
  BY <1>2 DEF DeleteRow, Answer, Goto, Locals, Moved
<1>4. rows'[id] = Absent /\ \A x \in Ids \ {id} : rows'[x] = rows[x]
  BY <1>2, <1>3, Facts DEF RowDeleted, TypeInv
<1>5. \A g \in Writers : g # h => id \notin Own(g) /\ id \notin Doomed(g)
  BY <1>2, <1>3, Facts DEF AgreeInv, DoomedInv
<1>6. /\ Doomed(h)' = groupOf[h] \ {id} /\ Pending(h)' = groupOf[h] \ {id}
      /\ pc'[h] \in {"idle", "delete_rows"}
  <2>1. CASE groupOf[h] = {id} /\ Moved(h, "idle", 0, Absent, {})
    <3>1. pc'[h] = "idle" /\ Doomed(h)' = {}
      BY <2>1, Facts, After
    <3>2. QED BY <2>1, <3>1 DEF Pending, Entered
  <2>2. CASE Moved(h, "delete_rows", idOf[h], Absent, groupOf[h] \ {id})
    <3>1. /\ pc'[h] = "delete_rows" /\ Doomed(h)' = groupOf[h] \ {id}
          /\ groupOf'[h] = groupOf[h] \ {id}
      BY <2>2, Facts, After
    <3>2. QED BY <3>1 DEF Pending, Entered
  <2>3. QED BY <1>3, <2>1, <2>2
<1>7. Settles(h)
  <2>1. \A g \in Writers : g # h => Doomed(h)' \cap Doomed(g) = {}
    BY <1>2, <1>6 DEF AgreeInv
  <2>2. QED BY <1>1, <1>2, <1>4, <1>5, <1>6, <2>1 DEF Settles
<1>8. Tidy(h)'
  BY <1>1, <1>2, <1>4, <1>6 DEF Tidy, Entered, Changing
<1>9. QED BY <1>3, <1>7, <1>8, AgreePreserved

LEMMA AgreeSame ==
  ASSUME AgreeInv, UNCHANGED <<positions, rows, pc, locals>>
  PROVE  AgreeInv'
<1>1. \A h \in Writers : Head(h)' = Head(h)
  BY HeadStays DEF locals
<1>2. \A h \in Writers : Pending(h)' = Pending(h) /\ Doomed(h)' = Doomed(h)
  BY <1>1 DEF Pending, Doomed, locals
<1>3. QED BY <1>1, <1>2 DEF AgreeInv, Tidy, locals

LEMMA AgreeStep ==
  ASSUME RegInv, AgreeInv, "early" \notin Operations, "update" \notin Operations,
         "persist" \notin Faults, [Next]_registryVars
  PROVE  AgreeInv'
<1>1. CASE Crash
  <2>1. /\ positions' = rows /\ rows' = rows /\ pc' = [h \in Writers |-> "idle"]
    BY <1>1 DEF Crash
  <2>2. QED BY <2>1 DEF AgreeInv, Tidy, Doomed, Pending, Entered, Changing
<1>2. CASE ReadVersion
  BY <1>2, AgreeSame DEF ReadVersion
<1>3. CASE UNCHANGED registryVars
  BY <1>3, AgreeSame DEF registryVars, locals
<1>4. ASSUME NEW h \in Writers, NEW emb \in Embeddings, NEW terms \in Terms,
             RegisterOne(h, emb, terms) \/ Keyword(h, emb, terms)
      PROVE  AgreeInv'
  <2> DEFINE pos == [emb |-> emb, terms |-> terms, head |-> nextId]
  <2>1. PICK label, group :
          /\ label \in Entered /\ nextId \in Ids
          /\ positions' = [positions EXCEPT ![nextId] = pos]
          /\ rows' = rows /\ pc[h] \in {"idle", "keyword"}
          /\ Moved(h, label, nextId, pos, group)
    <3>1. CASE RegisterOne(h, emb, terms)
      <4>1. /\ nextId \in Ids /\ positions' = [positions EXCEPT ![nextId] = pos]
            /\ rows' = rows /\ pc[h] = "idle" /\ Moved(h, "insert", nextId, pos, {})
        BY <3>1 DEF RegisterOne, Accept, Enter, Goto, Locals, Moved
      <4>2. QED BY <4>1 DEF Entered
    <3>2. CASE Keyword(h, emb, terms)
      <4> DEFINE label == IF groupOf[h] = {} THEN "member_row" ELSE "adopt"
      <4>1. /\ nextId \in Ids /\ positions' = [positions EXCEPT ![nextId] = pos]
            /\ rows' = rows /\ pc[h] = "keyword"
            /\ Moved(h, label, nextId, pos, groupOf[h])
        BY <3>2 DEF Keyword, Enter, Goto, Locals, Moved
      <4>2. label \in Entered
        BY DEF Entered
      <4>3. QED BY <4>1, <4>2
    <3>3. QED BY <1>4, <3>1, <3>2
  <2> HIDE DEF pos
  <2>2. QED BY <2>1, AgreeEnter
<1>5. ASSUME NEW h \in Writers, NEW n, RegisterGroup(h, n) PROVE AgreeInv'
  <2>1. /\ positions' = positions /\ rows' = rows /\ pc[h] = "idle"
        /\ Moved(h, "keyword", 0, Absent, {})
    BY <1>5 DEF RegisterGroup, Accept, Goto, Locals, Moved
  <2>2. Pending(h) = {}
    BY <2>1 DEF Pending, Entered
  <2>3. QED BY <2>1, <2>2, AgreeIdle
<1>6. ASSUME NEW h \in Writers, KeywordFails(h) PROVE AgreeInv'
  <2>1. /\ positions' = positions /\ rows' = rows /\ pc[h] = "keyword"
        /\ Moved(h, "rollback", idOf[h], heldOf[h], groupOf[h])
    BY <1>6, Facts DEF KeywordFails, Goto, locals, Moved, TypeInv
  <2>2. Pending(h) = {}
    BY <2>1 DEF Pending, Entered
  <2>3. QED BY <2>1, <2>2, AgreeIdle
<1>7. ASSUME NEW h \in Writers, InsertRow(h) PROVE AgreeInv'
  <2>1. /\ RowInserted(h) /\ positions' = positions /\ pc[h] = "insert"
        /\ Moved(h, "idle", 0, Absent, {})
    BY <1>7 DEF InsertRow, Answer, Goto, Locals, Moved
  <2>2. QED BY <2>1, AgreeInserted
<1>8. ASSUME NEW h \in Writers, MemberRow(h) PROVE AgreeInv'
  <2>1. /\ RowInserted(h) /\ positions' = positions /\ pc[h] = "member_row"
        /\ \/ Moved(h, "keyword", 0, Absent, groupOf[h] \cup {idOf[h]})
           \/ Moved(h, "idle", 0, Absent, {})
    BY <1>8 DEF MemberRow, Answer, Goto, Locals, Moved
  <2>2. QED BY <2>1, AgreeInserted
<1>9. ASSUME NEW h \in Writers, Progress(h) PROVE AgreeInv'
  <2>1. ~MemberRowFails(h)
    BY DEF MemberRowFails
  <2>2. ~UpdateStore(h) /\ ~UpdateRow(h)
    BY DEF UpdateStore, UpdateRow, AgreeInv, Tidy, Changing
  <2>3. QED BY <1>6, <1>7, <1>8, <1>9, <2>1, <2>2, AgreeAdopt, AgreeRollback,
              AgreeRollbackRow, AgreeDeleteRow DEF Progress
<1>10. ASSUME NEW h \in Writers, Request(h) PROVE AgreeInv'
  BY <1>4, <1>5, <1>10, AgreeDelete DEF Request, UpdateRead
<1>11. QED BY <1>1, <1>2, <1>3, <1>9, <1>10 DEF Next, RegistryNext

(***************************************************************************)
(* When no request is under way, the positions in memory are the rows of   *)
(* the table (RegisterWithBudget, Delete and the rollback of a group write *)
(* the two one after the other), so that a restart changes no auction; over *)
(* crashes, if no statement fails and no position is updated.              *)
(***************************************************************************)
THEOREM MemoryIsTheTable ==
  ASSUME "early" \notin Operations, "update" \notin Operations, "persist" \notin Faults
  PROVE  Spec => []MemoryMatchesTable
<1>1. RegistryInit => AgreeInv
  BY DEF RegistryInit, AgreeInv, Tidy, Doomed, Pending, Entered, Changing
<1>2. ASSUME RegInv, AgreeInv, Quiescent PROVE positions = rows
  <2>1. ASSUME NEW h \in Writers PROVE Pending(h) = {}
    <3>1. pc[h] = "idle"
      BY <1>2 DEF Quiescent
    <3>2. QED BY <3>1 DEF Pending, Entered
  <2>2. \A id \in Ids : positions[id] = rows[id]
    BY <1>2, <2>1 DEF AgreeInv
  <2>3. QED BY <1>2, <2>2, Facts DEF TypeInv
<1>3. RegInv /\ AgreeInv => MemoryMatchesTable
  BY <1>2 DEF MemoryMatchesTable
<1>4. RegInv /\ [Next]_registryVars => RegInv'
  BY RegStep
<1>5. RegInv /\ AgreeInv /\ [Next]_registryVars => AgreeInv'
  BY AgreeStep
<1>6. QED BY <1>1, <1>3, <1>4, <1>5, RegInitHolds, PTL DEF Spec

(***************************************************************************)
(* A group that failed: its ids have left memory, and the table but for    *)
(* the one whose row is about to be deleted.                               *)
(***************************************************************************)
Clear(h) ==
  /\ \A id \in Own(h) \cap failed : pc[h] = "rollback_row" /\ id = Head(h)
  /\ pc[h] \in Changing => idOf[h] \notin failed

FailedInv ==
  /\ failed \subseteq Ids
  /\ \A id \in failed :
       /\ id < nextId /\ id \notin known /\ positions[id] = Absent
       /\ \/ rows[id] = Absent
          \/ \E h \in Writers : pc[h] = "rollback_row" /\ id = Head(h)
  /\ \A h \in Writers : Clear(h)

LEMMA FailedPreserved ==
  ASSUME RegInv, FailedInv, NEW h \in Writers, NEW label, NEW id, NEW held, NEW group,
         Moved(h, label, id, held, group),
         failed' \subseteq Ids, failed' \subseteq failed \cup Own(h),
         \A x \in failed' :
           /\ x < nextId' /\ x \notin known' /\ positions'[x] = Absent
           /\ \/ rows'[x] = Absent
              \/ pc'[h] = "rollback_row" /\ x = Head(h)'
              \/ /\ x \in failed /\ rows'[x] = rows[x]
                 /\ ~(pc[h] = "rollback_row" /\ x = Head(h)),
         Clear(h)'
  PROVE  FailedInv'
<1>1. ASSUME NEW g \in Writers, g # h
      PROVE  /\ pc'[g] = pc[g] /\ idOf'[g] = idOf[g] /\ Own(g)' = Own(g)
             /\ Head(g)' = Head(g)
  <2>1. /\ pc'[g] = pc[g] /\ idOf'[g] = idOf[g] /\ Own(g)' = Own(g)
        /\ groupOf'[g] = groupOf[g]
    BY <1>1, Facts, After
  <2>2. QED BY <2>1, HeadStays
<1>2. ASSUME NEW g \in Writers, g # h PROVE Clear(g)'
  <2>1. Own(g) \cap Own(h) = {} /\ Clear(g)
    BY <1>2, Facts DEF OwnInv, FailedInv
  <2>2. pc[g] \in Changing => idOf[g] \notin Own(h)
    BY Facts DEF HeldInv, HeldBy
  <2>3. QED BY <1>1, <1>2, <2>1, <2>2 DEF Clear
<1>3. ASSUME NEW x \in failed', rows'[x] # Absent
      PROVE  \E g \in Writers : pc'[g] = "rollback_row" /\ x = Head(g)'
  <2>1. CASE pc'[h] = "rollback_row" /\ x = Head(h)'
    BY <2>1
  <2>2. CASE /\ x \in failed /\ rows'[x] = rows[x]
             /\ ~(pc[h] = "rollback_row" /\ x = Head(h))
    <3>1. PICK g \in Writers : pc[g] = "rollback_row" /\ x = Head(g)
      BY <1>3, <2>2 DEF FailedInv
    <3>2. g # h
      BY <2>2, <3>1
    <3>3. QED BY <1>1, <3>1, <3>2
  <2>3. QED BY <1>3, <2>1, <2>2
<1>4. QED BY <1>2, <1>3 DEF FailedInv

(* The steps that are no part of a rollback.                                *)
LEMMA FailedElsewhere ==
  ASSUME RegInv, FailedInv, NEW h \in Writers, NEW label, NEW id, NEW held, NEW group,
         Moved(h, label, id, held, group), pc[h] # "rollback_row",
         failed' = failed, known' \subseteq known \cup Own(h),
         nextId' \in {nextId, nextId + 1}, Own(h)' \subseteq Own(h) \cup {nextId},
         \A x \in failed : positions'[x] = Absent /\ rows'[x] \in {rows[x], Absent},
         label \in Changing => id \notin failed
  PROVE  FailedInv'
<1>1. pc'[h] = label /\ idOf'[h] = id
  BY Facts, After
<1>2. Own(h) \cap failed = {}
  BY DEF FailedInv, Clear
<1>3. \A x \in failed : x < nextId /\ x \in Ids /\ x \notin known /\ x \notin Own(h)
  BY <1>2 DEF FailedInv
<1>4. \A x \in failed : x < nextId' /\ x # nextId
  BY <1>3, Facts
<1>5. Clear(h)'
  BY <1>1, <1>2, <1>4 DEF Clear
<1>6. failed' \subseteq Ids
  BY DEF FailedInv
<1>7. QED BY <1>3, <1>4, <1>5, <1>6, FailedPreserved

LEMMA FailedEnter ==
  ASSUME RegInv, FailedInv, NEW h \in Writers, NEW pos, NEW label \in Entered, NEW group,
         positions' = [positions EXCEPT ![nextId] = pos], rows' = rows,
         nextId' = nextId + 1, pc[h] \in {"idle", "keyword"}, known' = known,
         failed' = failed, group \subseteq Own(h), Moved(h, label, nextId, pos, group)
  PROVE  FailedInv'
<1>1. Own(h)' = group \cup {nextId}
  <2>1. pc'[h] = label /\ idOf'[h] = nextId /\ groupOf'[h] = group
    BY Facts, After
  <2>2. QED BY <2>1 DEF Own, Entered
<1>2. \A x \in failed : x \in Ids /\ x # nextId /\ positions[x] = Absent
  BY Facts DEF FailedInv
<1>3. \A x \in failed : positions'[x] = Absent
  BY <1>2, Facts DEF TypeInv
<1>4. label \notin Changing
  BY DEF Changing, Entered
<1>5. QED BY <1>1, <1>3, <1>4, FailedElsewhere

LEMMA FailedInserted ==
  ASSUME RegInv, FailedInv, NEW h \in Writers, pc[h] \in {"insert", "member_row"},
         RowInserted(h), positions' = positions, nextId' = nextId,
         failed' = failed, known' \subseteq known \cup Own(h),
         \/ Moved(h, "idle", 0, Absent, {})
         \/ Moved(h, "keyword", 0, Absent, groupOf[h] \cup {idOf[h]})
  PROVE  FailedInv'
<1>1. /\ idOf[h] \in Own(h) /\ idOf[h] \in Ids /\ Own(h) = groupOf[h] \cup {idOf[h]}
  BY Facts DEF Own, Entered, HeldInv, HeldBy
<1>2. Own(h)' \subseteq Own(h)
  <2>1. CASE Moved(h, "idle", 0, Absent, {})
    <3>1. Own(h)' = {}
      BY <2>1, Facts, After DEF Entered
    <3>2. QED BY <3>1
  <2>2. CASE Moved(h, "keyword", 0, Absent, groupOf[h] \cup {idOf[h]})
    BY <1>1, <2>2, Facts, After DEF Entered
  <2>3. QED BY <2>1, <2>2
<1>3. \A x \in Ids \ {idOf[h]} : rows'[x] = rows[x]
  BY <1>1, Facts DEF RowInserted, TypeInv
<1>4. \A x \in failed : x \in Ids /\ x # idOf[h] /\ positions[x] = Absent
  BY <1>1 DEF FailedInv, Clear
<1>5. PICK label, group : Moved(h, label, 0, Absent, group) /\ label \notin Changing
  BY DEF Changing
<1>6. QED BY <1>2, <1>3, <1>4, <1>5, Facts, FailedElsewhere

LEMMA FailedRollback ==
  ASSUME RegInv, FailedInv, NEW h \in Writers, RollbackMemory(h)
  PROVE  FailedInv'
<1>1. /\ rows' = rows /\ nextId' = nextId /\ known' = known /\ pc[h] = "rollback"
      /\ Own(h) = groupOf[h]
  BY DEF RollbackMemory, Own, Entered
<1>2. CASE groupOf[h] = {}
  <2>1. /\ positions' = positions /\ failed' = failed /\ Moved(h, "idle", 0, Absent, {})
    BY <1>2 DEF RollbackMemory, Answer, Goto, Locals, Moved
  <2>2. Own(h)' = {}
    BY <2>1, Facts, After DEF Entered
  <2>3. \A x \in failed : positions'[x] = Absent /\ rows'[x] = rows[x]
    BY <1>1, <2>1 DEF FailedInv
  <2>4. QED BY <1>1, <2>1, <2>2, <2>3, FailedElsewhere DEF Changing
<1>3. CASE groupOf[h] # {}
  <2>1. /\ positions' = [positions EXCEPT ![Head(h)] = Absent]
        /\ failed' = failed \cup {Head(h)}
        /\ Moved(h, "rollback_row", idOf[h], heldOf[h], groupOf[h])
    BY <1>3, Facts DEF RollbackMemory, Goto, locals, Moved, TypeInv
  <2>2. Head(h) \in Own(h) /\ Head(h) \in Ids
    BY <1>1, <1>3, Facts, HeadOfGroup
  <2>3. pc'[h] = "rollback_row" /\ groupOf'[h] = groupOf[h] /\ Own(h)' = Own(h)
    BY <1>1, <2>1, Facts, After DEF Entered
  <2>4. Head(h)' = Head(h)
    BY <2>3, HeadStays
  <2>5. \A x \in failed' : positions'[x] = Absent
    BY <2>1, <2>2, Facts DEF TypeInv, FailedInv
  <2>6. \A x \in failed' : x < nextId /\ x \notin known
    BY <2>1, <2>2, Facts DEF FailedInv, OwnInv
  <2>7. Own(h) \cap failed = {}
    BY <1>1 DEF FailedInv, Clear
  <2>8. Clear(h)'
    BY <2>1, <2>3, <2>4, <2>7 DEF Clear, Changing
  <2>9. failed' \subseteq Ids /\ failed' \subseteq failed \cup Own(h)
    BY <2>1, <2>2 DEF FailedInv
  <2>10. \A x \in failed' : x \in failed \/ x = Head(h)'
    BY <2>1, <2>4
  <2>11. QED BY <1>1, <2>1, <2>3, <2>5, <2>6, <2>8, <2>9, <2>10, FailedPreserved
<1>4. QED BY <1>2, <1>3

LEMMA FailedRollbackRow ==
  ASSUME RegInv, FailedInv, "persist" \notin Faults, NEW h \in Writers, RollbackRow(h)
  PROVE  FailedInv'
<1> DEFINE rest == groupOf[h] \ {Head(h)}
<1>1. /\ positions' = positions /\ pc[h] = "rollback_row" /\ RowDeleted(Head(h))
      /\ nextId' = nextId /\ known' = known /\ failed' = failed
      /\ Moved(h, "rollback", 0, Absent, rest)
  BY DEF RollbackRow, Goto, Locals, Moved, history
<1>2. groupOf[h] # {} /\ Own(h) = groupOf[h]
  BY <1>1, Facts DEF HeldInv, HeldBy, Own, Entered
<1>3. Head(h) \in Ids
  BY <1>2, Facts, HeadOfGroup
<1>4. rows'[Head(h)] = Absent /\ \A x \in Ids \ {Head(h)} : rows'[x] = rows[x]
  BY <1>1, <1>3, Facts DEF RowDeleted, TypeInv
<1>5. pc'[h] = "rollback" /\ Own(h)' = rest
  BY <1>1, Facts, After DEF Entered
<1>6. rest \cap failed = {}
  BY <1>2 DEF FailedInv, Clear
<1>7. Clear(h)'
  BY <1>1, <1>5, <1>6 DEF Clear, Changing
<1>8. QED BY <1>1, <1>4, <1>7, FailedPreserved DEF FailedInv

LEMMA FailedRest ==
  ASSUME RegInv, FailedInv, "early" \notin Operations, "persist" \notin Faults,
         NEW h \in Writers, NEW id, NEW emb, NEW terms,
         \/ UpdateRead(h, id, emb, terms) \/ UpdateStore(h) \/ UpdateRow(h)
         \/ Delete(h, id) \/ DeleteRow(h)
  PROVE  FailedInv'
<1>1. /\ nextId' = nextId /\ failed' = failed /\ known' \subseteq known
      /\ pc[h] \in {"idle", "store", "update_row", "delete_rows"}
  BY DEF UpdateRead, UpdateStore, UpdateRow, Delete, DeleteRow, Accept, history
<1>2. PICK label, i, held, group :
        /\ Moved(h, label, i, held, group)
        /\ label \in {"store", "update_row", "idle", "delete_rows"}
        /\ label \in Changing => (i = id /\ id \in known) \/ (i = idOf[h] /\ pc[h] \in Changing)
  <2>1. CASE UpdateRead(h, id, emb, terms)
    <3> DEFINE new == [emb |-> emb, terms |-> terms, head |-> positions[id].head]
    <3>1. Moved(h, "store", id, new, {}) /\ id \in known
      BY <2>1 DEF UpdateRead, Nameable, Goto, Locals, Moved
    <3> HIDE DEF new
    <3>2. QED BY <3>1
  <2>2. CASE UpdateStore(h)
    <3>1. /\ Moved(h, "update_row", idOf[h], heldOf[h], groupOf[h]) /\ pc[h] \in Changing
      BY <2>2, Facts DEF UpdateStore, Goto, locals, Moved, TypeInv, Changing
    <3>2. QED BY <3>1
  <2>3. CASE UpdateRow(h)
    <3>1. Moved(h, "idle", 0, Absent, {}) /\ "idle" \notin Changing
      BY <2>3 DEF UpdateRow, Answer, Goto, Locals, Moved, Changing
    <3>2. QED BY <3>1
  <2>4. CASE Delete(h, id)
    <3>1. Moved(h, "delete_rows", id, Absent, GroupOf(id)) /\ "delete_rows" \notin Changing
      BY <2>4 DEF Delete, Goto, Locals, Moved, Changing
    <3>2. QED BY <3>1
  <2>5. CASE DeleteRow(h)
    <3>1. \/ Moved(h, "idle", 0, Absent, {})
          \/ \E y \in groupOf[h] : Moved(h, "delete_rows", idOf[h], Absent, groupOf[h] \ {y})
      BY <2>5 DEF DeleteRow, Answer, Goto, Locals, Moved
    <3>2. "idle" \notin Changing /\ "delete_rows" \notin Changing
      BY DEF Changing
    <3>3. QED BY <3>1, <3>2
  <2>6. QED BY <2>1, <2>2, <2>3, <2>4, <2>5
<1>3. Own(h)' = {}
  BY <1>2, Facts, After DEF Entered
<1>4. label \in Changing => i \notin failed
  BY <1>2 DEF FailedInv, Clear
<1>5. ASSUME NEW x \in failed PROVE positions'[x] = Absent
  <2>1. positions[x] = Absent /\ x \in Ids
    BY <1>5 DEF FailedInv
  <2>2. CASE UpdateStore(h)
    <3>1. pc[h] \in Changing /\ positions' = [positions EXCEPT ![idOf[h]] = heldOf[h]]
      BY <2>2 DEF UpdateStore, Changing
    <3>2. x # idOf[h]
      BY <1>5, <3>1 DEF FailedInv, Clear
    <3>3. QED BY <2>1, <3>1, <3>2, Facts DEF TypeInv
  <2>3. CASE Delete(h, id)
    BY <2>1, <2>3 DEF Delete
  <2>4. CASE UpdateRead(h, id, emb, terms) \/ UpdateRow(h) \/ DeleteRow(h)
    BY <2>1, <2>4 DEF UpdateRead, UpdateRow, DeleteRow
  <2>5. QED BY <2>2, <2>3, <2>4
<1>6. ASSUME NEW x \in failed PROVE rows'[x] \in {rows[x], Absent}
  <2>1. x \in Ids
    BY <1>6 DEF FailedInv
  <2>2. CASE UpdateRow(h)
    <3>1. pc[h] \in Changing
      BY <2>2 DEF UpdateRow, Changing
    <3>2. x # idOf[h]
      BY <1>6, <3>1 DEF FailedInv, Clear
    <3>3. QED BY <2>1, <2>2, <3>2, Facts DEF UpdateRow, TypeInv
  <2>3. CASE DeleteRow(h)
    <3>1. rows' = rows \/ \E y \in groupOf[h] : rows' = [rows EXCEPT ![y] = Absent]
      BY <2>3 DEF DeleteRow, RowDeleted
    <3>2. QED BY <2>1, <3>1, Facts DEF TypeInv
  <2>4. CASE UpdateRead(h, id, emb, terms) \/ UpdateStore(h) \/ Delete(h, id)
    BY <2>4 DEF UpdateRead, UpdateStore, Delete
  <2>5. QED BY <2>2, <2>3, <2>4
<1>7. QED BY <1>1, <1>2, <1>3, <1>4, <1>5, <1>6, FailedElsewhere

LEMMA FailedRegisters ==
  ASSUME RegInv, FailedInv, NEW h \in Writers, NEW emb \in Embeddings,
         NEW terms \in Terms, RegisterOne(h, emb, terms) \/ Keyword(h, emb, terms)
  PROVE  FailedInv'
<1> DEFINE pos == [emb |-> emb, terms |-> terms, head |-> nextId]
           label == IF groupOf[h] = {} THEN "member_row" ELSE "adopt"
<1>1. CASE RegisterOne(h, emb, terms)
  <2>1. /\ positions' = [positions EXCEPT ![nextId] = pos] /\ rows' = rows
        /\ nextId' = nextId + 1 /\ pc[h] = "idle" /\ known' = known /\ failed' = failed
        /\ Moved(h, "insert", nextId, pos, {})
    BY <1>1 DEF RegisterOne, Accept, Enter, Goto, Locals, Moved, history
  <2>2. "insert" \in Entered /\ {} \subseteq Own(h) /\ pc[h] \in {"idle", "keyword"}
    BY <2>1 DEF Entered
  <2> DEFINE first == "insert" none == {}
  <2>3. /\ first \in Entered /\ none \subseteq Own(h)
        /\ Moved(h, first, nextId, pos, none)
    BY <2>1, <2>2
  <2> HIDE DEF pos, first, none
  <2>4. QED BY <2>1, <2>2, <2>3, FailedEnter
<1>2. CASE Keyword(h, emb, terms)
  <2>1. /\ positions' = [positions EXCEPT ![nextId] = pos] /\ rows' = rows
        /\ nextId' = nextId + 1 /\ pc[h] = "keyword" /\ known' = known
        /\ failed' = failed /\ Moved(h, label, nextId, pos, groupOf[h])
    BY <1>2 DEF Keyword, Enter, Goto, Locals, Moved, history
  <2>2. label \in Entered /\ groupOf[h] \subseteq Own(h)
    BY <2>1 DEF Entered, Own
  <2> HIDE DEF pos, label
  <2>3. QED BY <2>1, <2>2, FailedEnter
<1>3. QED BY <1>1, <1>2

LEMMA FailedSame ==
  ASSUME FailedInv, UNCHANGED <<positions, nextId, rows, pc, locals, known, failed>>
  PROVE  FailedInv'
<1>1. \A h \in Writers : Head(h)' = Head(h) /\ Own(h)' = Own(h)
  BY HeadStays DEF Own, locals
<1>2. QED BY <1>1 DEF FailedInv, Clear, locals

LEMMA FailedStep ==
  ASSUME RegInv, FailedInv, "early" \notin Operations, "crash" \notin Operations,
         "persist" \notin Faults, [Next]_registryVars
  PROVE  FailedInv'
<1>1. ~Crash
  BY DEF Crash
<1>2. CASE ReadVersion
  BY <1>2, FailedSame DEF ReadVersion, history
<1>3. CASE UNCHANGED registryVars
  BY <1>3, FailedSame DEF registryVars, locals
<1>4. ASSUME NEW h \in Writers, NEW n, RegisterGroup(h, n) PROVE FailedInv'
  <2>1. /\ positions' = positions /\ rows' = rows /\ pc[h] = "idle" /\ nextId' = nextId
        /\ known' = known /\ failed' = failed /\ Moved(h, "keyword", 0, Absent, {})
    BY <1>4 DEF RegisterGroup, Accept, Goto, Locals, Moved, history
  <2>2. Own(h)' = {} /\ \A x \in failed : positions[x] = Absent
    BY <2>1, Facts, After DEF Entered, FailedInv
  <2>3. QED BY <2>1, <2>2, FailedElsewhere DEF Changing
<1>5. ASSUME NEW h \in Writers, KeywordFails(h) PROVE FailedInv'
  <2>1. /\ positions' = positions /\ rows' = rows /\ pc[h] = "keyword"
        /\ nextId' = nextId /\ known' = known /\ failed' = failed
        /\ Moved(h, "rollback", idOf[h], heldOf[h], groupOf[h])
    BY <1>5, Facts DEF KeywordFails, Goto, locals, Moved, history, TypeInv
  <2>2. Own(h)' = groupOf[h]
    BY <2>1, Facts, After DEF Entered
  <2>5. Own(h) = groupOf[h]
    BY <2>1 DEF Entered, Own
  <2>3. \A x \in failed : positions'[x] = Absent /\ rows'[x] = rows[x]
    BY <2>1 DEF FailedInv
  <2>4. QED BY <2>1, <2>2, <2>3, <2>5, FailedElsewhere DEF Changing
<1>6. ASSUME NEW h \in Writers, Adopt(h) PROVE FailedInv'
  <2> DEFINE member == [emb |-> heldOf[h].emb, terms |-> heldOf[h].terms, head |-> Head(h)]
  <2>1. /\ positions' = [positions EXCEPT ![idOf[h]] = member] /\ rows' = rows
        /\ pc[h] = "adopt" /\ nextId' = nextId /\ known' = known /\ failed' = failed
        /\ Moved(h, "member_row", idOf[h], member, groupOf[h])
    BY <1>6 DEF Adopt, Goto, Locals, Moved, history
  <2> HIDE DEF member
  <2>2. idOf[h] \in Own(h) /\ Own(h) = groupOf[h] \cup {idOf[h]}
    BY <2>1 DEF Entered, Own
  <2>6. Own(h)' = groupOf[h] \cup {idOf[h]}
    BY <2>1, Facts, After DEF Entered
  <2>3. \A x \in failed : x \in Ids /\ x # idOf[h] /\ positions[x] = Absent
    BY <2>1, <2>2 DEF FailedInv, Clear
  <2>4. \A x \in failed : positions'[x] = Absent
    BY <2>1, <2>3, Facts DEF TypeInv
  <2>5. QED BY <2>1, <2>2, <2>6, <2>4, FailedElsewhere DEF Changing
<1>7. ASSUME NEW h \in Writers, InsertRow(h) PROVE FailedInv'
  <2>1. /\ RowInserted(h) /\ positions' = positions /\ pc[h] = "insert"
        /\ nextId' = nextId /\ known' = known \cup {idOf[h]} /\ failed' = failed
        /\ Moved(h, "idle", 0, Absent, {})
    BY <1>7 DEF InsertRow, Answer, Goto, Locals, Moved
  <2>2. idOf[h] \in Own(h)
    BY <2>1 DEF Own, Entered
  <2>3. QED BY <2>1, <2>2, FailedInserted
<1>8. ASSUME NEW h \in Writers, MemberRow(h) PROVE FailedInv'
  <2> DEFINE group == groupOf[h] \cup {idOf[h]}
  <2>1. /\ RowInserted(h) /\ positions' = positions /\ pc[h] = "member_row"
        /\ nextId' = nextId /\ known' \subseteq known \cup group /\ failed' = failed
        /\ Moved(h, "keyword", 0, Absent, group) \/ Moved(h, "idle", 0, Absent, {})
    BY <1>8 DEF MemberRow, Answer, Goto, Locals, Moved
  <2>2. Own(h) = group
    BY <2>1 DEF Own, Entered
  <2>3. QED BY <2>1, <2>2, FailedInserted
<1>9. ASSUME NEW h \in Writers, Progress(h) PROVE FailedInv'
  <2>1. ~MemberRowFails(h)
    BY DEF MemberRowFails
  <2>2. ASSUME UpdateStore(h) \/ UpdateRow(h) \/ DeleteRow(h) PROVE FailedInv'
    BY <2>2, FailedRest
  <2>3. QED BY <1>5, <1>6, <1>7, <1>8, <1>9, <2>1, <2>2, FailedRollback,
              FailedRollbackRow DEF Progress
<1>10. ASSUME NEW h \in Writers, Request(h) PROVE FailedInv'
  BY <1>4, <1>10, FailedRegisters, FailedRest DEF Request
<1>11. QED BY <1>1, <1>2, <1>3, <1>9, <1>10 DEF Next, RegistryNext

(***************************************************************************)
(* A group whose registration failed leaves nothing behind, in memory or   *)
(* in the table (the rollback of RegisterKeywordGroupWithBudget), whatever *)
(* is registered, updated or deleted meanwhile, if no statement fails.     *)
(***************************************************************************)
THEOREM NothingIsLeft ==
  ASSUME "early" \notin Operations, "crash" \notin Operations, "persist" \notin Faults
  PROVE  Spec => []AllOrNothing
<1>1. RegistryInit => FailedInv
  BY DEF RegistryInit, FailedInv, Clear, Own, Entered, Changing
<1>2. FailedInv => AllOrNothing
  BY DEF FailedInv, AllOrNothing, Quiescent, Present
<1>3. RegInv /\ [Next]_registryVars => RegInv'
  BY RegStep
<1>4. RegInv /\ FailedInv /\ [Next]_registryVars => FailedInv'
  BY FailedStep
<1>5. QED BY <1>1, <1>2, <1>3, <1>4, RegInitHolds, PTL DEF Spec

(***************************************************************************)
(* Every position is a head, or one whose head is in memory, or belongs to *)
(* a group that is being rolled back.                                      *)
(***************************************************************************)
Headed(id) == LET head == positions[id].head IN
              positions[head] # Absent /\ positions[head].head = head
Leaving(h) == IF pc[h] \in {"rollback", "rollback_row"} THEN groupOf[h] ELSE {}

Led(h) ==
  /\ pc[h] \notin Changing
  /\ pc[h] \in Entered => positions[idOf[h]] = heldOf[h]
  /\ pc[h] = "rollback_row" => positions[Head(h)] = Absent
  /\ pc[h] = "member_row" => \/ groupOf[h] = {} /\ heldOf[h].head = idOf[h]
                             \/ /\ groupOf[h] # {}
                                /\ \A id \in groupOf[h] : id < idOf[h]
  /\ pc[h] \in {"keyword", "adopt", "member_row"} /\ groupOf[h] # {} =>
       /\ positions[Head(h)] # Absent
       /\ positions[Head(h)].head = Head(h)

HeadedInv ==
  /\ \A id \in Ids : positions[id] # Absent =>
       Headed(id) \/ \E h \in Writers : id \in Leaving(h)
  /\ \A h \in Writers : \A id \in Ids :
       positions[id] # Absent /\ positions[id].head \in Own(h) => id \in Own(h)
  /\ \A h \in Writers : Led(h)

LEMMA HeadedPreserved ==
  ASSUME RegInv, RegInv', HeadedInv, NEW h \in Writers, NEW label, NEW id, NEW held,
         NEW group, Moved(h, label, id, held, group),
         \A x \in Ids : \/ positions'[x] = positions[x]
                        \/ \A g \in Writers : g # h => x \notin Own(g),
         \A x \in Ids : positions'[x] # Absent =>
           \/ positions'[x] = positions[x]
           \/ positions'[x].head \in Own(h)',
         \A x \in Ids : positions'[x] # Absent =>
           \/ Headed(x)' \/ x \in Leaving(h)'
           \/ ~Headed(x) /\ positions'[x] = positions[x] /\ x \notin Leaving(h),
         \A x \in Ids : positions'[x] # Absent /\ positions'[x].head \in Own(h)'
                          => x \in Own(h)',
         Led(h)'
  PROVE  HeadedInv'
<1>1. ASSUME NEW g \in Writers, g # h
      PROVE  /\ pc'[g] = pc[g] /\ idOf'[g] = idOf[g] /\ heldOf'[g] = heldOf[g]
             /\ groupOf'[g] = groupOf[g] /\ Own(g)' = Own(g) /\ Head(g)' = Head(g)
             /\ Leaving(g)' = Leaving(g)
  <2>1. /\ pc'[g] = pc[g] /\ idOf'[g] = idOf[g] /\ heldOf'[g] = heldOf[g]
        /\ groupOf'[g] = groupOf[g] /\ Own(g)' = Own(g)
    BY <1>1, Facts, After
  <2>2. QED BY <2>1, HeadStays DEF Leaving
<1>2. ASSUME NEW g \in Writers, g # h, NEW x \in Own(g)
      PROVE  positions'[x] = positions[x]
  BY <1>2, Facts
<1>3. ASSUME NEW g \in Writers, g # h PROVE Led(g)'
  <2>1. Led(g)
    BY DEF HeadedInv
  <2>2. pc[g] \in Entered => idOf[g] \in Own(g)
    BY DEF Own, Entered
  <2>3. /\ pc[g] \in {"keyword", "adopt", "member_row"} /\ groupOf[g] # {} =>
             Head(g) \in Own(g)
        /\ pc[g] = "rollback_row" => Head(g) \in Own(g)
    BY Facts, HeadOfGroup DEF Own, Entered, HeldInv, HeldBy
  <2>4. QED BY <1>1, <1>2, <1>3, <2>1, <2>2, <2>3 DEF Led
<1>4. ASSUME NEW g \in Writers, g # h, NEW x \in Ids, positions'[x] # Absent,
             positions'[x].head \in Own(g)
      PROVE  x \in Own(g)
  <2>1. Own(h)' \cap Own(g) = {}
    <3>1. OwnInv' /\ Own(g)' = Own(g)
      BY <1>1, <1>4 DEF RegInv
    <3>2. QED BY <1>4, <3>1 DEF OwnInv
  <2>2. positions'[x] = positions[x]
    BY <1>4, <2>1
  <2>3. QED BY <1>4, <2>2 DEF HeadedInv
<1>5. ASSUME NEW x \in Ids, positions'[x] # Absent, ~Headed(x)'
      PROVE  \E g \in Writers : x \in Leaving(g)'
  <2>1. CASE x \in Leaving(h)'
    BY <2>1
  <2>2. CASE ~Headed(x) /\ positions'[x] = positions[x] /\ x \notin Leaving(h)
    <3>1. PICK g \in Writers : x \in Leaving(g)
      BY <1>5, <2>2 DEF HeadedInv
    <3>2. QED BY <1>1, <2>2, <3>1
  <2>3. QED BY <1>5, <2>1, <2>2
<1>6. QED BY <1>1, <1>3, <1>4, <1>5 DEF HeadedInv

(* The steps that leave memory alone.                                       *)
LEMMA HeadedElsewhere ==
  ASSUME RegInv, RegInv', HeadedInv, NEW h \in Writers, NEW label, NEW id, NEW held,
         NEW group, Moved(h, label, id, held, group), positions' = positions,
         Leaving(h) \subseteq Leaving(h)' \/ Leaving(h) = {},
         Own(h)' \in {{}, Own(h)}, Led(h)'
  PROVE  HeadedInv'
<1>1. \A x \in Ids : Headed(x)' <=> Headed(x)
  BY DEF Headed
<1>2. \A x \in Ids : positions[x] # Absent /\ positions[x].head \in Own(h)'
                       => x \in Own(h)'
  BY DEF HeadedInv
<1>3. QED BY <1>1, <1>2, HeadedPreserved

(* A position that is its own head enters memory.                           *)
LEMMA HeadedEnter ==
  ASSUME RegInv, RegInv', HeadedInv, NEW h \in Writers, NEW pos, NEW label \in Entered,
         NEW group, nextId \in Ids, pos # Absent, pos.head = nextId,
         positions' = [positions EXCEPT ![nextId] = pos],
         pc[h] \in {"idle", "keyword"}, Own(h) = group,
         Moved(h, label, nextId, pos, group),
         label = "adopt" <=> group # {},
         group # {} => pc[h] = "keyword" /\ group = groupOf[h]
  PROVE  HeadedInv'
<1>1. /\ pc'[h] = label /\ idOf'[h] = nextId /\ heldOf'[h] = pos /\ groupOf'[h] = group
  BY Facts, After
<1>2. Own(h)' = group \cup {nextId} /\ Leaving(h) = {}
  BY <1>1 DEF Own, Entered, Leaving
<1>3. /\ positions'[nextId] = pos
      /\ \A x \in Ids \ {nextId} : positions'[x] = positions[x]
  BY Facts DEF TypeInv
<1>4. \A x \in Ids : x # nextId /\ positions[x] # Absent =>
        positions[x].head # nextId /\ positions[x].head \in Ids
  BY Facts DEF LowInv, TypeInv, Position
<1>5. \A x \in Ids : x = nextId => Headed(x)'
  BY <1>3 DEF Headed
<1>6. ASSUME NEW x \in Ids, positions'[x] # Absent, x # nextId
      PROVE  /\ positions'[x] = positions[x] /\ (Headed(x) => Headed(x)')
             /\ positions'[x].head \in Own(h)' => x \in Own(h)'
  BY <1>2, <1>3, <1>4, <1>6 DEF Headed, HeadedInv
<1>7. Led(h)'
  <2>1. CASE group = {}
    BY <1>1, <1>3, <2>1 DEF Led, Entered, Changing
  <2>2. CASE group # {}
    <3>1. /\ positions[Head(h)] # Absent /\ positions[Head(h)].head = Head(h)
          /\ Head(h) \in Own(h)
      BY <2>2, Facts, HeadOfGroup DEF HeadedInv, Led
    <3>2. Head(h)' = Head(h) /\ Head(h) # nextId /\ Head(h) \in Ids
      BY <1>1, <2>2, <3>1, Facts, HeadStays
    <3>3. positions'[Head(h)] = positions[Head(h)]
      BY <1>3, <3>2
    <3>4. QED BY <1>1, <1>3, <2>2, <3>1, <3>2, <3>3 DEF Led, Entered, Changing
  <2>3. QED BY <2>1, <2>2
<1>8. \A x \in Ids : \/ positions'[x] = positions[x]
                     \/ \A g \in Writers : x \notin Own(g)
  BY <1>3, Facts
<1>9. QED BY <1>2, <1>3, <1>5, <1>6, <1>7, <1>8, HeadedPreserved

LEMMA HeadedRegisters ==
  ASSUME RegInv, RegInv', HeadedInv, NEW h \in Writers, NEW emb \in Embeddings,
         NEW terms \in Terms, RegisterOne(h, emb, terms) \/ Keyword(h, emb, terms)
  PROVE  HeadedInv'
<1> DEFINE pos == [emb |-> emb, terms |-> terms, head |-> nextId]
<1>1. CASE RegisterOne(h, emb, terms)
  <2> DEFINE label == "insert" group == {}
  <2>1. /\ positions' = [positions EXCEPT ![nextId] = pos] /\ nextId \in Ids
        /\ pc[h] = "idle" /\ Moved(h, label, nextId, pos, group)
    BY <1>1 DEF RegisterOne, Accept, Enter, Goto, Locals, Moved
  <2>2. /\ Own(h) = group /\ label \in Entered /\ label # "adopt" /\ group = {}
    BY <2>1 DEF Own, Entered
  <2>3. pos # Absent /\ pos.head = nextId
    BY <2>1, AbsentIsNoPosition DEF Position
  <2> HIDE DEF pos, label, group
  <2>4. QED BY <2>1, <2>2, <2>3, HeadedEnter
<1>2. CASE Keyword(h, emb, terms)
  <2> DEFINE label == IF groupOf[h] = {} THEN "member_row" ELSE "adopt"
  <2>1. /\ positions' = [positions EXCEPT ![nextId] = pos] /\ nextId \in Ids
        /\ pc[h] = "keyword" /\ Moved(h, label, nextId, pos, groupOf[h])
    BY <1>2 DEF Keyword, Enter, Goto, Locals, Moved
  <2>2. /\ Own(h) = groupOf[h] /\ label \in Entered
        /\ label = "adopt" <=> groupOf[h] # {}
    BY <2>1 DEF Own, Entered
  <2>3. pos # Absent /\ pos.head = nextId
    BY <2>1, AbsentIsNoPosition DEF Position
  <2> HIDE DEF pos, label
  <2>4. QED BY <2>1, <2>2, <2>3, HeadedEnter
<1>3. QED BY <1>1, <1>2

LEMMA HeadedAdopt ==
  ASSUME RegInv, RegInv', HeadedInv, NEW h \in Writers, Adopt(h)
  PROVE  HeadedInv'
<1> DEFINE member == [emb |-> heldOf[h].emb, terms |-> heldOf[h].terms, head |-> Head(h)]
<1>1. /\ pc[h] = "adopt" /\ positions' = [positions EXCEPT ![idOf[h]] = member]
      /\ Moved(h, "member_row", idOf[h], member, groupOf[h])
  BY DEF Adopt, Goto, Locals, Moved
<1>2. member.head = Head(h)
  OBVIOUS
<1> HIDE DEF member
<1>3. /\ idOf[h] \in Ids /\ Own(h) = groupOf[h] \cup {idOf[h]} /\ groupOf[h] # {}
      /\ groupOf[h] \subseteq Ids /\ \A x \in groupOf[h] : x < idOf[h]
  BY <1>1, Facts DEF HeldInv, HeldBy, Own, Entered, TypeInv
<1>4. /\ pc'[h] = "member_row" /\ idOf'[h] = idOf[h] /\ heldOf'[h] = member
      /\ groupOf'[h] = groupOf[h] /\ Own(h)' = groupOf[h] \cup {idOf[h]}
  BY <1>1, Facts, After DEF Entered
<1>5. /\ Head(h) \in groupOf[h] /\ Head(h)' = Head(h) /\ Head(h) # idOf[h]
  BY <1>3, <1>4, Facts, HeadOfGroup, HeadStays
<1>6. /\ positions'[idOf[h]] = member
      /\ \A x \in Ids \ {idOf[h]} : positions'[x] = positions[x]
  BY <1>1, <1>3, Facts DEF TypeInv
<1>7. /\ positions[Head(h)] # Absent /\ positions[Head(h)].head = Head(h)
      /\ positions'[Head(h)] = positions[Head(h)]
  BY <1>1, <1>3, <1>5, <1>6 DEF HeadedInv, Led
<1>8. \A x \in Ids : x = idOf[h] => Headed(x)'
  BY <1>2, <1>6, <1>7 DEF Headed
<1>9. ASSUME NEW x \in Ids, positions[x] # Absent, x # idOf[h]
      PROVE  positions[x].head # idOf[h] /\ positions[x].head \in Ids
  <2>1. positions[x].head <= x /\ positions[x].head \in Ids
    BY <1>9, Facts DEF LowInv, TypeInv, Position
  <2>2. positions[x].head = idOf[h] => x \in groupOf[h]
    BY <1>3, <1>9 DEF HeadedInv
  <2>3. QED BY <1>3, <2>1, <2>2, Facts
<1>10. ASSUME NEW x \in Ids, positions'[x] # Absent, x # idOf[h]
       PROVE  /\ positions'[x] = positions[x] /\ (Headed(x) => Headed(x)')
              /\ positions'[x].head \in Own(h)' => x \in Own(h)'
  BY <1>3, <1>4, <1>6, <1>9, <1>10 DEF Headed, HeadedInv
<1>11. Leaving(h) = {}
  BY <1>1 DEF Leaving
<1>12. Led(h)'
  BY <1>3, <1>4, <1>5, <1>6, <1>7 DEF Led, Entered, Changing
<1>13. \A x \in Ids : \/ positions'[x] = positions[x]
                      \/ \A g \in Writers : g # h => x \notin Own(g)
  BY <1>3, <1>6, Facts DEF OwnInv
<1>14. idOf[h] \in Own(h)' /\ positions'[idOf[h]].head \in Own(h)'
  BY <1>2, <1>4, <1>5, <1>6
<1>15. QED BY <1>1, <1>8, <1>10, <1>11, <1>12, <1>13, <1>14, HeadedPreserved

LEMMA HeadedMember ==
  ASSUME RegInv, RegInv', HeadedInv, NEW h \in Writers, MemberRow(h)
  PROVE  HeadedInv'
<1> DEFINE group == groupOf[h] \cup {idOf[h]}
<1>1. positions' = positions /\ pc[h] = "member_row"
  BY DEF MemberRow
<1>2. Own(h) = group /\ Leaving(h) = {} /\ group \subseteq Ids
  BY <1>1, Facts DEF Own, Entered, Leaving, HeldInv, HeldBy, TypeInv
<1>3. CASE Moved(h, "idle", 0, Absent, {})
  <2>1. Own(h)' = {} /\ pc'[h] = "idle"
    BY <1>3, Facts, After DEF Entered
  <2>2. Led(h)'
    BY <2>1 DEF Led, Entered, Changing
  <2>3. QED BY <1>1, <1>2, <1>3, <2>1, <2>2, HeadedElsewhere
<1>4. CASE Moved(h, "keyword", 0, Absent, group)
  <2>1. Own(h)' = group /\ pc'[h] = "keyword" /\ groupOf'[h] = group
    BY <1>4, Facts, After DEF Entered
  <2>2. /\ positions[idOf[h]] = heldOf[h] /\ heldOf[h] # Absent
    BY <1>1, Facts, AbsentIsNoPosition DEF HeadedInv, Led, Entered, HeldInv, HeldBy
  <2>3. Head(h)' = CHOOSE x \in group : \A y \in group : x <= y
    BY <2>1 DEF Head
  <2>4. /\ positions[Head(h)'] # Absent
        /\ positions[Head(h)'].head = Head(h)'
    <3>1. CASE groupOf[h] = {} /\ heldOf[h].head = idOf[h]
      <4>1. Head(h)' = idOf[h]
        BY <1>2, <2>3, <3>1, Facts
      <4>2. QED BY <2>2, <3>1, <4>1
    <3>2. CASE groupOf[h] # {} /\ \A x \in groupOf[h] : x < idOf[h]
      <4>1. /\ Head(h) \in groupOf[h] /\ \A y \in groupOf[h] : Head(h) <= y
        <5>1. groupOf[h] \subseteq Nat
          BY <1>2, Facts
        <5>2. \E x \in groupOf[h] : \A y \in groupOf[h] : x <= y
          BY <3>2, <5>1, Least
        <5>3. QED BY <5>2 DEF Head
      <4>2. Head(h) \in group /\ \A y \in group : Head(h) <= y
        BY <1>2, <3>2, <4>1, Facts
      <4>3. \A x \in group : (\A y \in group : x <= y) => x = Head(h)
        BY <1>2, <4>2, Facts
      <4>4. Head(h)' = Head(h)
        BY <2>3, <4>2, <4>3
      <4>5. QED BY <1>1, <3>2, <4>4 DEF HeadedInv, Led
    <3>3. QED BY <1>1, <3>1, <3>2 DEF HeadedInv, Led
  <2>5. Led(h)'
    BY <1>1, <2>1, <2>4 DEF Led, Entered, Changing
  <2>6. QED BY <1>1, <1>2, <1>4, <2>1, <2>5, HeadedElsewhere
<1>5. QED BY <1>3, <1>4 DEF MemberRow, Goto, Locals, Moved, Answer

LEMMA HeadedMemberFails ==
  ASSUME RegInv, RegInv', HeadedInv, NEW h \in Writers, MemberRowFails(h)
  PROVE  HeadedInv'
<1>1. /\ pc[h] = "member_row" /\ positions' = [positions EXCEPT ![idOf[h]] = Absent]
      /\ Moved(h, "rollback", 0, Absent, groupOf[h])
  BY DEF MemberRowFails, Goto, Locals, Moved
<1>2. /\ idOf[h] \in Ids /\ Own(h) = groupOf[h] \cup {idOf[h]}
  BY <1>1, Facts DEF HeldInv, HeldBy, Own, Entered
<1>3. /\ pc'[h] = "rollback" /\ groupOf'[h] = groupOf[h] /\ Own(h)' = groupOf[h]
      /\ Leaving(h)' = groupOf[h] /\ Leaving(h) = {}
  BY <1>1, Facts, After DEF Entered, Leaving
<1>4. /\ positions'[idOf[h]] = Absent
      /\ \A x \in Ids \ {idOf[h]} : positions'[x] = positions[x]
  BY <1>1, <1>2, Facts DEF TypeInv
<1>5. ASSUME NEW x \in Ids, positions'[x] # Absent
      PROVE  /\ positions'[x] = positions[x]
             /\ Headed(x) => Headed(x)' \/ x \in Leaving(h)'
             /\ positions'[x].head \in Own(h)' => x \in Own(h)'
  <2>1. x # idOf[h] /\ positions'[x] = positions[x]
    BY <1>4, <1>5
  <2>2. positions[x].head \in Ids
    BY <1>5, <2>1, Facts DEF TypeInv, Position
  <2>3. positions[x].head \in Own(h) => x \in groupOf[h]
    BY <1>2, <1>5, <2>1 DEF HeadedInv
  <2>4. positions[x].head # idOf[h] /\ Headed(x) => Headed(x)'
    BY <1>4, <2>1, <2>2 DEF Headed
  <2>5. QED BY <1>2, <1>3, <2>1, <2>3, <2>4
<1>6. Led(h)'
  BY <1>3 DEF Led, Entered, Changing
<1>7. \A x \in Ids : \/ positions'[x] = positions[x]
                     \/ \A g \in Writers : g # h => x \notin Own(g)
  BY <1>2, <1>4, Facts DEF OwnInv
<1>8. QED BY <1>1, <1>3, <1>5, <1>6, <1>7, HeadedPreserved

LEMMA HeadedRollback ==
  ASSUME RegInv, RegInv', HeadedInv, NEW h \in Writers, RollbackMemory(h)
  PROVE  HeadedInv'
<1>1. /\ pc[h] = "rollback" /\ Own(h) = groupOf[h] /\ Leaving(h) = groupOf[h]
  BY DEF RollbackMemory, Own, Entered, Leaving
<1>2. CASE groupOf[h] = {}
  <2>1. positions' = positions /\ Moved(h, "idle", 0, Absent, {})
    BY <1>2 DEF RollbackMemory, Answer, Goto, Locals, Moved
  <2>2. pc'[h] = "idle" /\ Own(h)' = {}
    BY <2>1, Facts, After DEF Entered
  <2>3. Led(h)'
    BY <2>2 DEF Led, Entered, Changing
  <2>4. QED BY <1>1, <1>2, <2>1, <2>2, <2>3, HeadedElsewhere
<1>3. CASE groupOf[h] # {}
  <2>1. /\ positions' = [positions EXCEPT ![Head(h)] = Absent]
        /\ Moved(h, "rollback_row", idOf[h], heldOf[h], groupOf[h])
    BY <1>3, Facts DEF RollbackMemory, Goto, locals, Moved, TypeInv
  <2>2. Head(h) \in Own(h) /\ Head(h) \in Ids
    BY <1>1, <1>3, Facts, HeadOfGroup
  <2>3. /\ pc'[h] = "rollback_row" /\ Own(h)' = groupOf[h] /\ groupOf'[h] = groupOf[h]
        /\ Leaving(h)' = groupOf[h]
    BY <2>1, Facts, After DEF Entered, Leaving
  <2>4. /\ positions'[Head(h)] = Absent
        /\ \A x \in Ids \ {Head(h)} : positions'[x] = positions[x]
    BY <2>1, <2>2, Facts DEF TypeInv
  <2>5. ASSUME NEW x \in Ids, positions'[x] # Absent
        PROVE  /\ positions'[x] = positions[x]
               /\ Headed(x) => Headed(x)' \/ x \in Leaving(h)'
               /\ positions'[x].head \in Own(h)' => x \in Own(h)'
    <3>1. positions'[x] = positions[x]
      BY <2>4, <2>5
    <3>2. positions[x].head \in Ids
      BY <2>5, <3>1, Facts DEF TypeInv, Position
    <3>3. positions[x].head \in Own(h) => x \in Own(h)
      BY <2>5, <3>1 DEF HeadedInv
    <3>4. positions[x].head # Head(h) /\ Headed(x) => Headed(x)'
      BY <2>4, <3>1, <3>2 DEF Headed
    <3>5. QED BY <1>1, <2>2, <2>3, <3>1, <3>3, <3>4
  <2>6. Led(h)'
    BY <2>3, <2>4, HeadStays DEF Led, Entered, Changing
  <2>7. \A x \in Ids : \/ positions'[x] = positions[x]
                       \/ \A g \in Writers : g # h => x \notin Own(g)
    BY <2>2, <2>4, Facts DEF OwnInv
  <2>8. QED BY <1>1, <2>1, <2>3, <2>5, <2>6, <2>7, HeadedPreserved
<1>4. QED BY <1>2, <1>3

LEMMA HeadedRollbackRow ==
  ASSUME RegInv, RegInv', HeadedInv, NEW h \in Writers, RollbackRow(h)
  PROVE  HeadedInv'
<1> DEFINE rest == groupOf[h] \ {Head(h)}
<1>1. /\ positions' = positions /\ pc[h] = "rollback_row"
      /\ Moved(h, "rollback", 0, Absent, rest)
  BY DEF RollbackRow, Goto, Locals, Moved
<1>2. Own(h) = groupOf[h] /\ Leaving(h) = groupOf[h]
  BY <1>1 DEF Own, Entered, Leaving
<1>3. pc'[h] = "rollback" /\ Own(h)' = rest /\ groupOf'[h] = rest /\ Leaving(h)' = rest
  BY <1>1, Facts, After DEF Entered, Leaving
<1>4. positions[Head(h)] = Absent
  BY <1>1 DEF HeadedInv, Led
<1>5. \A x \in Ids : Headed(x)' <=> Headed(x)
  BY <1>1 DEF Headed
<1>6. \A x \in Ids : positions[x] # Absent /\ positions[x].head \in Own(h)'
                       => x \in Own(h)'
  BY <1>2, <1>3, <1>4 DEF HeadedInv
<1>7. \A x \in Ids : positions[x] # Absent /\ x \in Leaving(h) => x \in Leaving(h)'
  BY <1>2, <1>3, <1>4
<1>8. Led(h)'
  BY <1>3 DEF Led, Entered, Changing
<1>9. QED BY <1>1, <1>5, <1>6, <1>7, <1>8, HeadedPreserved

LEMMA HeadedDelete ==
  ASSUME RegInv, RegInv', HeadedInv, "early" \notin Operations, NEW h \in Writers,
         NEW id \in Ids, Delete(h, id)
  PROVE  HeadedInv'
<1> DEFINE group == GroupOf(id)
<1>1. /\ pc[h] = "idle" /\ id \in known
      /\ positions' = [m \in Ids |-> IF m \in group THEN Absent ELSE positions[m]]
      /\ Moved(h, "delete_rows", id, Absent, group)
  BY DEF Delete, Accept, Nameable, Goto, Locals, Moved
<1>2. /\ \A m \in Ids : positions[m] # Absent /\ positions[m].head = id => m \in group
      /\ \A m \in group : m = id \/ (m \in Ids /\ positions[m] # Absent /\ positions[m].head = id)
  BY DEF GroupOf, Present
<1>3. ASSUME NEW m \in group, NEW g \in Writers PROVE m \notin Own(g)
  <2>1. CASE m = id
    BY <1>1, <2>1, Facts DEF OwnInv
  <2>2. CASE m # id
    BY <1>1, <1>2, <2>2, Facts DEF HeadInv
  <2>3. QED BY <2>1, <2>2
<1> HIDE DEF group
<1>4. /\ pc'[h] = "delete_rows" /\ Own(h)' = {} /\ Leaving(h) = {}
  BY <1>1, Facts, After DEF Entered, Leaving
<1>5. ASSUME NEW x \in Ids, positions'[x] # Absent
      PROVE  positions'[x] = positions[x] /\ (Headed(x) => Headed(x)')
  <2>1. x \notin group /\ positions'[x] = positions[x]
    BY <1>1, <1>5
  <2>2. positions[x].head \in Ids /\ positions[x].head # id
    BY <1>2, <1>5, <2>1, Facts DEF TypeInv, Position
  <2>3. ASSUME Headed(x) PROVE positions[x].head \notin group
    BY <1>2, <2>2, <2>3 DEF Headed
  <2>4. ASSUME Headed(x) PROVE Headed(x)'
    <3>1. positions'[positions[x].head] = positions[positions[x].head]
      BY <1>1, <2>2, <2>3, <2>4
    <3>2. QED BY <2>1, <2>4, <3>1 DEF Headed
  <2>5. QED BY <2>1, <2>4
<1>6. Led(h)'
  BY <1>4 DEF Led, Entered, Changing
<1>7. \A x \in Ids : \/ positions'[x] = positions[x]
                     \/ \A g \in Writers : g # h => x \notin Own(g)
  BY <1>1, <1>3
<1>8. QED BY <1>1, <1>4, <1>5, <1>6, <1>7, HeadedPreserved

(* The steps that touch the table only, or nothing.                         *)
LEMMA HeadedRest ==
  ASSUME RegInv, RegInv', HeadedInv, NEW h \in Writers, NEW n,
         \/ RegisterGroup(h, n) \/ InsertRow(h) \/ KeywordFails(h) \/ DeleteRow(h)
  PROVE  HeadedInv'
<1>1. CASE RegisterGroup(h, n)
  <2>1. /\ positions' = positions /\ pc[h] = "idle" /\ Moved(h, "keyword", 0, Absent, {})
    BY <1>1 DEF RegisterGroup, Accept, Goto, Locals, Moved
  <2>2. Own(h)' = {} /\ pc'[h] = "keyword" /\ groupOf'[h] = {} /\ Leaving(h) = {}
    BY <2>1, Facts, After DEF Entered, Leaving
  <2>3. Led(h)'
    BY <2>2 DEF Led, Entered, Changing
  <2>4. QED BY <2>1, <2>2, <2>3, HeadedElsewhere
<1>2. CASE InsertRow(h)
  <2>1. /\ positions' = positions /\ pc[h] = "insert" /\ Moved(h, "idle", 0, Absent, {})
    BY <1>2 DEF InsertRow, Answer, Goto, Locals, Moved
  <2>2. Own(h)' = {} /\ pc'[h] = "idle" /\ Leaving(h) = {}
    BY <2>1, Facts, After DEF Entered, Leaving
  <2>3. Led(h)'
    BY <2>2 DEF Led, Entered, Changing
  <2>4. QED BY <2>1, <2>2, <2>3, HeadedElsewhere
<1>3. CASE KeywordFails(h)
  <2>1. /\ positions' = positions /\ pc[h] = "keyword"
        /\ Moved(h, "rollback", idOf[h], heldOf[h], groupOf[h])
    BY <1>3, Facts DEF KeywordFails, Goto, locals, Moved, TypeInv
  <2>2. Own(h) = groupOf[h] /\ Leaving(h) = {}
    BY <2>1 DEF Own, Entered, Leaving
  <2>3. Own(h)' = groupOf[h] /\ pc'[h] = "rollback"
    BY <2>1, Facts, After DEF Entered
  <2>4. Led(h)'
    BY <2>3 DEF Led, Entered, Changing
  <2>5. QED BY <2>1, <2>2, <2>3, <2>4, HeadedElsewhere
<1>4. CASE DeleteRow(h)
  <2>1. /\ positions' = positions /\ pc[h] = "delete_rows"
        /\ \/ Moved(h, "idle", 0, Absent, {})
           \/ \E y \in groupOf[h] : Moved(h, "delete_rows", idOf[h], Absent, groupOf[h] \ {y})
    BY <1>4 DEF DeleteRow, Answer, Goto, Locals, Moved
  <2>2. ASSUME NEW label \in {"idle", "delete_rows"}, NEW i, NEW group,
               Moved(h, label, i, Absent, group)
        PROVE  HeadedInv'
    <3>1. pc'[h] = label /\ Own(h)' = {}
      <4>1. pc'[h] = label
        BY <2>2, Facts, After
      <4>2. QED BY <2>2, <4>1 DEF Own, Entered
    <3>2. Leaving(h) = {}
      BY <2>1 DEF Leaving
    <3>3. Led(h)'
      BY <3>1 DEF Led, Entered, Changing
    <3>4. QED BY <2>1, <2>2, <3>1, <3>2, <3>3, HeadedElsewhere
  <2>3. QED BY <2>1, <2>2
<1>5. QED BY <1>1, <1>2, <1>3, <1>4

LEMMA HeadedSame ==
  ASSUME HeadedInv, UNCHANGED <<positions, pc, locals>>
  PROVE  HeadedInv'
<1>1. \A h \in Writers : /\ Head(h)' = Head(h) /\ Own(h)' = Own(h)
                         /\ Leaving(h)' = Leaving(h)
  BY HeadStays DEF Own, Leaving, locals
<1>2. \A id \in Ids : Headed(id)' <=> Headed(id)
  BY DEF Headed
<1>3. QED BY <1>1, <1>2 DEF HeadedInv, Led, locals

LEMMA HeadedStep ==
  ASSUME RegInv, RegInv', HeadedInv, "early" \notin Operations,
         "update" \notin Operations, "crash" \notin Operations, [Next]_registryVars
  PROVE  HeadedInv'
<1>1. ~Crash
  BY DEF Crash
<1>2. CASE ReadVersion
  BY <1>2, HeadedSame DEF ReadVersion
<1>3. CASE UNCHANGED registryVars
  BY <1>3, HeadedSame DEF registryVars, locals
<1>4. ASSUME NEW h \in Writers, Request(h) PROVE HeadedInv'
  BY <1>4, HeadedRegisters, HeadedRest, HeadedDelete DEF Request, UpdateRead
<1>5. ASSUME NEW h \in Writers, Progress(h) PROVE HeadedInv'
  <2>1. ~UpdateStore(h) /\ ~UpdateRow(h)
    BY DEF UpdateStore, UpdateRow, HeadedInv, Led, Changing
  <2>2. QED BY <1>5, <2>1, HeadedRest, HeadedAdopt, HeadedMember, HeadedMemberFails,
              HeadedRollback, HeadedRollbackRow DEF Progress
<1>6. QED BY <1>1, <1>2, <1>3, <1>4, <1>5 DEF Next, RegistryNext

(***************************************************************************)
(* No keyword outlives the head whose budget it spends (Delete), whatever  *)
(* is registered, fails and is deleted meanwhile; updates and crashes left *)
(* out, which do break it.                                                 *)
(***************************************************************************)
THEOREM HeadsOutlive ==
  ASSUME "early" \notin Operations, "update" \notin Operations, "crash" \notin Operations
  PROVE  Spec => []NoOrphans
<1>1. RegistryInit => HeadedInv
  BY DEF RegistryInit, HeadedInv, Led, Own, Entered, Changing
<1>2. ASSUME HeadedInv, Quiescent, NEW id \in Present(positions), RegInv
      PROVE  positions[id].head \in Present(positions)
  <2>1. ASSUME NEW h \in Writers PROVE Leaving(h) = {}
    <3>1. pc[h] = "idle"
      BY <1>2 DEF Quiescent
    <3>2. QED BY <3>1 DEF Leaving
  <2>2. id \in Ids /\ positions[id] # Absent
    BY <1>2 DEF Present
  <2>3. Headed(id) /\ positions[id].head \in Ids
    BY <1>2, <2>1, <2>2, Facts DEF HeadedInv, TypeInv, Position
  <2>4. QED BY <2>3 DEF Headed, Present
<1>3. RegInv /\ HeadedInv => NoOrphans
  BY <1>2 DEF NoOrphans
<1>4. RegInv /\ [Next]_registryVars => RegInv'
  BY RegStep
<1>5. RegInv /\ RegInv' /\ HeadedInv /\ [Next]_registryVars => HeadedInv'
  BY HeadedStep
<1>6. QED BY <1>1, <1>3, <1>4, <1>5, RegInitHolds, PTL DEF Spec

-----------------------------------------------------------------------------
(***************************************************************************)
(* What a 304 of GET /embeddings tells a cache, for any number of calls    *)
(* of sync under way, lost and reordered, over every race, crash and       *)
(* failing statement of the registry.                                      *)
(***************************************************************************)
(* A tag that is sent with a body of another content is of a content that   *)
(* the registry had left before.                                            *)
Old(tag, body) == tag = body \/ tag \in past

TagInv ==
  /\ etag = NoVersion \/ Old(etag, cache)
  /\ \A f \in Fetches : /\ call[f] = "body" => Old(tagOf[f], Content)
                        /\ call[f] = "ok" => Old(tagOf[f], bodyOf[f])
CallTypes ==
  /\ call \in [Fetches -> {"none", "sent", "body", "ok", "not_modified"}]
  /\ DOMAIN tagOf = Fetches /\ DOMAIN bodyOf = Fetches
  /\ tagOf = [f \in Fetches |-> tagOf[f]] /\ bodyOf = [f \in Fetches |-> bodyOf[f]]

SyncInv == RegInv /\ VersionCurrent /\ CallTypes /\ TagInv

LEMMA ContentIsNoTag ==
  ASSUME RegInv
  PROVE  Content # NoVersion
<1>1. \A id \in Present(positions) : positions[id].emb \in Embeddings /\ id \in Ids
  BY Facts DEF TypeInv, Present, Position
<1>2. Content \in SUBSET (Ids \X Embeddings)
  BY <1>1 DEF Content, Fingerprint
<1>3. QED BY <1>2, AbsentIsNoVersion DEF NoVersion

LEMMA CurrentIsContent ==
  ASSUME VersionCurrent
  PROVE  CurrentVersion = Content
BY DEF VersionCurrent, CurrentVersion, Content, NoVersion

LEMMA SyncInitHolds == SyncInit => SyncInv
BY RegInitHolds
   DEF SyncInit, SyncInv, TagInv, CallTypes, RegistryInit, VersionCurrent

(* To the registry, a step of the composition is one of its own.            *)
LEMMA RegistrySteps == [SyncNext]_vars => [Next]_registryVars
BY DEF SyncNext, RegistryStep, SyncStep, Send, ServeVersion, ServeBody, Receive, Lose,
       Next, vars

LEMMA Became ==
  ASSUME CallTypes, NEW f \in Fetches, NEW state, NEW tag, NEW body,
         state \in {"none", "sent", "body", "ok", "not_modified"},
         Become(f, state, tag, body)
  PROVE  /\ CallTypes'
         /\ call'[f] = state /\ tagOf'[f] = tag /\ bodyOf'[f] = body
         /\ \A g \in Fetches : g # f =>
              call'[g] = call[g] /\ tagOf'[g] = tagOf[g] /\ bodyOf'[g] = bodyOf[g]
BY DEF CallTypes, Become

LEMMA TagStep ==
  ASSUME SyncInv, [SyncNext]_vars
  PROVE  CallTypes' /\ TagInv'
<1> USE DEF SyncInv, Old
<1>1. CASE RegistryStep
  <2>1. UNCHANGED clientVars /\ past \subseteq past'
        /\ (Content' = Content \/ Content \in past')
    BY <1>1 DEF RegistryStep
  <2>2. QED BY <2>1 DEF TagInv, CallTypes, clientVars
<1>2. ASSUME NEW f \in Fetches, Send(f) PROVE CallTypes' /\ TagInv'
  <2>1. UNCHANGED <<cache, etag, past, positions>>
    BY <1>2 DEF Send, registryVars
  <2>2. QED BY <1>2, <2>1, Became DEF Send, TagInv, Content
<1>3. ASSUME NEW f \in Fetches, ServeVersion(f) PROVE CallTypes' /\ TagInv'
  <2>1. UNCHANGED <<cache, etag, past, positions>>
    BY <1>3 DEF ServeVersion, ReadVersion
  <2>2. CurrentVersion = Content
    BY CurrentIsContent
  <2>3. QED BY <1>3, <2>1, <2>2, Became DEF ServeVersion, TagInv, Content
<1>4. ASSUME NEW f \in Fetches, ServeBody(f) PROVE CallTypes' /\ TagInv'
  <2>1. UNCHANGED <<cache, etag, past, positions>>
    BY <1>4 DEF ServeBody, registryVars
  <2>2. QED BY <1>4, <2>1, Became DEF ServeBody, TagInv, Content
<1>5. ASSUME NEW f \in Fetches, Receive(f) PROVE CallTypes' /\ TagInv'
  <2>1. UNCHANGED <<past, positions>>
    BY <1>5 DEF Receive, registryVars
  <2>2. QED BY <1>5, <2>1, Became DEF Receive, BothReplaced, TagInv, Content
<1>6. ASSUME NEW f \in Fetches, Lose(f) PROVE CallTypes' /\ TagInv'
  <2>1. UNCHANGED <<cache, etag, past, positions>>
    BY <1>6 DEF Lose, registryVars
  <2>2. QED BY <1>6, <2>1, Became DEF Lose, TagInv, Content
<1>7. CASE UNCHANGED vars
  BY <1>7 DEF vars, clientVars, registryVars, TagInv, CallTypes, Content
<1>8. QED BY <1>1, <1>2, <1>3, <1>4, <1>5, <1>6, <1>7 DEF SyncNext, SyncStep

(***************************************************************************)
(* A 304 (HandleEmbeddings) confirms the tag a cache holds only if the     *)
(* cache has the registry's content, or the registry went back to a        *)
(* content it had left: EmbeddingsVersion is read before GetAll, so a tag  *)
(* is never newer than its body.                                           *)
(***************************************************************************)
THEOREM NotModifiedIsFresh ==
  ASSUME "early" \notin Operations
  PROVE  SyncSpec => FreshUnlessReverted
<1> DEFINE Fresh ==
      \A f \in Fetches :
        call[f] = "sent" /\ call'[f] = "not_modified" /\ tagOf[f] = etag
          => cache = Content \/ Content \in past
<1>1. SyncInv /\ [SyncNext]_vars => SyncInv'
  BY RegistrySteps, RegStep, VersionStep, TagStep DEF SyncInv
<1>2. SyncInv /\ [SyncNext]_vars => [Fresh]_vars
  <2> SUFFICES ASSUME SyncInv, [SyncNext]_vars, NEW f \in Fetches,
                      call[f] = "sent", call'[f] = "not_modified", tagOf[f] = etag
               PROVE  cache = Content \/ Content \in past
    OBVIOUS
  <2> USE DEF SyncInv
  <2>1. CurrentVersion = Content /\ Content # NoVersion
    BY CurrentIsContent, ContentIsNoTag
  <2>2. tagOf[f] = CurrentVersion => cache = Content \/ Content \in past
    BY <2>1 DEF TagInv, Old
  <2>3. ASSUME NEW g \in Fetches, SyncStep(g) PROVE tagOf[f] = CurrentVersion
    <3>1. \A state, tag, body :
            Become(g, state, tag, body) => g = f /\ state = "not_modified"
      BY DEF Become, CallTypes
    <3>2. ServeVersion(g)
      BY <2>3, <3>1 DEF SyncStep, Send, ServeBody, Receive, Lose
    <3>3. QED BY <3>1, <3>2 DEF ServeVersion
  <2>4. CASE RegistryStep \/ UNCHANGED vars
    BY <2>4 DEF RegistryStep, clientVars, vars
  <2>5. QED BY <2>2, <2>3, <2>4 DEF SyncNext
<1>3. QED BY <1>1, <1>2, SyncInitHolds, PTL DEF SyncSpec, FreshUnlessReverted
=============================================================================
