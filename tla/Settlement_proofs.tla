-------------------------- MODULE Settlement_proofs --------------------------
(***************************************************************************)
(* Proofs about Settlement, for every set of requests and every value of   *)
(* the bounds, budgets, payments, operations and faults.                   *)
(***************************************************************************)
EXTENDS Settlement, TLAPS

(***************************************************************************)
(* Type correctness is inductive together with what the requests hold: a   *)
(* busy request holds an id, a click holds an auction, and an auction on   *)
(* record has a winner.                                                    *)
(***************************************************************************)
Clicking == Critical \cup {"lock"}
LocalsOK ==
  /\ \A h \in Requests : pc[h] # "idle" => idOf[h] \in Ids
  /\ \A h \in Requests : pc[h] \in Clicking => auctionOf[h] \in AuctionIds
  /\ \A a \in auctions : won[a].winner \in Ids
TypeInv == TypeOK /\ LocalsOK

LEMMA TypeInit == Init => TypeInv
  BY BoundsAreNumbers DEF Init, TypeInv, TypeOK, LocalsOK, Clicking, Ids,
     AuctionIds, Locals, Labels, Critical

(* The ids a registration takes lie below the next one.                    *)
LEMMA NewIds ==
  ASSUME nextId \in 1 .. MaxId + 1, NEW n \in GroupSizes,
         nextId .. nextId + n - 1 \subseteq Ids
  PROVE  /\ n \in Nat /\ n > 0
         /\ nextId \in nextId .. nextId + n - 1
         /\ nextId + n \in 1 .. MaxId + 1
<1>1. n \in Nat /\ n > 0 /\ nextId \in Nat /\ MaxId \in Nat
  BY BoundsAreNumbers
<1>2. nextId + n - 1 \in nextId .. nextId + n - 1
  BY <1>1
<1>3. nextId + n - 1 \in 1 .. MaxId
  BY <1>2 DEF Ids
<1>4. QED
  BY <1>1, <1>3

LEMMA TypeNext == TypeInv /\ [Next]_vars => TypeInv'
<1> SUFFICES ASSUME TypeInv, [Next]_vars PROVE TypeInv'
  OBVIOUS
<1> USE BoundsAreNumbers, AmountsAreNumbers
    DEF TypeInv, TypeOK, LocalsOK, Clicking, Locals, Labels, Critical, Accept,
        Answer, Goto, Unlock, SetBudget, memory, locals, tracker, advertisers,
        auctionLog, history, bounds
<1>1. ASSUME NEW h \in Requests, NEW n \in GroupSizes, NEW total \in Totals,
             RegisterRows(h, n, total)
      PROVE  TypeInv'
  <2> DEFINE new == nextId .. nextId + n - 1
  <2>1. new \subseteq Ids /\ nextId \in 1 .. MaxId + 1
    BY <1>1 DEF RegisterRows, FirstNewId
  <2>2. nextId \in new /\ nextId + n \in 1 .. MaxId + 1
    BY <2>1, NewIds
  <2>3. QED
    BY <1>1, <2>1, <2>2, SMTT(30) DEF RegisterRows, FirstNewId
<1>2. ASSUME NEW h \in Requests, NEW n \in GroupSizes, RegisterFails(h, n)
      PROVE  TypeInv'
  <2> DEFINE new == nextId .. nextId + n - 1
  <2>1. new \subseteq Ids /\ nextId \in 1 .. MaxId + 1
    BY <1>2 DEF RegisterFails
  <2>2. nextId + n \in 1 .. MaxId + 1
    BY <2>1, NewIds
  <2>3. QED
    BY <1>2, <2>1, <2>2, SMTT(30) DEF RegisterFails
<1>3. ASSUME NEW h \in Requests, FundBudget(h)
      PROVE  TypeInv'
  BY <1>3 DEF FundBudget
<1>4. ASSUME NEW h \in Requests, NEW id \in Ids, NEW total \in Totals,
             UpdateRead(h, id, total)
      PROVE  TypeInv'
  BY <1>4 DEF UpdateRead
<1>5. ASSUME NEW h \in Requests, UpdateMemory(h)
      PROVE  TypeInv'
  BY <1>5 DEF UpdateMemory
<1>6. ASSUME NEW h \in Requests, UpdateRow(h)
      PROVE  TypeInv'
  <2>1. CASE idOf[h] \in rows /\ Goto(h, "rebudget") /\ UNCHANGED locals
    BY <1>6, <2>1 DEF UpdateRow
  <2>2. CASE Answer(h)
    BY <1>6, <2>2 DEF UpdateRow
  <2>3. QED
    BY <1>6, <2>1, <2>2 DEF UpdateRow
<1>7. ASSUME NEW h \in Requests, UpdateBudgetRow(h)
      PROVE  TypeInv'
  <2> DEFINE k == budgetKey[idOf[h]]
  <2>1. CASE /\ k \in rows
             /\ budgetTotal' = [budgetTotal EXCEPT ![k] = amountOf[h]]
             /\ Goto(h, "reset_spent") /\ UNCHANGED locals
    BY <1>7, <2>1 DEF UpdateBudgetRow
  <2>2. CASE Answer(h) /\ UNCHANGED budgetTotal
    BY <1>7, <2>2 DEF UpdateBudgetRow
  <2>3. QED
    BY <1>7, <2>1, <2>2 DEF UpdateBudgetRow
<1>8. ASSUME NEW h \in Requests, UpdateTracker(h)
      PROVE  TypeInv'
  BY <1>8 DEF UpdateTracker
<1>9. ASSUME NEW h \in Requests, NEW id \in Ids, DeletePositions(h, id)
      PROVE  TypeInv'
  BY <1>9 DEF DeletePositions
<1>10. ASSUME NEW h \in Requests, DeleteRow(h)
       PROVE  TypeInv'
  <2>1. CASE Answer(h) /\ UNCHANGED <<rows, budgetTotal, budgetSpent>>
    BY <1>10, <2>1 DEF DeleteRow
  <2>2. CASE \E id \in doomed[h] :
               /\ id \in rows /\ rows' = rows \ {id}
               /\ budgetTotal' = [budgetTotal EXCEPT ![id] = 0]
               /\ budgetSpent' = [budgetSpent EXCEPT ![id] = 0]
               /\ Locals(h, 0, idOf[h], 0, doomed[h] \ {id})
               /\ Goto(h, IF doomed[h] = {id} THEN "delete_budget"
                          ELSE "delete_rows")
    <3> PICK id \in doomed[h] :
               /\ id \in rows /\ rows' = rows \ {id}
               /\ budgetTotal' = [budgetTotal EXCEPT ![id] = 0]
               /\ budgetSpent' = [budgetSpent EXCEPT ![id] = 0]
               /\ Locals(h, 0, idOf[h], 0, doomed[h] \ {id})
               /\ Goto(h, IF doomed[h] = {id} THEN "delete_budget"
                          ELSE "delete_rows")
      BY <2>2
    <3>1. CASE doomed[h] = {id}
      BY <1>10, <3>1 DEF DeleteRow
    <3>2. CASE doomed[h] # {id}
      BY <1>10, <3>2 DEF DeleteRow
    <3>3. QED
      BY <3>1, <3>2
  <2>3. QED
    BY <1>10, <2>1, <2>2 DEF DeleteRow
<1>11. ASSUME NEW h \in Requests, DeleteBudget(h)
       PROVE  TypeInv'
  BY <1>11 DEF DeleteBudget
<1>12. ASSUME NEW h \in Requests, NEW id \in Ids, NEW payment \in Payments,
              WinAuction(h, id, payment)
       PROVE  TypeInv'
  BY <1>12 DEF WinAuction
<1>13. ASSUME NEW h \in Requests, RecordAuction(h)
       PROVE  TypeInv'
  <2> DEFINE a == lastAuction + 1
  <2>1. CASE /\ lastAuction < MaxAuctions /\ lastAuction' = a
             /\ auctions' = auctions \cup {a}
             /\ won' = [won EXCEPT ![a] = [winner |-> idOf[h],
                                           payment |-> amountOf[h]]]
    <3>1. a \in AuctionIds /\ a \in 0 .. MaxAuctions
      BY <2>1 DEF AuctionIds
    <3>2. QED
      BY <1>13, <2>1, <3>1 DEF RecordAuction
  <2>2. CASE UNCHANGED <<lastAuction, auctions, won>>
    BY <1>13, <2>2 DEF RecordAuction
  <2>3. QED
    BY <1>13, <2>1, <2>2 DEF RecordAuction
<1>14. CASE ResetStats
  BY <1>14 DEF ResetStats
<1>15. ASSUME NEW h \in Requests, NEW a \in AuctionIds, ClickArrives(h, a)
       PROVE  TypeInv'
  BY <1>15 DEF ClickArrives
<1>16. ASSUME NEW h \in Requests, LockSettle(h)
       PROVE  TypeInv'
  BY <1>16 DEF LockSettle
<1>17. ASSUME NEW h \in Requests, CheckFirstClick(h)
       PROVE  TypeInv'
  BY <1>17 DEF CheckFirstClick
<1>18. ASSUME NEW h \in Requests, ReadPayment(h)
       PROVE  TypeInv'
  <2>1. CASE /\ Owes(auctionOf[h]) /\ Goto(h, "resolve")
             /\ Locals(h, auctionOf[h], idOf[h], won[auctionOf[h]].payment, {})
    BY <1>18, <2>1 DEF ReadPayment, Owes
  <2>2. CASE Goto(h, "log") /\ UNCHANGED locals
    BY <1>18, <2>2 DEF ReadPayment
  <2>3. QED
    BY <1>18, <2>1, <2>2 DEF ReadPayment
<1>19. ASSUME NEW h \in Requests, ResolveKey(h)
       PROVE  TypeInv'
  <2>1. CASE Locals(h, auctionOf[h], KeyOf(idOf[h]), amountOf[h], {})
    BY <1>19, <2>1 DEF ResolveKey, KeyOf
  <2>2. CASE UNCHANGED locals
    BY <1>19, <2>2 DEF ResolveKey
  <2>3. QED
    BY <1>19, <2>1, <2>2 DEF ResolveKey
<1>20. ASSUME NEW h \in Requests, Charge(h)
       PROVE  TypeInv'
  BY <1>20 DEF Charge, Debited
<1>21. ASSUME NEW h \in Requests, ChargeFails(h)
       PROVE  TypeInv'
  BY <1>21 DEF ChargeFails, RolledBack
<1>22. ASSUME NEW h \in Requests, LogClick(h)
       PROVE  TypeInv'
  BY <1>22 DEF LogClick
<1>23. CASE Crash
  BY <1>23 DEF Crash, Ids
<1>24. CASE UNCHANGED vars
  BY <1>24 DEF vars
<1>25. QED
  BY <1>1, <1>2, <1>3, <1>4, <1>5, <1>6, <1>7, <1>8, <1>9, <1>10, <1>11,
     <1>12, <1>13, <1>14, <1>15, <1>16, <1>17, <1>18, <1>19, <1>20, <1>21,
     <1>22, <1>23, <1>24 DEF Next, Arrival, Step, ClickStep

(* Every behaviour keeps the types of the variables: no amount spent and   *)
(* no total is ever negative (Debited, RolledBack and SetBudget are the    *)
(* only writers), and no request works on an id that was never given out.  *)
THEOREM TypeCorrect == Spec => []TypeOK
<1>1. Init => TypeInv
  BY TypeInit
<1>2. TypeInv /\ [Next]_vars => TypeInv'
  BY TypeNext
<1>3. TypeInv => TypeOK
  BY DEF TypeInv
<1>4. QED
  BY <1>1, <1>2, <1>3, PTL DEF Spec

LEMMA TypeInvariant == Spec => []TypeInv
  BY TypeInit, TypeNext, PTL DEF Spec

-----------------------------------------------------------------------------
(***************************************************************************)
(* The critical section.  Its requests are exactly the holder of settleMu, *)
(* and a request between the first-click check and the charge knows that   *)
(* its auction still has no click.                                         *)
(***************************************************************************)
MutexInv == \A h \in Requests : pc[h] \in Critical <=> settleMu = h
FirstInv == \A h \in Requests : pc[h] \in {"price", "resolve", "charge"}
                                => auctionOf[h] \notin clicked
SettleInv == TypeInv /\ MutexInv /\ FirstInv

(* A step outside the critical section, as far as settlement can tell.     *)
Quiet(h) ==
  /\ pc[h] \notin Critical
  /\ \E label \in Labels \ Critical : pc' = [pc EXCEPT ![h] = label]
  /\ \/ UNCHANGED auctionOf
     \/ \E a \in AuctionIds \cup {0} : auctionOf' = [auctionOf EXCEPT ![h] = a]
  /\ UNCHANGED <<settleMu, clicked, billed>>

LEMMA QuietSteps ==
  ASSUME TypeInv, NEW h \in Requests,
         \/ Arrival(h) /\ \A n \in GroupSizes : ~RegisterFails(h, n)
         \/ FundBudget(h) \/ UpdateMemory(h) \/ UpdateRow(h)
         \/ UpdateBudgetRow(h) \/ UpdateTracker(h)
         \/ DeleteRow(h) \/ DeleteBudget(h) \/ RecordAuction(h)
  PROVE  Quiet(h)
<1> USE DEF TypeInv, TypeOK, Quiet, Labels, Critical, Goto, Accept, Answer,
            Locals, memory, locals, tracker, advertisers, auctionLog, history,
            bounds
<1>1. CASE Arrival(h) /\ \A n \in GroupSizes : ~RegisterFails(h, n)
  <2>1. ASSUME NEW n \in GroupSizes, NEW total \in Totals,
               RegisterRows(h, n, total)
        PROVE  Quiet(h)
    BY <2>1 DEF RegisterRows
  <2>2. ASSUME NEW id \in Ids, NEW total \in Totals, UpdateRead(h, id, total)
        PROVE  Quiet(h)
    BY <2>2 DEF UpdateRead
  <2>3. ASSUME NEW id \in Ids, DeletePositions(h, id)
        PROVE  Quiet(h)
    BY <2>3 DEF DeletePositions
  <2>4. ASSUME NEW id \in Ids, NEW payment \in Payments,
               WinAuction(h, id, payment)
        PROVE  Quiet(h)
    BY <2>4 DEF WinAuction
  <2>5. ASSUME NEW a \in AuctionIds, ClickArrives(h, a)
        PROVE  Quiet(h)
    BY <2>5 DEF ClickArrives
  <2>6. QED
    BY <1>1, <2>1, <2>2, <2>3, <2>4, <2>5 DEF Arrival
<1>2. CASE FundBudget(h)
  BY <1>2 DEF FundBudget
<1>3. CASE UpdateMemory(h)
  BY <1>3 DEF UpdateMemory
<1>4. CASE UpdateRow(h)
  BY <1>4 DEF UpdateRow
<1>5. CASE UpdateBudgetRow(h)
  BY <1>5 DEF UpdateBudgetRow
<1>6. CASE UpdateTracker(h)
  BY <1>6 DEF UpdateTracker
<1>7. CASE DeleteRow(h)
  BY <1>7 DEF DeleteRow
<1>8. CASE DeleteBudget(h)
  BY <1>8 DEF DeleteBudget
<1>9. CASE RecordAuction(h)
  BY <1>9 DEF RecordAuction
<1>10. QED
  BY <1>1, <1>2, <1>3, <1>4, <1>5, <1>6, <1>7, <1>8, <1>9

(* The steps of the specification, as settlement sees them.                *)
LEMMA StepsSeenBySettlement ==
  ASSUME TypeInv, [Next]_vars
  PROVE  \/ \E h \in Requests : Quiet(h) \/ LockSettle(h) \/ ClickStep(h)
         \/ Crash
         \/ UNCHANGED <<pc, auctionOf, settleMu, clicked, billed>>
<1>1. CASE \E h \in Requests : Arrival(h) \/ LockSettle(h) \/ Step(h)
  <2>1. PICK h \in Requests : Arrival(h) \/ LockSettle(h) \/ Step(h)
    BY <1>1
  <2>2. CASE \E n \in GroupSizes : RegisterFails(h, n)
    BY <2>2 DEF RegisterFails, locals, auctionLog, history
  <2>3. CASE \A n \in GroupSizes : ~RegisterFails(h, n)
    BY <2>1, <2>3, QuietSteps DEF Step
  <2>4. QED
    BY <2>2, <2>3
<1>2. CASE ResetStats
  BY <1>2 DEF ResetStats, locals, history
<1>3. CASE UNCHANGED vars
  BY <1>3 DEF vars
<1>4. QED
  BY <1>1, <1>2, <1>3 DEF Next

LEMMA SettleInit == Init => SettleInv
  BY TypeInit, NoRequestIsFree
  DEF Init, SettleInv, MutexInv, FirstInv, Critical

LEMMA SettleNext == SettleInv /\ [Next]_vars => SettleInv'
<1> SUFFICES ASSUME SettleInv, [Next]_vars PROVE MutexInv' /\ FirstInv'
  BY TypeNext DEF SettleInv
<1>0. TypeInv
  BY DEF SettleInv
<1> USE NoRequestIsFree
    DEF SettleInv, TypeInv, TypeOK, MutexInv, FirstInv, Critical, Goto, Answer,
        Locals, Unlock, auctionLog, locals, advertisers, history
<1>1. ASSUME NEW h \in Requests, Quiet(h) PROVE MutexInv' /\ FirstInv'
  BY <1>1 DEF Quiet, Labels
<1>2. ASSUME NEW h \in Requests, LockSettle(h) PROVE MutexInv' /\ FirstInv'
  BY <1>2 DEF LockSettle, MutexFree
<1>3. ASSUME NEW h \in Requests, CheckFirstClick(h)
      PROVE  MutexInv' /\ FirstInv'
  BY <1>3 DEF CheckFirstClick, HasClickEvent
<1>4. ASSUME NEW h \in Requests, ReadPayment(h) PROVE MutexInv' /\ FirstInv'
  BY <1>4 DEF ReadPayment
<1>5. ASSUME NEW h \in Requests, ResolveKey(h) PROVE MutexInv' /\ FirstInv'
  BY <1>5 DEF ResolveKey
<1>6. ASSUME NEW h \in Requests, Charge(h) PROVE MutexInv' /\ FirstInv'
  BY <1>6 DEF Charge
<1>7. ASSUME NEW h \in Requests, ChargeFails(h) PROVE MutexInv' /\ FirstInv'
  BY <1>7 DEF ChargeFails
<1>8. ASSUME NEW h \in Requests, LogClick(h) PROVE MutexInv' /\ FirstInv'
  BY <1>8 DEF LogClick
<1>9. CASE Crash
  BY <1>9 DEF Crash
<1>10. CASE UNCHANGED <<pc, auctionOf, settleMu, clicked, billed>>
  BY <1>10
<1>11. QED
  BY <1>0, <1>1, <1>2, <1>3, <1>4, <1>5, <1>6, <1>7, <1>8, <1>9, <1>10,
     StepsSeenBySettlement DEF ClickStep

LEMMA SettleInvariant == Spec => []SettleInv
  BY SettleInit, SettleNext, PTL DEF Spec

(* A charge is made for one auction, and only before its first click.      *)
LEMMA ChargeBeforeClick ==
  ASSUME SettleInv, [Next]_vars, NEW a \in AuctionIds, billed'[a] # billed[a]
  PROVE  a \notin clicked
<1>0. TypeInv
  BY DEF SettleInv
<1>1. ASSUME NEW h \in Requests, Charge(h) PROVE a \notin clicked
  <2>1. auctionOf[h] \notin clicked
    BY <1>1 DEF Charge, SettleInv, FirstInv
  <2>2. a = auctionOf[h]
    BY <1>0, <1>1 DEF Charge, TypeInv, TypeOK
  <2>3. QED
    BY <2>1, <2>2
<1>2. CASE \E h \in Requests : Quiet(h) \/ LockSettle(h)
  BY <1>2 DEF Quiet, LockSettle, history
<1>3. ASSUME NEW h \in Requests, ClickStep(h) PROVE a \notin clicked
  BY <1>1, <1>3 DEF ClickStep, CheckFirstClick, ReadPayment, ResolveKey,
     ChargeFails, LogClick, history
<1>4. CASE Crash
  BY <1>4 DEF Crash, history
<1>5. QED
  BY <1>0, <1>2, <1>3, <1>4, StepsSeenBySettlement

(* Once a click of an auction is logged nobody is charged for it again:    *)
(* settleClick's check, charge and log are one section under settleMu.     *)
(* This holds whatever statements fail, and across crashes.                *)
THEOREM FirstClickTheorem == Spec => FirstClickOnly
<1>1. SettleInv /\ [Next]_vars
        => [\A a \in AuctionIds : billed'[a] # billed[a] => a \notin clicked]_vars
  BY ChargeBeforeClick
<1>2. QED
  BY <1>1, SettleInvariant, PTL DEF Spec, FirstClickOnly

-----------------------------------------------------------------------------
(***************************************************************************)
(* With no failing log and no crash, a charge is always followed by the    *)
(* log of its click, still inside the critical section.                    *)
(***************************************************************************)
OnceInv ==
  /\ SettleInv
  /\ ChargedAtMostOnce
  /\ \A a \in AuctionIds : billed[a] > 0 =>
       \/ a \in clicked
       \/ \E h \in Requests : pc[h] = "log" /\ auctionOf[h] = a

LEMMA OnceNext ==
  ASSUME "log" \notin Faults, "crash" \notin Operations
  PROVE  OnceInv /\ [Next]_vars => OnceInv'
<1> SUFFICES ASSUME OnceInv, [Next]_vars
             PROVE  ChargedAtMostOnce' /\
                    \A a \in AuctionIds : billed'[a] > 0 =>
                      \/ a \in clicked'
                      \/ \E h \in Requests : pc'[h] = "log" /\ auctionOf'[h] = a
  BY SettleNext DEF OnceInv
<1> DEFINE Goal == /\ ChargedAtMostOnce'
                   /\ \A a \in AuctionIds : billed'[a] > 0 =>
                        \/ a \in clicked'
                        \/ \E h \in Requests : /\ pc'[h] = "log"
                                               /\ auctionOf'[h] = a
<1>0. TypeInv
  BY DEF OnceInv, SettleInv
<1> USE DEF OnceInv, SettleInv, TypeInv, TypeOK, ChargedAtMostOnce, Critical,
            Goto, Answer, Locals, Unlock, auctionLog, locals, advertisers, history
<1>1. ASSUME NEW h \in Requests, Quiet(h) PROVE Goal
  BY <1>1 DEF Quiet, Labels
<1>2. ASSUME NEW h \in Requests, LockSettle(h) PROVE Goal
  BY <1>2 DEF LockSettle
<1>3. ASSUME NEW h \in Requests, CheckFirstClick(h) PROVE Goal
  BY <1>3 DEF CheckFirstClick
<1>4. ASSUME NEW h \in Requests, ReadPayment(h) PROVE Goal
  BY <1>4 DEF ReadPayment
<1>5. ASSUME NEW h \in Requests, ResolveKey(h) PROVE Goal
  BY <1>5 DEF ResolveKey
<1>6. ASSUME NEW h \in Requests, Charge(h) PROVE Goal
  <2>1. auctionOf[h] \notin clicked /\ auctionOf[h] \in AuctionIds
    BY <1>6 DEF Charge, FirstInv, LocalsOK, Clicking
  <2>2. \A g \in Requests : pc[g] # "log"
    BY <1>6 DEF Charge, MutexInv
  <2>3. billed[auctionOf[h]] = 0
    BY <2>1, <2>2
  <2>4. QED
    BY <1>6, <2>1, <2>3 DEF Charge
<1>7. ASSUME NEW h \in Requests, ChargeFails(h) PROVE Goal
  BY <1>7 DEF ChargeFails
<1>8. ASSUME NEW h \in Requests, LogClick(h) PROVE Goal
  BY <1>8 DEF LogClick
<1>9. CASE Crash
  BY <1>9 DEF Crash
<1>10. CASE UNCHANGED <<pc, auctionOf, settleMu, clicked, billed>>
  BY <1>10
<1>11. QED
  BY <1>0, <1>1, <1>2, <1>3, <1>4, <1>5, <1>6, <1>7, <1>8, <1>9, <1>10,
     StepsSeenBySettlement DEF ClickStep

(* When the click log cannot fail and the server does not crash, an        *)
(* auction is charged for at most once however requests interleave with    *)
(* updates, deletions, log resets and failing charges.                     *)
THEOREM ChargedAtMostOnceTheorem ==
  ASSUME "log" \notin Faults, "crash" \notin Operations
  PROVE  Spec => []ChargedAtMostOnce
<1>1. Init => OnceInv
  BY SettleInit DEF Init, OnceInv, ChargedAtMostOnce
<1>2. OnceInv /\ [Next]_vars => OnceInv'
  BY OnceNext
<1>3. OnceInv => ChargedAtMostOnce
  BY DEF OnceInv
<1>4. QED
  BY <1>1, <1>2, <1>3, PTL DEF Spec

-----------------------------------------------------------------------------
(***************************************************************************)
(* Tracker and table, as long as no budget was updated.  The ids of both   *)
(* were given out, so a registration takes ids neither has.  Between the   *)
(* row and Budgets.Set (pc[h] = "fund") the id is not tracked, nobody else *)
(* funds it, and its row, if it is still there, has the total asked for    *)
(* and nothing spent.                                                      *)
(***************************************************************************)
Updating == {"rewrite", "persist", "rebudget", "reset_spent"}
NoUpdate == \A h \in Requests : pc[h] \notin Updating
GivenOut == \A k \in tracked \cup rows : k < nextId
Funding(h) ==
  /\ idOf[h] < nextId /\ idOf[h] \notin tracked
  /\ idOf[h] \in rows => /\ budgetTotal[idOf[h]] = amountOf[h]
                         /\ budgetSpent[idOf[h]] = 0
  /\ \A g \in Requests : pc[g] = "fund" /\ idOf[g] = idOf[h] => g = h
Fundings == \A h \in Requests : pc[h] = "fund" => Funding(h)
Cached == \A k \in tracked \cap rows : /\ budgets[k] = budgetTotal[k]
                                       /\ spent[k] = budgetSpent[k]
Kept == \A k \in rows : /\ budgetSpent[k] = billedTo[k]
                        /\ billedTo[k] <= budgetTotal[k]
Funds == NoUpdate /\ GivenOut /\ Fundings /\ Cached /\ Kept
FundsInv == updates = 0 => Funds

LEMMA FundsInit == Init => FundsInv
  BY DEF Init, FundsInv, Funds, NoUpdate, Updating, GivenOut, Fundings, Funding,
     Cached, Kept

(* A step of h that leaves tracker and table alone and starts neither a    *)
(* registration nor an update.                                             *)
LEMMA FundsUntouched ==
  ASSUME TypeInv, Funds, NEW h \in Requests,
         \A g \in Requests : g # h => /\ pc'[g] = pc[g] /\ idOf'[g] = idOf[g]
                                      /\ amountOf'[g] = amountOf[g],
         pc'[h] \notin {"fund"} \cup Updating,
         UNCHANGED <<tracked, budgets, spent, rows, budgetTotal, budgetSpent,
                     billedTo, nextId>>
  PROVE  Funds'
<1>1. NoUpdate'
  BY DEF Funds, NoUpdate
<1>2. GivenOut' /\ Cached' /\ Kept'
  BY DEF Funds, GivenOut, Cached, Kept
<1>3. Fundings'
  BY DEF Funds, Fundings, Funding
<1>4. QED
  BY <1>1, <1>2, <1>3 DEF Funds

LEMMA FundsNext == TypeInv /\ FundsInv /\ [Next]_vars => FundsInv'
<1> SUFFICES ASSUME TypeInv, FundsInv, [Next]_vars, updates' = 0
             PROVE  Funds'
  BY DEF FundsInv
<1> DEFINE Alone(h) ==
      /\ \A g \in Requests : g # h => /\ pc'[g] = pc[g] /\ idOf'[g] = idOf[g]
                                      /\ amountOf'[g] = amountOf[g]
      /\ pc'[h] \notin {"fund"} \cup Updating
      /\ UNCHANGED <<tracked, budgets, spent, rows, budgetTotal, budgetSpent,
                     billedTo, nextId>>
<1> USE BoundsAreNumbers, AmountsAreNumbers
    DEF TypeInv, TypeOK, Locals, Accept, Answer, Goto, Unlock, SetBudget, memory,
        locals, tracker, advertisers, auctionLog, history, bounds
<1>0. ASSUME updates = 0 PROVE Funds
  BY <1>0 DEF FundsInv
<1>1. ASSUME NEW h \in Requests, updates = 0, Alone(h) PROVE Funds'
  BY <1>0, <1>1, FundsUntouched
<1>2. ASSUME NEW h \in Requests, NEW n \in GroupSizes, NEW total \in Totals,
             RegisterRows(h, n, total)
      PROVE  Funds'
  <2> DEFINE new == nextId .. nextId + n - 1
  <2>1. new \subseteq Ids /\ nextId \in 1 .. MaxId + 1
    BY <1>2 DEF RegisterRows, FirstNewId
  <2>2. nextId \in new /\ n \in Nat /\ n > 0
    BY <2>1, NewIds
  <2>3. updates = 0 /\ nextId' = nextId + n /\ tracked' = tracked
        /\ rows' = rows \cup new /\ budgets' = budgets /\ spent' = spent
    BY <1>2 DEF RegisterRows, FirstNewId
  <2>4. Funds
    BY <1>0, <2>3
  <2>5. \A k \in new : k >= nextId /\ k < nextId + n /\ k \notin tracked \cup rows
    BY <2>2, <2>1, <2>4 DEF Funds, GivenOut, Ids
  <2>6. \A k \in Ids \ new : /\ budgetTotal'[k] = budgetTotal[k]
                             /\ budgetSpent'[k] = budgetSpent[k]
                             /\ billedTo'[k] = billedTo[k]
    BY <1>2, <2>2 DEF RegisterRows, FirstNewId
  <2>7. \A k \in new : budgetSpent'[k] = 0 /\ billedTo'[k] = 0
                       /\ budgetTotal'[k] \in Nat
    BY <1>2, <2>1, <2>2 DEF RegisterRows, FirstNewId
  <2>8. budgetTotal'[nextId] = total
    BY <1>2, <2>1, <2>2 DEF RegisterRows, FirstNewId
  <2>9. /\ pc' = [pc EXCEPT ![h] = "fund"]
        /\ idOf' = [idOf EXCEPT ![h] = nextId]
        /\ amountOf' = [amountOf EXCEPT ![h] = total]
    BY <1>2 DEF RegisterRows, FirstNewId
  <2>10. NoUpdate'
    BY <2>4, <2>9 DEF Funds, NoUpdate, Updating
  <2>11. GivenOut'
    BY <2>1, <2>2, <2>3, <2>4, <2>5 DEF Funds, GivenOut, Ids
  <2>12. Cached'
    BY <2>3, <2>4, <2>5, <2>6 DEF Funds, Cached
  <2>13. Kept'
    BY <2>3, <2>4, <2>6, <2>7 DEF Funds, Kept
  <2>14. ASSUME NEW g \in Requests, pc'[g] = "fund" PROVE Funding(g)'
    <3>1. CASE g = h
      <4>1. idOf'[g] = nextId /\ amountOf'[g] = total
        BY <2>9, <3>1
      <4>2. nextId < nextId' /\ nextId \notin tracked'
        BY <2>1, <2>2, <2>3, <2>5
      <4>3. ASSUME NEW f \in Requests, pc'[f] = "fund", idOf'[f] = nextId, f # h
            PROVE  FALSE
        BY <2>1, <2>4, <2>9, <4>3 DEF Funds, Fundings, Funding, Ids
      <4>4. QED
        BY <2>2, <2>7, <2>8, <3>1, <4>1, <4>2, <4>3 DEF Funding
    <3>2. CASE g # h
      <4>1. /\ pc[g] = "fund" /\ idOf'[g] = idOf[g] /\ amountOf'[g] = amountOf[g]
            /\ Funding(g)
        BY <2>4, <2>9, <2>14, <3>2 DEF Funds, Fundings
      <4>2. idOf[g] < nextId /\ idOf[g] \in Ids
        BY <4>1 DEF Funding, LocalsOK
      <4>3. idOf[g] \in Ids \ new /\ idOf[g] < nextId'
        <5>1. idOf[g] \in Nat /\ nextId \in Nat /\ n \in Nat
          BY <2>1, <2>2, <4>2 DEF Ids
        <5>2. idOf[g] \notin new
          BY <2>5, <4>2, <5>1
        <5>3. QED
          BY <2>3, <4>2, <5>1, <5>2
      <4>4. ASSUME NEW f \in Requests, pc'[f] = "fund", idOf'[f] = idOf[g]
            PROVE  f = g
        <5>1. f # h
          BY <2>1, <2>9, <4>2, <4>4 DEF Ids
        <5>2. pc[f] = "fund" /\ idOf[f] = idOf[g]
          BY <2>9, <4>4, <5>1
        <5>3. QED
          BY <4>1, <5>2 DEF Funding
      <4>5. QED
        BY <2>3, <2>6, <4>1, <4>3, <4>4 DEF Funding
    <3>3. QED
      BY <3>1, <3>2
  <2>15. QED
    BY <2>10, <2>11, <2>12, <2>13, <2>14 DEF Funds, Fundings
<1>3. ASSUME NEW h \in Requests, NEW n \in GroupSizes, RegisterFails(h, n)
      PROVE  Funds'
  <2>1. updates = 0 /\ nextId \in 1 .. MaxId + 1
        /\ nextId .. nextId + n - 1 \subseteq Ids
    BY <1>3 DEF RegisterFails
  <2>2. n \in Nat /\ nextId' = nextId + n
    BY <1>3, <2>1, NewIds DEF RegisterFails
  <2>3. UNCHANGED <<tracked, budgets, spent, rows, budgetTotal, budgetSpent,
                    billedTo, pc, idOf, amountOf>>
    BY <1>3 DEF RegisterFails
  <2>4. GivenOut'
    BY <1>0, <2>1, <2>2, <2>3 DEF Funds, GivenOut, Ids
  <2>5. ASSUME NEW g \in Requests, pc[g] = "fund" PROVE Funding(g)'
    <3>1. Funding(g) /\ idOf[g] \in Ids
      BY <1>0, <2>1, <2>5 DEF Funds, Fundings, LocalsOK
    <3>2. idOf[g] < nextId'
      BY <2>1, <2>2, <3>1 DEF Funding, Ids
    <3>3. QED
      BY <2>3, <3>1, <3>2 DEF Funding
  <2>6. QED
    BY <1>0, <2>1, <2>3, <2>4, <2>5
    DEF Funds, NoUpdate, Fundings, Cached, Kept
<1>4. ASSUME NEW h \in Requests, FundBudget(h) PROVE Funds'
  <2> DEFINE k == idOf[h]
  <2>1. Funds /\ pc[h] = "fund" /\ Funding(h) /\ k \in Ids
    BY <1>0, <1>4 DEF FundBudget, Funds, Fundings, LocalsOK
  <2>2. /\ tracked' = tracked \cup {k}
        /\ budgets' = [budgets EXCEPT ![k] = amountOf[h]]
        /\ spent' = [spent EXCEPT ![k] = 0]
        /\ UNCHANGED <<nextId, rows, budgetTotal, budgetSpent, billedTo>>
    BY <1>4 DEF FundBudget
  <2>3. /\ pc' = [pc EXCEPT ![h] = "idle"]
        /\ \A g \in Requests : g # h => /\ idOf'[g] = idOf[g]
                                        /\ amountOf'[g] = amountOf[g]
    BY <1>4 DEF FundBudget
  <2>4. NoUpdate' /\ GivenOut' /\ Kept'
    BY <2>1, <2>2, <2>3 DEF Funds, NoUpdate, Updating, GivenOut, Kept, Funding
  <2>5. Cached'
    BY <2>1, <2>2 DEF Funds, Cached, Funding
  <2>6. ASSUME NEW g \in Requests, pc'[g] = "fund" PROVE Funding(g)'
    <3>1. g # h /\ pc[g] = "fund"
      BY <2>3, <2>6
    <3>2. Funding(g) /\ idOf[g] # k
      BY <2>1, <3>1 DEF Funds, Fundings, Funding
    <3>3. QED
      BY <2>2, <2>3, <3>1, <3>2 DEF Funding
  <2>7. QED
    BY <2>4, <2>5, <2>6 DEF Funds, Fundings
<1>5. ASSUME NEW h \in Requests, NEW id \in Ids, NEW total \in Totals,
             UpdateRead(h, id, total)
      PROVE  Funds'
  BY <1>5 DEF UpdateRead
<1>6. ASSUME NEW h \in Requests,
             \/ UpdateMemory(h) \/ UpdateRow(h)
             \/ UpdateBudgetRow(h) \/ UpdateTracker(h)
      PROVE  Funds'
  <2>1. updates = 0 /\ pc[h] \in Updating
    BY <1>6 DEF UpdateMemory, UpdateRow, UpdateBudgetRow, UpdateTracker, Updating
  <2>2. QED
    BY <1>0, <2>1 DEF Funds, NoUpdate
<1>7. ASSUME NEW h \in Requests, NEW id \in Ids, DeletePositions(h, id)
      PROVE  Funds'
  <2>1. Alone(h) /\ updates = 0
    BY <1>7 DEF DeletePositions, Updating
  <2>2. QED
    BY <1>1, <2>1
<1>8. ASSUME NEW h \in Requests, DeleteRow(h) PROVE Funds'
  <2>1. /\ updates = 0 /\ pc[h] = "delete_rows"
        /\ UNCHANGED <<nextId, tracked, budgets, spent, billedTo>>
    BY <1>8 DEF DeleteRow
  <2>2. CASE Answer(h) /\ UNCHANGED <<rows, budgetTotal, budgetSpent>>
    <3>1. Alone(h)
      BY <2>1, <2>2 DEF Updating
    <3>2. QED
      BY <1>1, <2>1, <3>1
  <2>3. ASSUME NEW id \in doomed[h],
               /\ rows' = rows \ {id}
               /\ budgetTotal' = [budgetTotal EXCEPT ![id] = 0]
               /\ budgetSpent' = [budgetSpent EXCEPT ![id] = 0]
               /\ Locals(h, 0, idOf[h], 0, doomed[h] \ {id})
               /\ Goto(h, IF doomed[h] = {id} THEN "delete_budget"
                          ELSE "delete_rows")
        PROVE  Funds'
    <3>1. Funds /\ id \in Ids
      BY <1>0, <2>1
    <3>2. \A k \in Ids : k # id => /\ budgetTotal'[k] = budgetTotal[k]
                                   /\ budgetSpent'[k] = budgetSpent[k]
      BY <2>3
    <3>3. /\ pc'[h] \in {"delete_budget", "delete_rows"}
          /\ \A g \in Requests : g # h => /\ pc'[g] = pc[g] /\ idOf'[g] = idOf[g]
                                          /\ amountOf'[g] = amountOf[g]
      BY <2>3
    <3>4. NoUpdate'
      BY <3>1, <3>3 DEF Funds, NoUpdate, Updating
    <3>5. GivenOut' /\ Cached' /\ Kept'
      BY <2>1, <2>3, <3>1, <3>2 DEF Funds, GivenOut, Cached, Kept
    <3>6. ASSUME NEW g \in Requests, pc'[g] = "fund" PROVE Funding(g)'
      <4>1. g # h /\ pc[g] = "fund" /\ Funding(g)
        BY <3>1, <3>3, <3>6 DEF Funds, Fundings
      <4>2. idOf[g] \in rows' => idOf[g] \in rows /\ idOf[g] # id /\ idOf[g] \in Ids
        BY <2>3
      <4>3. \A f \in Requests : pc'[f] = "fund" => f # h /\ pc[f] = "fund"
        BY <3>3
      <4>4. QED
        BY <2>1, <3>2, <3>3, <4>1, <4>2, <4>3 DEF Funding
    <3>7. QED
      BY <3>4, <3>5, <3>6 DEF Funds, Fundings
  <2>4. QED
    BY <1>8, <2>2, <2>3 DEF DeleteRow
<1>9. ASSUME NEW h \in Requests, DeleteBudget(h) PROVE Funds'
  <2> DEFINE k == idOf[h]
  <2>1. Funds /\ k \in Ids /\ pc[h] = "delete_budget"
    BY <1>0, <1>9 DEF DeleteBudget, LocalsOK
  <2>2. /\ tracked' = tracked \ {k}
        /\ \A i \in Ids : i # k => budgets'[i] = budgets[i] /\ spent'[i] = spent[i]
        /\ UNCHANGED <<nextId, rows, budgetTotal, budgetSpent, billedTo>>
    BY <1>9 DEF DeleteBudget
  <2>3. /\ pc' = [pc EXCEPT ![h] = "idle"]
        /\ \A g \in Requests : g # h => /\ idOf'[g] = idOf[g]
                                        /\ amountOf'[g] = amountOf[g]
    BY <1>9 DEF DeleteBudget
  <2>4. NoUpdate' /\ GivenOut' /\ Kept'
    BY <2>1, <2>2, <2>3 DEF Funds, NoUpdate, Updating, GivenOut, Kept
  <2>5. Cached'
    BY <2>1, <2>2 DEF Funds, Cached
  <2>6. ASSUME NEW g \in Requests, pc'[g] = "fund" PROVE Funding(g)'
    <3>1. g # h /\ pc[g] = "fund" /\ Funding(g)
      BY <2>1, <2>3, <2>6 DEF Funds, Fundings
    <3>2. \A f \in Requests : pc'[f] = "fund" => f # h /\ pc[f] = "fund"
      BY <2>3
    <3>3. QED
      BY <2>2, <2>3, <3>1, <3>2 DEF Funding
  <2>7. QED
    BY <2>4, <2>5, <2>6 DEF Funds, Fundings
<1>10. ASSUME NEW h \in Requests, NEW id \in Ids, NEW payment \in Payments,
              WinAuction(h, id, payment)
       PROVE  Funds'
  <2>1. Alone(h) /\ updates = 0
    BY <1>10 DEF WinAuction, Updating
  <2>2. QED
    BY <1>1, <2>1
<1>11. ASSUME NEW h \in Requests, NEW a \in AuctionIds, ClickArrives(h, a)
       PROVE  Funds'
  <2>1. Alone(h) /\ updates = 0
    BY <1>11 DEF ClickArrives, Updating
  <2>2. QED
    BY <1>1, <2>1
<1>12. ASSUME NEW h \in Requests, RecordAuction(h) PROVE Funds'
  <2>1. Alone(h) /\ updates = 0
    BY <1>12 DEF RecordAuction, Updating
  <2>2. QED
    BY <1>1, <2>1
<1>13. ASSUME NEW h \in Requests, LockSettle(h) \/ CheckFirstClick(h)
       PROVE  Funds'
  <2>1. Alone(h) /\ updates = 0
    BY <1>13 DEF LockSettle, CheckFirstClick, Updating
  <2>2. QED
    BY <1>1, <2>1
<1>14. ASSUME NEW h \in Requests, ReadPayment(h) PROVE Funds'
  <2>1. Alone(h) /\ updates = 0
    BY <1>14 DEF ReadPayment, Updating
  <2>2. QED
    BY <1>1, <2>1
<1>15. ASSUME NEW h \in Requests, ResolveKey(h) PROVE Funds'
  <2>1. Alone(h) /\ updates = 0
    BY <1>15 DEF ResolveKey, Updating
  <2>2. QED
    BY <1>1, <2>1
<1>16. ASSUME NEW h \in Requests, Charge(h) PROVE Funds'
  <2> DEFINE k == idOf[h]
             amount == amountOf[h]
  <2>1. Funds /\ k \in tracked \cap rows /\ k \in Ids
    BY <1>0, <1>16 DEF Charge, CanAfford
  <2>2. /\ budgets[k] = budgetTotal[k] /\ spent[k] = budgetSpent[k]
        /\ budgetSpent[k] = billedTo[k]
    BY <2>1 DEF Funds, Cached, Kept
  <2>3. RowCanPay(k, amount)
    BY <1>16, <2>2 DEF Charge, CanAfford, RowCanPay
  <2>4. /\ spent' = [spent EXCEPT ![k] = @ + amount]
        /\ budgetSpent' = [budgetSpent EXCEPT ![k] = @ + amount]
        /\ billedTo' = [billedTo EXCEPT ![k] = @ + amount]
        /\ UNCHANGED <<nextId, tracked, budgets, rows, budgetTotal, idOf, amountOf>>
        /\ pc' = [pc EXCEPT ![h] = "log"]
    BY <1>16, <2>3 DEF Charge, Debited
  <2>5. NoUpdate' /\ GivenOut'
    BY <2>1, <2>4 DEF Funds, NoUpdate, Updating, GivenOut
  <2>6. Cached'
    BY <2>1, <2>2, <2>4 DEF Funds, Cached
  <2>7. Kept'
    <3>1. budgetSpent'[k] = billedTo'[k] /\ billedTo'[k] <= budgetTotal'[k]
      BY <2>1, <2>2, <2>3, <2>4 DEF RowCanPay
    <3>2. ASSUME NEW i \in rows, i # k
          PROVE  budgetSpent'[i] = billedTo'[i] /\ billedTo'[i] <= budgetTotal'[i]
      BY <2>1, <2>4, <3>2 DEF Funds, Kept
    <3>3. QED
      BY <2>4, <3>1, <3>2 DEF Kept
  <2>8. ASSUME NEW g \in Requests, pc'[g] = "fund" PROVE Funding(g)'
    <3>1. pc[g] = "fund" /\ Funding(g)
      BY <2>1, <2>4, <2>8 DEF Funds, Fundings
    <3>2. idOf[g] # k
      BY <2>1, <3>1 DEF Funding
    <3>3. idOf[g] \in rows => budgetSpent'[idOf[g]] = budgetSpent[idOf[g]]
      BY <2>4, <3>2
    <3>4. \A f \in Requests : pc'[f] = "fund" => pc[f] = "fund"
      BY <2>4
    <3>5. QED
      BY <2>4, <3>1, <3>3, <3>4 DEF Funding
  <2>9. QED
    BY <2>5, <2>6, <2>7, <2>8 DEF Funds, Fundings
<1>17. ASSUME NEW h \in Requests, ChargeFails(h) PROVE Funds'
  <2>1. Alone(h) /\ updates = 0
    BY <1>17 DEF ChargeFails, RolledBack, Updating
  <2>2. QED
    BY <1>1, <2>1
<1>18. ASSUME NEW h \in Requests, LogClick(h) PROVE Funds'
  <2>1. Alone(h) /\ updates = 0
    BY <1>18 DEF LogClick, Updating
  <2>2. QED
    BY <1>1, <2>1
<1>19. CASE ResetStats \/ UNCHANGED vars
  <2>1. UNCHANGED <<pc, idOf, amountOf, tracked, budgets, spent, rows,
                    budgetTotal, budgetSpent, billedTo, nextId, updates>>
    BY <1>19 DEF ResetStats, vars
  <2>2. QED
    BY <1>0, <2>1 DEF Funds, NoUpdate, GivenOut, Fundings, Funding, Cached, Kept
<1>20. CASE Crash
  <2>1. Funds
    BY <1>0, <1>20 DEF Crash
  <2>2. /\ tracked' = rows /\ rows' = rows
        /\ budgets' = budgetTotal /\ spent' = budgetSpent
        /\ UNCHANGED <<budgetTotal, budgetSpent, billedTo>>
        /\ \A h \in Requests : pc'[h] = "idle"
        /\ \A k \in rows : k < nextId'
    BY <1>20 DEF Crash
  <2>3. QED
    BY <2>1, <2>2 DEF Funds, NoUpdate, Updating, GivenOut, Fundings, Cached, Kept
<1>21. QED
  BY <1>2, <1>3, <1>4, <1>5, <1>6, <1>7, <1>8, <1>9, <1>10, <1>11, <1>12, <1>13,
     <1>14, <1>15, <1>16, <1>17, <1>18, <1>19, <1>20
  DEF Next, Arrival, Step, ClickStep

LEMMA FundsInvariant == Spec => [](TypeInv /\ FundsInv)
  BY TypeInit, TypeNext, FundsInit, FundsNext, PTL DEF Spec

(* Until the first budget update the tracker's copy of totals and amounts  *)
(* spent is the table's, for every id both know: over charges that fail,   *)
(* deletions and crashes.                                                  *)
THEOREM CacheTheorem == Spec => []CacheMatchesTable
<1>1. FundsInv => CacheMatchesTable
  BY DEF FundsInv, Funds, Cached, CacheMatchesTable
<1>2. QED
  BY <1>1, FundsInvariant, PTL

(* Until then the row of an advertiser has exactly what clicks were        *)
(* charged to it, and never more than its total.                           *)
THEOREM DurableTheorem == Spec => []ChargesAreDurable
<1>1. FundsInv => ChargesAreDurable
  BY DEF FundsInv, Funds, Kept, ChargesAreDurable
<1>2. QED
  BY <1>1, FundsInvariant, PTL

-----------------------------------------------------------------------------
(***************************************************************************)
(* No free clicks.  A request about to log a click of an auction on record *)
(* that owes a payment has charged it, or found its click; and clicks and  *)
(* requests only know auctions up to lastAuction, so that the next one is  *)
(* recorded without a click.                                               *)
(***************************************************************************)
Paid(a) == a \in auctions /\ won[a].payment > 0 => billed[a] > 0
Logging == \A h \in Requests : pc[h] = "log" => Paid(auctionOf[h])
Handed == /\ \A a \in auctions \cup clicked : a <= lastAuction
          /\ \A h \in Requests : pc[h] \in Clicking => auctionOf[h] <= lastAuction
Free == ClickedWasBilled /\ Logging /\ Handed

(* A step of h outside settlement that records no auction.                 *)
LEMMA FreeUntouched ==
  ASSUME TypeInv, Free, NEW h \in Requests,
         \A g \in Requests : g # h => /\ pc'[g] = pc[g]
                                      /\ auctionOf'[g] = auctionOf[g],
         pc'[h] \notin Clicking,
         UNCHANGED <<auctions, lastAuction, won, clicked, billed>>
  PROVE  Free'
BY DEF Free, ClickedWasBilled, Logging, Handed, Paid, Clicking, Critical

LEMMA FreeNext ==
  ASSUME "read" \notin Faults
  PROVE  TypeInv /\ Free /\ [Next]_vars => Free'
<1> SUFFICES ASSUME TypeInv, Free, [Next]_vars PROVE Free'
  OBVIOUS
<1> DEFINE Alone(h) ==
      /\ \A g \in Requests : g # h => /\ pc'[g] = pc[g]
                                      /\ auctionOf'[g] = auctionOf[g]
      /\ pc'[h] \notin Clicking
      /\ UNCHANGED <<auctions, lastAuction, won, clicked, billed>>
<1> USE DEF TypeInv, TypeOK, Locals, Accept, Answer, Goto, Unlock, memory, locals,
        tracker, advertisers, auctionLog, history, bounds
<1>1. ASSUME NEW h \in Requests, Alone(h) PROVE Free'
  BY <1>1, FreeUntouched
<1>2. ASSUME NEW h \in Requests, NEW n \in GroupSizes, NEW total \in Totals,
             RegisterRows(h, n, total)
      PROVE  Free'
  BY <1>1, <1>2 DEF RegisterRows, Clicking, Critical
<1>3. ASSUME NEW h \in Requests, NEW id \in Ids,
             \/ \E total \in Totals : UpdateRead(h, id, total)
             \/ DeletePositions(h, id)
             \/ \E payment \in Payments : WinAuction(h, id, payment)
      PROVE  Free'
  BY <1>1, <1>3 DEF UpdateRead, DeletePositions, WinAuction, Clicking, Critical
<1>4. ASSUME NEW h \in Requests,
             \/ FundBudget(h) \/ UpdateMemory(h) \/ UpdateRow(h)
             \/ UpdateBudgetRow(h) \/ UpdateTracker(h)
      PROVE  Free'
  BY <1>1, <1>4 DEF FundBudget, UpdateMemory, UpdateRow, UpdateBudgetRow,
     UpdateTracker, Clicking, Critical
<1>5. ASSUME NEW h \in Requests, DeleteRow(h) \/ DeleteBudget(h) PROVE Free'
  BY <1>1, <1>5 DEF DeleteRow, DeleteBudget, Clicking, Critical
<1>6. ASSUME NEW h \in Requests, NEW n \in GroupSizes, RegisterFails(h, n)
      PROVE  Free'
  BY <1>6 DEF RegisterFails, Free, ClickedWasBilled, Logging, Handed, Paid
<1>7. ASSUME NEW h \in Requests, RecordAuction(h) PROVE Free'
  <2> DEFINE a == lastAuction + 1
  <2>1. CASE UNCHANGED <<lastAuction, auctions, won>>
    BY <1>1, <1>7, <2>1 DEF RecordAuction, Clicking, Critical
  <2>2. CASE /\ lastAuction < MaxAuctions /\ lastAuction' = a
             /\ auctions' = auctions \cup {a}
             /\ won' = [won EXCEPT ![a] = [winner |-> idOf[h],
                                           payment |-> amountOf[h]]]
    <3>1. a \notin clicked /\ a \in AuctionIds /\ lastAuction \in Nat
      BY <2>2, BoundsAreNumbers DEF Free, Handed, AuctionIds
    <3>2. /\ \A b \in AuctionIds : b # a => won'[b] = won[b]
          /\ UNCHANGED <<clicked, billed>>
      BY <1>7, <2>2 DEF RecordAuction
    <3>3. /\ pc'[h] \notin Clicking
          /\ \A g \in Requests : g # h => /\ pc'[g] = pc[g]
                                          /\ auctionOf'[g] = auctionOf[g]
      BY <1>7 DEF RecordAuction, Clicking, Critical
    <3>4. ASSUME NEW g \in Requests, pc'[g] \in Clicking
          PROVE  /\ g # h /\ pc[g] \in Clicking /\ auctionOf'[g] = auctionOf[g]
                 /\ auctionOf[g] <= lastAuction /\ auctionOf[g] \in AuctionIds
      BY <3>3, <3>4 DEF Free, Handed, LocalsOK
    <3>5. ClickedWasBilled'
      BY <2>2, <3>1, <3>2 DEF Free, ClickedWasBilled
    <3>6. Logging'
      <4>1. ASSUME NEW g \in Requests, pc'[g] = "log" PROVE Paid(auctionOf[g])'
        <5>1. /\ g # h /\ pc[g] = "log" /\ auctionOf'[g] = auctionOf[g]
              /\ auctionOf[g] <= lastAuction /\ auctionOf[g] \in AuctionIds
          BY <3>3, <3>4, <4>1 DEF Clicking, Critical
        <5>2. auctionOf[g] # a
          BY <3>1, <5>1 DEF AuctionIds
        <5>3. QED
          BY <2>2, <3>2, <5>1, <5>2 DEF Free, Logging, Paid
      <4>2. QED
        BY <4>1 DEF Logging
    <3>7. Handed'
      BY <2>2, <3>1, <3>2, <3>4 DEF Free, Handed, AuctionIds
    <3>8. QED
      BY <3>5, <3>6, <3>7 DEF Free
  <2>3. QED
    BY <1>7, <2>1, <2>2 DEF RecordAuction
<1>8. CASE ResetStats
  BY <1>8 DEF ResetStats, Free, ClickedWasBilled, Logging, Handed, Paid
<1>9. ASSUME NEW h \in Requests, NEW a \in AuctionIds, ClickArrives(h, a)
      PROVE  Free'
  BY <1>9 DEF ClickArrives, Free, ClickedWasBilled, Logging, Handed, Paid,
     Clicking, Critical
<1>10. ASSUME NEW h \in Requests, LockSettle(h) PROVE Free'
  BY <1>10 DEF LockSettle, Free, ClickedWasBilled, Logging, Handed, Paid,
     Clicking, Critical
<1>11. ASSUME NEW h \in Requests, CheckFirstClick(h) PROVE Free'
  BY <1>11 DEF CheckFirstClick, HasClickEvent, Free, ClickedWasBilled, Logging,
     Handed, Paid, Clicking, Critical
<1>12. ASSUME NEW h \in Requests, ReadPayment(h) PROVE Free'
  BY <1>12 DEF ReadPayment, Owes, Free, ClickedWasBilled, Logging, Handed, Paid,
     LocalsOK, Clicking, Critical
<1>13. ASSUME NEW h \in Requests, ResolveKey(h) PROVE Free'
  BY <1>13 DEF ResolveKey, Free, ClickedWasBilled, Logging, Handed, Paid,
     Clicking, Critical
<1>14. ASSUME NEW h \in Requests, Charge(h) PROVE Free'
  <2>1. auctionOf[h] \in AuctionIds
    BY <1>14 DEF Charge, LocalsOK, Clicking, Critical
  <2>2. /\ billed' = [billed EXCEPT ![auctionOf[h]] = @ + 1]
        /\ pc' = [pc EXCEPT ![h] = "log"]
        /\ UNCHANGED <<auctionOf, auctions, lastAuction, won, clicked>>
    BY <1>14 DEF Charge
  <2>3. \A a \in AuctionIds : billed'[a] >= billed[a]
    BY <2>1, <2>2
  <2>4. ClickedWasBilled'
    BY <2>2, <2>3 DEF Free, ClickedWasBilled
  <2>5. Logging'
    BY <2>1, <2>2, <2>3 DEF Free, Logging, Paid
  <2>6. Handed'
    BY <1>14, <2>2 DEF Charge, Free, Handed, Clicking, Critical
  <2>7. QED
    BY <2>4, <2>5, <2>6 DEF Free
<1>15. ASSUME NEW h \in Requests, ChargeFails(h) PROVE Free'
  BY <1>1, <1>15 DEF ChargeFails, Clicking, Critical
<1>16. ASSUME NEW h \in Requests, LogClick(h) PROVE Free'
  BY <1>16 DEF LogClick, Free, ClickedWasBilled, Logging, Handed, Paid, Clicking,
     Critical
<1>17. CASE Crash
  BY <1>17 DEF Crash, Free, ClickedWasBilled, Logging, Handed, Paid, Clicking,
     Critical
<1>18. CASE UNCHANGED vars
  BY <1>18 DEF vars, Free, ClickedWasBilled, Logging, Handed, Paid
<1>19. QED
  BY <1>2, <1>3, <1>4, <1>5, <1>6, <1>7, <1>8, <1>9, <1>10, <1>11, <1>12, <1>13,
     <1>14, <1>15, <1>16, <1>17, <1>18 DEF Next, Arrival, Step, ClickStep

(* As long as the queries of settleClick do not fail, an auction that owes *)
(* a payment, is on record and has a logged click has been charged for:    *)
(* over failing charges and logs, log resets, deletions and crashes.       *)
THEOREM NoFreeClicks ==
  ASSUME "read" \notin Faults
  PROVE  Spec => []ClickedWasBilled
<1>1. Init => Free
  BY DEF Init, Free, ClickedWasBilled, Logging, Handed, Paid, Clicking, Critical
<1>2. TypeInv /\ Free /\ [Next]_vars => Free'
  BY FreeNext
<1>3. Free => ClickedWasBilled
  BY DEF Free
<1>4. QED
  BY <1>1, <1>2, <1>3, TypeInvariant, PTL DEF Spec

-----------------------------------------------------------------------------
(***************************************************************************)
(* Ids without restarts.  The next id is above every id in memory, every   *)
(* id a request is about to write down, and every winner on record.        *)
(***************************************************************************)
Below ==
  /\ \A k \in positions : k < nextId
  /\ \A h \in Requests : pc[h] \in {"record", "rewrite"} => idOf[h] < nextId
  /\ \A a \in AuctionIds : won[a].winner < nextId

LEMMA BelowNext ==
  ASSUME "crash" \notin Operations
  PROVE  TypeInv /\ Below /\ [Next]_vars => Below'
<1> SUFFICES ASSUME TypeInv, Below, [Next]_vars PROVE Below'
  OBVIOUS
<1> USE BoundsAreNumbers
    DEF TypeInv, TypeOK, Locals, Accept, Answer, Goto, Unlock, memory, locals,
        tracker, advertisers, auctionLog, history, bounds
<1>0. /\ \A g \in Requests : pc[g] \in {"record", "rewrite"} =>
                              idOf[g] \in Nat /\ idOf[g] < nextId
      /\ \A a \in AuctionIds : won[a].winner \in Nat /\ won[a].winner < nextId
  <2>1. \A g \in Requests : pc[g] # "idle" => idOf[g] \in Nat
    BY DEF LocalsOK, Ids
  <2>2. \A a \in AuctionIds : won[a].winner \in Ids \cup {0}
    OBVIOUS
  <2>3. QED
    BY <2>1, <2>2 DEF Below, Ids
<1>1. ASSUME NEW h \in Requests, NEW n \in GroupSizes, NEW total \in Totals,
             RegisterRows(h, n, total)
      PROVE  Below'
  <2> DEFINE new == nextId .. nextId + n - 1
  <2>1. new \subseteq Ids /\ nextId \in 1 .. MaxId + 1
    BY <1>1 DEF RegisterRows, FirstNewId
  <2>2. n \in Nat /\ n > 0 /\ nextId \in Nat
    BY <2>1, NewIds
  <2>3. /\ nextId' = nextId + n /\ positions' = positions \cup new /\ won' = won
        /\ pc' = [pc EXCEPT ![h] = "fund"]
        /\ \A g \in Requests : g # h => idOf'[g] = idOf[g]
    BY <1>1 DEF RegisterRows, FirstNewId
  <2>4. \A a \in AuctionIds : won[a].winner \notin new /\ won[a].winner < nextId'
    BY <2>2, <2>3 DEF Below, Ids
  <2>5. \A k \in positions' : k < nextId'
    BY <2>1, <2>2, <2>3 DEF Below, Ids
  <2>6. \A g \in Requests : pc'[g] \in {"record", "rewrite"} => idOf'[g] < nextId'
    BY <1>0, <2>2, <2>3
  <2>7. QED
    BY <2>3, <2>4, <2>5, <2>6 DEF Below
<1>2. ASSUME NEW h \in Requests, NEW n \in GroupSizes, RegisterFails(h, n)
      PROVE  Below'
  <2> DEFINE new == nextId .. nextId + n - 1
  <2>1. new \subseteq Ids /\ nextId \in 1 .. MaxId + 1
    BY <1>2 DEF RegisterFails
  <2>2. n \in Nat /\ n > 0 /\ nextId \in Nat
    BY <2>1, NewIds
  <2>3. /\ nextId' = nextId + n /\ positions' \subseteq positions \cup new
        /\ UNCHANGED <<won, pc, idOf>>
    BY <1>2 DEF RegisterFails
  <2>4. \A k \in positions' : k < nextId'
    BY <2>1, <2>2, <2>3 DEF Below, Ids
  <2>5. \A g \in Requests : pc'[g] \in {"record", "rewrite"} => idOf'[g] < nextId'
    BY <1>0, <2>2, <2>3
  <2>6. \A a \in AuctionIds : won'[a].winner < nextId'
    BY <1>0, <2>2, <2>3
  <2>7. QED
    BY <2>3, <2>4, <2>5, <2>6 DEF Below
<1>3. ASSUME NEW h \in Requests, NEW id \in Ids,
             \/ \E total \in Totals : UpdateRead(h, id, total)
             \/ \E payment \in Payments : WinAuction(h, id, payment)
      PROVE  Below'
  BY <1>3 DEF UpdateRead, WinAuction, Below
<1>4. ASSUME NEW h \in Requests, NEW id \in Ids, DeletePositions(h, id)
      PROVE  Below'
  BY <1>4 DEF DeletePositions, Below
<1>5. ASSUME NEW h \in Requests, UpdateMemory(h) PROVE Below'
  BY <1>5 DEF UpdateMemory, Below
<1>6. ASSUME NEW h \in Requests,
             \/ FundBudget(h) \/ UpdateRow(h) \/ UpdateBudgetRow(h)
             \/ UpdateTracker(h) \/ DeleteRow(h) \/ DeleteBudget(h)
      PROVE  Below'
  BY SMTT(40), <1>6 DEF FundBudget, UpdateRow, UpdateBudgetRow, UpdateTracker, DeleteRow,
     DeleteBudget, Below
<1>7. ASSUME NEW h \in Requests, RecordAuction(h) PROVE Below'
  <2>1. idOf[h] < nextId /\ idOf[h] \in Ids
    BY <1>7 DEF RecordAuction, Below, LocalsOK
  <2>2. \A a \in AuctionIds : won'[a].winner < nextId
    BY <1>7, <2>1 DEF RecordAuction, Below
  <2>3. QED
    BY <1>7, <2>2 DEF RecordAuction, Below
<1>8. CASE ResetStats \/ UNCHANGED vars
  BY <1>8 DEF ResetStats, vars, Below
<1>9. ASSUME NEW h \in Requests,
             \/ \E a \in AuctionIds : ClickArrives(h, a)
             \/ LockSettle(h) \/ CheckFirstClick(h) \/ ReadPayment(h)
             \/ ResolveKey(h)
      PROVE  Below'
  BY SMTT(40), <1>9 DEF ClickArrives, LockSettle, CheckFirstClick, ReadPayment, ResolveKey,
     Below
<1>10. ASSUME NEW h \in Requests, Charge(h) \/ ChargeFails(h) \/ LogClick(h)
       PROVE  Below'
  <2>1. /\ UNCHANGED <<positions, nextId, won>>
        /\ \A g \in Requests : g # h => pc'[g] = pc[g] /\ idOf'[g] = idOf[g]
    BY <1>10 DEF Charge, ChargeFails, LogClick
  <2>2. pc'[h] \notin {"record", "rewrite"}
    <3>1. CASE Charge(h)
      BY <3>1 DEF Charge
    <3>2. CASE ChargeFails(h)
      BY <3>2 DEF ChargeFails
    <3>3. CASE LogClick(h)
      BY <3>3 DEF LogClick
    <3>4. QED
      BY <1>10, <3>1, <3>2, <3>3
  <2>3. QED
    BY <2>1, <2>2 DEF Below
<1>11. QED
  BY <1>1, <1>2, <1>3, <1>4, <1>5, <1>6, <1>7, <1>8, <1>9, <1>10
  DEF Next, Arrival, Step, ClickStep, Crash

-----------------------------------------------------------------------------
(***************************************************************************)
(* The budget a click is charged to.  From ClickArrives to ResolveKey a    *)
(* click holds the winner of its auction, and from then on the key the     *)
(* winner spends from, as long as the winner is registered.  This lasts    *)
(* because an auction on record keeps its winner, and a registered         *)
(* position its key: both are written once, for an auction and an id that  *)
(* are new.  A restart (which may give the winner's id out again) and a    *)
(* budget update (which may store a position again that a deletion just    *)
(* took) are the two steps that break it.                                  *)
(***************************************************************************)
NobodyUpdates == \A h \in Requests : pc[h] # "rewrite"
Recorded ==
  /\ \A a \in auctions : a <= lastAuction
  /\ \A h \in Requests : pc[h] \in Clicking => auctionOf[h] <= lastAuction
WonBy(h) == won[auctionOf[h]].winner
HoldsWinner(h) ==
  pc[h] \in {"lock", "dedup", "price", "resolve"} => idOf[h] = WonBy(h)
HoldsKey(h) ==
  pc[h] = "charge" /\ WonBy(h) \in positions => idOf[h] = budgetKey[WonBy(h)]
Resolved == \A h \in Requests : HoldsWinner(h) /\ HoldsKey(h)
ResolveInv == Below /\ NobodyUpdates /\ Recorded /\ Resolved

(* What a step leaves as it was for the clicks under way: the auctions on  *)
(* record keep their winner, and the winners registered their key.         *)
WinnersKept ==
  /\ lastAuction' \in Nat /\ lastAuction <= lastAuction'
  /\ \A a \in AuctionIds : a <= lastAuction => won'[a] = won[a]
  /\ \A w \in positions' : w < nextId =>
       w \in positions /\ budgetKey'[w] = budgetKey[w]
  /\ \A a \in auctions' : a <= lastAuction'

(* Every step keeps them.                                                  *)
LEMMA StepsKeepWinners ==
  ASSUME "crash" \notin Operations, TypeInv, NobodyUpdates, Recorded, [Next]_vars
  PROVE  WinnersKept
<1> USE BoundsAreNumbers
    DEF TypeInv, TypeOK, Locals, Accept, Answer, Goto, Unlock, memory, locals,
        tracker, advertisers, auctionLog, history, bounds, NobodyUpdates,
        Recorded, WinnersKept
<1>1. ASSUME NEW h \in Requests, NEW n \in GroupSizes, NEW total \in Totals,
             RegisterRows(h, n, total)
      PROVE  WinnersKept
  <2> DEFINE new == nextId .. nextId + n - 1
  <2>1. \A w \in new : ~(w < nextId)
    OBVIOUS
  <2>2. /\ positions' = positions \cup new
        /\ \A w \in Ids \ new : budgetKey'[w] = budgetKey[w]
        /\ UNCHANGED <<auctions, lastAuction, won>>
    BY <1>1 DEF RegisterRows, FirstNewId
  <2>3. QED
    BY <2>1, <2>2
<1>2. ASSUME NEW h \in Requests, NEW n \in GroupSizes, RegisterFails(h, n)
      PROVE  WinnersKept
  <2> DEFINE new == nextId .. nextId + n - 1
  <2>1. \A w \in new : ~(w < nextId)
    OBVIOUS
  <2>2. /\ positions' \subseteq positions \cup new
        /\ \A w \in Ids \ new : budgetKey'[w] = budgetKey[w]
        /\ UNCHANGED <<auctions, lastAuction, won>>
    BY <1>2 DEF RegisterFails
  <2>3. QED
    BY <2>1, <2>2
<1>3. ASSUME NEW h \in Requests, NEW id \in Ids,
             \/ \E total \in Totals : UpdateRead(h, id, total)
             \/ DeletePositions(h, id)
             \/ \E payment \in Payments : WinAuction(h, id, payment)
      PROVE  WinnersKept
  BY <1>3 DEF UpdateRead, DeletePositions, WinAuction
<1>4. ASSUME NEW h \in Requests, UpdateMemory(h) PROVE WinnersKept
  BY <1>4 DEF UpdateMemory
<1>5. ASSUME NEW h \in Requests,
             \/ FundBudget(h) \/ UpdateRow(h) \/ UpdateBudgetRow(h)
             \/ UpdateTracker(h) \/ DeleteRow(h) \/ DeleteBudget(h)
      PROVE  WinnersKept
  BY <1>5 DEF FundBudget, UpdateRow, UpdateBudgetRow, UpdateTracker, DeleteRow,
     DeleteBudget
<1>6. ASSUME NEW h \in Requests, RecordAuction(h) PROVE WinnersKept
  <2>1. UNCHANGED <<positions, budgetKey>>
    BY <1>6 DEF RecordAuction
  <2>2. \/ /\ lastAuction' = lastAuction + 1
           /\ auctions' = auctions \cup {lastAuction + 1}
           /\ \A a \in AuctionIds : a # lastAuction + 1 => won'[a] = won[a]
        \/ UNCHANGED <<lastAuction, auctions, won>>
    BY <1>6 DEF RecordAuction
  <2>3. lastAuction \in Nat /\ \A a \in AuctionIds : a \in Nat
    BY DEF AuctionIds
  <2>4. CASE /\ lastAuction' = lastAuction + 1
             /\ auctions' = auctions \cup {lastAuction + 1}
             /\ \A a \in AuctionIds : a # lastAuction + 1 => won'[a] = won[a]
    <3>1. lastAuction' \in Nat /\ lastAuction < lastAuction'
      BY <2>3, <2>4
    <3>2. \A a \in AuctionIds : a <= lastAuction => won'[a] = won[a]
      BY <2>3, <2>4
    <3>3. \A a \in auctions' : a <= lastAuction'
      BY <2>3, <2>4, <3>1
    <3>4. QED
      BY <2>1, <3>1, <3>2, <3>3
  <2>5. CASE UNCHANGED <<lastAuction, auctions, won>>
    BY <2>1, <2>3, <2>5
  <2>6. QED
    BY <2>2, <2>4, <2>5
<1>7. CASE ResetStats \/ UNCHANGED vars
  BY <1>7 DEF ResetStats, vars
<1>8. ASSUME NEW h \in Requests,
             \/ \E a \in AuctionIds : ClickArrives(h, a)
             \/ LockSettle(h) \/ ClickStep(h)
      PROVE  WinnersKept
  BY <1>8 DEF ClickArrives, LockSettle, ClickStep, CheckFirstClick, ReadPayment,
     ResolveKey, Charge, ChargeFails, LogClick
<1>9. QED
  BY <1>1, <1>2, <1>3, <1>4, <1>5, <1>6, <1>7, <1>8
  DEF Next, Arrival, Step, Crash

(* A click that a step does not move keeps what it holds.                  *)
LEMMA WaitingKeeps ==
  ASSUME TypeInv, ResolveInv, WinnersKept, NEW g \in Requests,
         pc'[g] = pc[g], idOf'[g] = idOf[g], auctionOf'[g] = auctionOf[g]
  PROVE  HoldsWinner(g)' /\ HoldsKey(g)' /\
         (pc'[g] \in Clicking => auctionOf'[g] <= lastAuction')
<1>1. CASE pc[g] \notin Clicking
  BY <1>1 DEF HoldsWinner, HoldsKey, Clicking, Critical
<1>2. CASE pc[g] \in Clicking
  <2>1. auctionOf[g] \in AuctionIds /\ auctionOf[g] <= lastAuction
    BY <1>2 DEF TypeInv, LocalsOK, ResolveInv, Recorded
  <2>2. won'[auctionOf[g]] = won[auctionOf[g]]
    BY <2>1 DEF WinnersKept
  <2>3. WonBy(g)' = WonBy(g)
    BY <2>2 DEF WonBy
  <2>4. WonBy(g) < nextId
    BY <2>1 DEF WonBy, ResolveInv, Below
  <2>5. WonBy(g) \in positions' =>
          WonBy(g) \in positions /\ budgetKey'[WonBy(g)] = budgetKey[WonBy(g)]
    BY <2>4 DEF WinnersKept
  <2>6. HoldsWinner(g) /\ HoldsKey(g)
    BY DEF ResolveInv, Resolved
  <2>7. HoldsWinner(g)'
    BY <2>3, <2>6 DEF HoldsWinner
  <2>8. HoldsKey(g)'
    BY <2>3, <2>5, <2>6 DEF HoldsKey
  <2>9. auctionOf'[g] <= lastAuction'
    BY <2>1, BoundsAreNumbers DEF WinnersKept, TypeInv, TypeOK, AuctionIds
  <2>10. QED
    BY <2>7, <2>8, <2>9
<1>3. QED
  BY <1>1, <1>2

(* Nobody starts to update.                                                *)
LEMMA NobodyStartsToUpdate ==
  ASSUME "update" \notin Operations, TypeInv, NobodyUpdates, [Next]_vars
  PROVE  NobodyUpdates'
<1> USE DEF TypeInv, TypeOK, Locals, Accept, Answer, Goto, Unlock, memory,
        locals, tracker, advertisers, auctionLog, history, bounds, NobodyUpdates
<1>1. ASSUME NEW h \in Requests, Arrival(h) PROVE NobodyUpdates'
  BY <1>1 DEF Arrival, RegisterRows, RegisterFails, UpdateRead, DeletePositions,
     WinAuction, ClickArrives
<1>2. ASSUME NEW h \in Requests,
             \/ FundBudget(h) \/ UpdateMemory(h) \/ UpdateRow(h)
             \/ UpdateBudgetRow(h) \/ UpdateTracker(h)
      PROVE  NobodyUpdates'
  BY <1>2 DEF FundBudget, UpdateMemory, UpdateRow, UpdateBudgetRow, UpdateTracker
<1>3. ASSUME NEW h \in Requests,
             DeleteRow(h) \/ DeleteBudget(h) \/ RecordAuction(h)
      PROVE  NobodyUpdates'
  BY <1>3 DEF DeleteRow, DeleteBudget, RecordAuction
<1>4. ASSUME NEW h \in Requests, LockSettle(h) \/ ClickStep(h)
      PROVE  NobodyUpdates'
  BY <1>4 DEF LockSettle, ClickStep, CheckFirstClick, ReadPayment, ResolveKey,
     Charge, ChargeFails, LogClick
<1>5. CASE ResetStats \/ Crash \/ UNCHANGED vars
  BY <1>5 DEF ResetStats, Crash, vars
<1>6. QED
  BY <1>1, <1>2, <1>3, <1>4, <1>5 DEF Next, Step

(* What request h holds after its own step.                                *)
Holds(h) == HoldsWinner(h)' /\ HoldsKey(h)' /\
            (pc'[h] \in Clicking => auctionOf'[h] <= lastAuction')
Others(h) == \A g \in Requests \ {h} : /\ pc'[g] = pc[g]
                                       /\ idOf'[g] = idOf[g]
                                       /\ auctionOf'[g] = auctionOf[g]

(* The steps outside the handling of a click.                              *)
LEMMA OutsideHolds ==
  ASSUME TypeInv, NEW h \in Requests,
         \/ \E n \in GroupSizes, total \in Totals : RegisterRows(h, n, total)
         \/ \E id \in Ids, total \in Totals : UpdateRead(h, id, total)
         \/ \E id \in Ids : DeletePositions(h, id)
         \/ \E id \in Ids, payment \in Payments : WinAuction(h, id, payment)
         \/ FundBudget(h) \/ UpdateMemory(h) \/ UpdateRow(h)
         \/ UpdateBudgetRow(h) \/ UpdateTracker(h)
         \/ DeleteRow(h) \/ DeleteBudget(h) \/ RecordAuction(h)
  PROVE  Others(h) /\ Holds(h)
<1> USE DEF TypeInv, TypeOK, Locals, Accept, Answer, Goto, memory, locals,
        tracker, advertisers, auctionLog, history, bounds
<1>1. Others(h) /\ pc'[h] \notin Clicking
  <2> USE DEF Others, Clicking, Critical
  <2>1. CASE \/ \E n \in GroupSizes, total \in Totals : RegisterRows(h, n, total)
             \/ \E id \in Ids, total \in Totals : UpdateRead(h, id, total)
             \/ \E id \in Ids : DeletePositions(h, id)
             \/ \E id \in Ids, payment \in Payments : WinAuction(h, id, payment)
    BY <2>1 DEF RegisterRows, UpdateRead, DeletePositions, WinAuction
  <2>2. CASE \/ FundBudget(h) \/ UpdateMemory(h) \/ UpdateRow(h)
             \/ UpdateBudgetRow(h) \/ UpdateTracker(h)
    BY <2>2 DEF FundBudget, UpdateMemory, UpdateRow, UpdateBudgetRow,
       UpdateTracker
  <2>3. CASE DeleteRow(h) \/ DeleteBudget(h) \/ RecordAuction(h)
    BY <2>3 DEF DeleteRow, DeleteBudget, RecordAuction
  <2>4. QED
    BY <2>1, <2>2, <2>3
<1>2. QED
  BY <1>1 DEF Holds, HoldsWinner, HoldsKey, Clicking, Critical

(* The steps of a click.                                                   *)
LEMMA ClickHolds ==
  ASSUME TypeInv, ResolveInv, NEW h \in Requests,
         \/ \E a \in AuctionIds : ClickArrives(h, a)
         \/ LockSettle(h) \/ ClickStep(h)
  PROVE  Others(h) /\ Holds(h)
<1> USE DEF TypeInv, TypeOK, LocalsOK, Locals, Accept, Answer, Goto, Unlock,
        memory, locals, tracker, advertisers, auctionLog, history, bounds
<1>1. ASSUME NEW a \in AuctionIds, ClickArrives(h, a)
      PROVE  Others(h) /\ Holds(h)
  <2>1. /\ pc'[h] = "lock" /\ auctionOf'[h] = a /\ idOf'[h] = won[a].winner
        /\ won' = won /\ lastAuction' = lastAuction /\ a <= lastAuction
    BY <1>1 DEF ClickArrives, ResolveInv, Recorded
  <2>2. Others(h)
    BY <1>1 DEF ClickArrives, Others
  <2>3. QED
    BY <2>1, <2>2 DEF Holds, HoldsWinner, HoldsKey, WonBy
<1>2. CASE LockSettle(h) \/ CheckFirstClick(h)
  <2>1. /\ pc[h] \in {"lock", "dedup"} /\ pc'[h] \in {"dedup", "price", "log"}
        /\ UNCHANGED <<idOf, auctionOf, won, lastAuction>>
    BY <1>2 DEF LockSettle, CheckFirstClick
  <2>2. Others(h)
    BY <1>2 DEF LockSettle, CheckFirstClick, Others
  <2>3. idOf[h] = WonBy(h) /\ auctionOf[h] <= lastAuction
    BY <2>1 DEF ResolveInv, Resolved, HoldsWinner, Recorded, Clicking, Critical
  <2>4. QED
    BY <2>1, <2>2, <2>3 DEF Holds, HoldsWinner, HoldsKey, WonBy
<1>3. CASE ReadPayment(h)
  <2>1. /\ pc[h] = "price" /\ pc'[h] \in {"resolve", "log"}
        /\ idOf'[h] = idOf[h] /\ auctionOf'[h] = auctionOf[h]
        /\ UNCHANGED <<won, lastAuction>>
    BY <1>3 DEF ReadPayment
  <2>2. Others(h)
    BY <1>3 DEF ReadPayment, Others
  <2>3. idOf[h] = WonBy(h) /\ auctionOf[h] <= lastAuction
    BY <2>1 DEF ResolveInv, Resolved, HoldsWinner, Recorded, Clicking, Critical
  <2>4. QED
    BY <2>1, <2>2, <2>3 DEF Holds, HoldsWinner, HoldsKey, WonBy
<1>4. CASE ResolveKey(h)
  <2>1. /\ pc[h] = "resolve" /\ pc'[h] = "charge"
        /\ idOf[h] \in positions => idOf'[h] = KeyOf(idOf[h])
        /\ auctionOf'[h] = auctionOf[h]
        /\ UNCHANGED <<won, lastAuction, positions, rows, budgetKey>>
    BY <1>4 DEF ResolveKey
  <2>2. Others(h)
    BY <1>4 DEF ResolveKey, Others
  <2>3. idOf[h] = WonBy(h) /\ auctionOf[h] <= lastAuction
    BY <2>1 DEF ResolveInv, Resolved, HoldsWinner, Recorded, Clicking, Critical
  <2>4. QED
    BY <2>1, <2>2, <2>3 DEF Holds, HoldsWinner, HoldsKey, WonBy, KeyOf
<1>5. CASE Charge(h)
  <2>1. /\ pc[h] = "charge" /\ pc'[h] = "log"
        /\ UNCHANGED <<idOf, auctionOf, lastAuction>>
    BY <1>5 DEF Charge
  <2>2. Others(h)
    BY <1>5 DEF Charge, Others
  <2>3. auctionOf[h] <= lastAuction
    BY <2>1 DEF ResolveInv, Recorded, Clicking, Critical
  <2>4. QED
    BY <2>1, <2>2, <2>3 DEF Holds, HoldsWinner, HoldsKey
<1>6. CASE ChargeFails(h) \/ LogClick(h)
  <2>1. pc'[h] = "idle"
    BY <1>6 DEF ChargeFails, LogClick
  <2>2. Others(h)
    BY <1>6 DEF ChargeFails, LogClick, Others
  <2>3. QED
    BY <2>1, <2>2 DEF Holds, HoldsWinner, HoldsKey, Clicking, Critical
<1>7. QED
  BY <1>1, <1>2, <1>3, <1>4, <1>5, <1>6 DEF ClickStep

LEMMA ResolveNext ==
  ASSUME "crash" \notin Operations, "update" \notin Operations
  PROVE  TypeInv /\ ResolveInv /\ [Next]_vars => ResolveInv'
<1> SUFFICES ASSUME TypeInv, ResolveInv, [Next]_vars PROVE ResolveInv'
  OBVIOUS
<1>1. Below' /\ NobodyUpdates' /\ WinnersKept
  BY BelowNext, NobodyStartsToUpdate, StepsKeepWinners DEF ResolveInv
<1>2. \A g \in Requests : Holds(g)
  <2>1. ASSUME NEW h \in Requests, Others(h) /\ Holds(h)
        PROVE  \A g \in Requests : Holds(g)
    BY <1>1, <2>1, WaitingKeeps DEF Others, Holds
  <2>2. CASE UNCHANGED <<pc, idOf, auctionOf>>
    BY <1>1, <2>2, WaitingKeeps DEF Holds
  <2>3. ASSUME NEW h \in Requests, NEW n \in GroupSizes, RegisterFails(h, n)
        PROVE  UNCHANGED <<pc, idOf, auctionOf>>
    BY <2>3 DEF RegisterFails, locals
  <2>4. CASE ResetStats \/ UNCHANGED vars
    BY <2>2, <2>4 DEF ResetStats, vars, locals
  <2>5. QED
    BY <2>1, <2>2, <2>3, <2>4, OutsideHolds, ClickHolds
    DEF Next, Arrival, Step, Crash
<1>3. Recorded' /\ Resolved'
  BY <1>1, <1>2 DEF Recorded, Resolved, Holds, WinnersKept
<1>4. QED
  BY <1>1, <1>3 DEF ResolveInv

(* As long as the charge itself is not refused by the database, a click is *)
(* answered 402 only if the budget its winner spends from is gone or does  *)
(* not cover the payment -- or the winner itself is gone: registrations,   *)
(* deletions, resets of the log and other clicks come at any moment        *)
(* between the read of the winner, budgetKey and Budgets.Charge.           *)
THEOREM RefusalIsHonest ==
  ASSUME "crash" \notin Operations, "update" \notin Operations,
         "persist" \notin Faults
  PROVE  Spec => NoFalseRefusal
<1> DEFINE Honest ==
      \A h \in Requests :
        LET winner == won[auctionOf[h]].winner
            k == budgetKey[winner]
        IN  pc[h] = "charge" /\ pc'[h] = "idle" /\ winner \in positions
              => k \notin rows \/ ~CanAfford(k, amountOf[h])
<1>1. Init => ResolveInv
  BY DEF Init, ResolveInv, Below, NobodyUpdates, Recorded, Resolved, HoldsWinner,
     HoldsKey, Clicking, Critical
<1>2. TypeInv /\ ResolveInv /\ [Next]_vars => ResolveInv'
  BY ResolveNext
<1>3. TypeInv /\ ResolveInv /\ [Next]_vars => [Honest]_vars
  <2> SUFFICES ASSUME TypeInv, ResolveInv, [Next]_vars, NEW h \in Requests,
                      pc[h] = "charge", pc'[h] = "idle", WonBy(h) \in positions
               PROVE  \/ budgetKey[WonBy(h)] \notin rows
                      \/ ~CanAfford(budgetKey[WonBy(h)], amountOf[h])
    BY DEF WonBy
  <2>1. idOf[h] = budgetKey[WonBy(h)]
    BY DEF ResolveInv, Resolved, HoldsKey
  <2>2. ChargeFails(h)
    <3>1. ASSUME NEW g \in Requests, Quiet(g) \/ LockSettle(g) PROVE FALSE
      BY <3>1 DEF Quiet, LockSettle, Goto, TypeInv, TypeOK, Critical, Labels
    <3>2. ASSUME NEW g \in Requests,
                 \/ CheckFirstClick(g) \/ ReadPayment(g) \/ ResolveKey(g)
                 \/ Charge(g) \/ LogClick(g)
          PROVE  FALSE
      BY <3>2 DEF CheckFirstClick, ReadPayment, ResolveKey, Charge, LogClick,
         Goto, Unlock, Answer, TypeInv, TypeOK, Labels, Critical
    <3>3. ASSUME NEW g \in Requests, ChargeFails(g) PROVE g = h
      BY <3>3 DEF ChargeFails, Unlock, Answer, Goto, TypeInv, TypeOK
    <3>4. QED
      BY <3>1, <3>2, <3>3, StepsSeenBySettlement DEF ClickStep, Crash
  <2>3. idOf[h] \notin rows \/ ~CanAfford(idOf[h], amountOf[h])
    BY <2>2 DEF ChargeFails
  <2>4. QED
    BY <2>1, <2>3
<1>4. QED
  BY <1>1, <1>2, <1>3, TypeInvariant, PTL DEF Spec, NoFalseRefusal

-----------------------------------------------------------------------------
(***************************************************************************)
(* Budget keys, whatever fails and after any restart.  An id in use is     *)
(* below the next one; its key is not above it and is a key of its own;    *)
(* and only an id that is its own key has a budget, in memory and in the   *)
(* table.  Ids from nextId on may keep an old key: a restart gives them    *)
(* out again.                                                              *)
(***************************************************************************)
Used == \A k \in positions \cup tracked \cup rows : k < nextId
UsedByRequests ==
  \A h \in Requests : pc[h] \in {"fund"} \cup Updating => idOf[h] < nextId
Keys == \A k \in Ids : k < nextId =>
          budgetKey[k] <= k /\ budgetKey[budgetKey[k]] = budgetKey[k]
Heads ==
  /\ \A k \in tracked : budgets[k] > 0 => budgetKey[k] = k
  /\ \A k \in rows : budgetTotal[k] > 0 => budgetKey[k] = k
  /\ \A h \in Requests : pc[h] = "fund" => budgetKey[idOf[h]] = idOf[h]
KeysInv == Used /\ UsedByRequests /\ Keys /\ Heads

LEMMA KeysInit == Init => KeysInv
  BY DEF Init, KeysInv, Used, UsedByRequests, Keys, Heads, Updating, Ids

(* A step of h that gives out no id, writes no key and no total and starts *)
(* neither a registration nor an update keeps them.                        *)
LEMMA KeysUntouched ==
  ASSUME TypeInv, KeysInv, NEW h \in Requests,
         \A g \in Requests : g # h => pc'[g] = pc[g] /\ idOf'[g] = idOf[g],
         pc'[h] \notin {"fund"} \cup Updating,
         positions' \subseteq positions,
         UNCHANGED <<nextId, tracked, budgets, rows, budgetKey, budgetTotal>>
  PROVE  KeysInv'
<1>1. Used' /\ Keys'
  BY DEF KeysInv, Used, Keys
<1>2. UsedByRequests'
  BY DEF KeysInv, UsedByRequests
<1>3. Heads'
  BY DEF KeysInv, Heads
<1>4. QED
  BY <1>1, <1>2, <1>3 DEF KeysInv

LEMMA KeysNext == TypeInv /\ KeysInv /\ [Next]_vars => KeysInv'
<1> SUFFICES ASSUME TypeInv, KeysInv, [Next]_vars PROVE KeysInv'
  OBVIOUS
<1> USE BoundsAreNumbers, AmountsAreNumbers
    DEF TypeInv, TypeOK, Locals, Accept, Answer, Goto, Unlock, SetBudget, memory,
        locals, tracker, advertisers, auctionLog, history, bounds
<1>0. /\ \A g \in Requests : pc[g] # "idle" => idOf[g] \in Ids
      /\ \A k \in Ids : k \in Nat /\ budgetKey[k] \in Ids
      /\ nextId \in Nat
  <2>1. /\ \A g \in Requests : pc[g] # "idle" => idOf[g] \in Ids
        /\ \A k \in Ids : budgetKey[k] \in Ids
    BY DEF LocalsOK
  <2>2. nextId \in Nat /\ \A k \in Ids : k \in Nat
    BY DEF Ids
  <2>3. QED
    BY <2>1, <2>2
<1>1. ASSUME NEW h \in Requests, NEW n \in GroupSizes, NEW total \in Totals,
             RegisterRows(h, n, total)
      PROVE  KeysInv'
  <2> DEFINE new == nextId .. nextId + n - 1
  <2>1. new \subseteq Ids /\ nextId \in 1 .. MaxId + 1
    BY <1>1 DEF RegisterRows, FirstNewId
  <2>2. nextId \in new /\ n \in Nat /\ n > 0 /\ nextId \in Ids
    BY <2>1, NewIds
  <2>3. /\ nextId' = nextId + n /\ positions' = positions \cup new
        /\ rows' = rows \cup new /\ tracked' = tracked /\ budgets' = budgets
        /\ pc' = [pc EXCEPT ![h] = "fund"]
        /\ idOf' = [idOf EXCEPT ![h] = nextId]
    BY <1>1 DEF RegisterRows, FirstNewId
  <2>4. /\ \A k \in Ids \ new : /\ budgetKey'[k] = budgetKey[k]
                                /\ budgetTotal'[k] = budgetTotal[k]
        /\ \A k \in new : /\ budgetKey'[k] = nextId
                          /\ k # nextId => budgetTotal'[k] = 0
    BY <1>1, <2>1 DEF RegisterRows, FirstNewId
  <2>5. \A k \in new : k >= nextId /\ k < nextId' /\ k \in Nat
    BY <2>1, <2>2, <2>3
  <2>6. \A k \in Ids : k < nextId => k \in Ids \ new /\ k < nextId'
    BY <1>0, <2>2, <2>3, <2>5
  <2>7. \A k \in Ids : k < nextId' => k < nextId \/ k \in new
    BY <1>0, <2>2, <2>3
  <2>8. Used'
    BY <2>1, <2>3, <2>5, <2>6 DEF KeysInv, Used
  <2>9. UsedByRequests'
    <3>1. ASSUME NEW g \in Requests, pc'[g] \in {"fund"} \cup Updating
          PROVE  idOf'[g] < nextId'
      <4>1. CASE g = h
        BY <2>2, <2>3, <2>5, <4>1
      <4>2. CASE g # h
        <5>1. pc[g] \in {"fund"} \cup Updating /\ idOf'[g] = idOf[g]
          BY <2>3, <3>1, <4>2
        <5>2. idOf[g] < nextId /\ idOf[g] \in Ids
          BY <1>0, <5>1 DEF KeysInv, UsedByRequests, Updating
        <5>3. QED
          BY <2>6, <5>1, <5>2
      <4>3. QED
        BY <4>1, <4>2
    <3>2. QED
      BY <3>1 DEF UsedByRequests
  <2>10. Keys'
    <3>1. ASSUME NEW k \in Ids, k < nextId
          PROVE  budgetKey'[k] <= k /\ budgetKey'[budgetKey'[k]] = budgetKey'[k]
      <4>1. budgetKey[k] <= k /\ budgetKey[k] \in Ids /\ budgetKey[k] < nextId
        BY <1>0, <3>1 DEF KeysInv, Keys
      <4>2. budgetKey'[k] = budgetKey[k] /\ budgetKey'[budgetKey[k]] = budgetKey[budgetKey[k]]
        BY <2>4, <2>6, <3>1, <4>1
      <4>3. QED
        BY <3>1, <4>1, <4>2 DEF KeysInv, Keys
    <3>2. \A k \in new : budgetKey'[k] <= k /\ budgetKey'[budgetKey'[k]] = budgetKey'[k]
      BY <2>2, <2>4, <2>5
    <3>3. QED
      BY <2>7, <3>1, <3>2 DEF Keys
  <2>11. Heads'
    <3>1. \A k \in tracked' : budgets'[k] > 0 => budgetKey'[k] = k
      BY <2>3, <2>4, <2>6 DEF KeysInv, Used, Heads
    <3>2. \A k \in rows' : budgetTotal'[k] > 0 => budgetKey'[k] = k
      BY <2>3, <2>4, <2>6 DEF KeysInv, Used, Heads
    <3>3. ASSUME NEW g \in Requests, pc'[g] = "fund"
          PROVE  budgetKey'[idOf'[g]] = idOf'[g]
      <4>1. CASE g = h
        BY <2>2, <2>3, <2>4, <4>1
      <4>2. CASE g # h
        <5>1. pc[g] = "fund" /\ idOf'[g] = idOf[g]
          BY <2>3, <3>3, <4>2
        <5>2. idOf[g] < nextId /\ idOf[g] \in Ids /\ budgetKey[idOf[g]] = idOf[g]
          BY <1>0, <5>1 DEF KeysInv, UsedByRequests, Heads
        <5>3. QED
          BY <2>4, <2>6, <5>1, <5>2
      <4>3. QED
        BY <4>1, <4>2
    <3>4. QED
      BY <3>1, <3>2, <3>3 DEF Heads
  <2>12. QED
    BY <2>8, <2>9, <2>10, <2>11 DEF KeysInv
<1>2. ASSUME NEW h \in Requests, NEW n \in GroupSizes, RegisterFails(h, n)
      PROVE  KeysInv'
  <2> DEFINE new == nextId .. nextId + n - 1
  <2>1. new \subseteq Ids /\ nextId \in 1 .. MaxId + 1
    BY <1>2 DEF RegisterFails
  <2>2. n \in Nat /\ n > 0
    BY <2>1, NewIds
  <2>3. /\ nextId' = nextId + n /\ positions' \subseteq positions \cup new
        /\ UNCHANGED <<tracked, budgets, rows, budgetTotal, pc, idOf>>
    BY <1>2 DEF RegisterFails
  <2>4. /\ \A k \in Ids \ new : budgetKey'[k] = budgetKey[k]
        /\ \A k \in new : budgetKey'[k] = k
    BY <1>2, <2>1 DEF RegisterFails
  <2>5. \A k \in new : k >= nextId /\ k < nextId' /\ k \in Nat
    BY <2>1, <2>2, <2>3
  <2>6. /\ \A k \in Ids : k < nextId => k \in Ids \ new /\ k < nextId'
        /\ \A k \in Ids : k < nextId' => k < nextId \/ k \in new
    <3>1. \A k \in Nat : /\ k < nextId => k \notin new /\ k < nextId + n
                         /\ k < nextId + n => k < nextId \/ k \in new
      BY <1>0, <2>2
    <3>2. /\ nextId' = nextId + n /\ nextId \in Nat /\ n \in Nat
          /\ \A k \in Ids : k \in Nat
      BY <1>0, <2>2, <2>3
    <3>3. QED
      BY ONLY <3>1, <3>2, SMT
  <2>7. Used'
    BY <2>1, <2>3, <2>5, <2>6 DEF KeysInv, Used
  <2>8. UsedByRequests'
    BY <1>0, <2>3, <2>6 DEF KeysInv, UsedByRequests, Updating
  <2>9. Keys'
    <3>1. ASSUME NEW k \in Ids, k < nextId
          PROVE  budgetKey'[k] <= k /\ budgetKey'[budgetKey'[k]] = budgetKey'[k]
      <4>1. budgetKey[k] <= k /\ budgetKey[k] \in Ids /\ budgetKey[k] < nextId
        BY <1>0, <3>1 DEF KeysInv, Keys
      <4>2. budgetKey'[k] = budgetKey[k] /\ budgetKey'[budgetKey[k]] = budgetKey[budgetKey[k]]
        BY <2>4, <2>6, <3>1, <4>1
      <4>3. QED
        BY <3>1, <4>1, <4>2 DEF KeysInv, Keys
    <3>2. \A k \in new : budgetKey'[k] <= k /\ budgetKey'[budgetKey'[k]] = budgetKey'[k]
      BY <2>1, <2>4, <2>5
    <3>3. QED
      BY <2>6, <3>1, <3>2 DEF Keys
  <2>10. Heads'
    <3>1. ASSUME NEW g \in Requests, pc[g] = "fund"
          PROVE  budgetKey'[idOf[g]] = idOf[g]
      <4>1. idOf[g] \in Ids /\ budgetKey[idOf[g]] = idOf[g]
        BY <1>0, <3>1 DEF KeysInv, Heads
      <4>2. QED
        BY <2>4, <4>1
    <3>2. QED
      BY <2>3, <2>4, <3>1 DEF KeysInv, Heads
  <2>11. QED
    BY <2>7, <2>8, <2>9, <2>10 DEF KeysInv
<1>3. ASSUME NEW h \in Requests, FundBudget(h) \/ UpdateTracker(h)
      PROVE  KeysInv'
  <2>1. /\ pc[h] \in {"fund", "reset_spent"} /\ pc' = [pc EXCEPT ![h] = "idle"]
        /\ \A g \in Requests : g # h => idOf'[g] = idOf[g]
        /\ UNCHANGED <<positions, nextId, rows, budgetKey, budgetTotal>>
    BY <1>3 DEF FundBudget, UpdateTracker
  <2>2. idOf[h] \in Ids /\ idOf[h] < nextId
    BY <1>0, <2>1 DEF KeysInv, UsedByRequests, Updating
  <2>3. PICK k \in Ids : /\ k < nextId /\ budgetKey[k] = k
                         /\ tracked' = tracked \cup {k}
                         /\ \A i \in Ids \ {k} : budgets'[i] = budgets[i]
    <3>1. CASE FundBudget(h)
      <4>1. budgetKey[idOf[h]] = idOf[h]
        BY <3>1 DEF FundBudget, KeysInv, Heads
      <4>2. QED
        BY <2>2, <3>1, <4>1 DEF FundBudget
    <3>2. CASE UpdateTracker(h)
      <4>1. /\ budgetKey[idOf[h]] \in Ids /\ budgetKey[idOf[h]] < nextId
            /\ budgetKey[budgetKey[idOf[h]]] = budgetKey[idOf[h]]
        BY <1>0, <2>2 DEF KeysInv, Keys
      <4>2. QED
        BY <3>2, <4>1 DEF UpdateTracker
    <3>3. QED
      BY <1>3, <3>1, <3>2
  <2>4. Used' /\ UsedByRequests' /\ Keys'
    BY <2>1, <2>3 DEF KeysInv, Used, UsedByRequests, Keys, Updating
  <2>5. Heads'
    BY <2>1, <2>3 DEF KeysInv, Heads
  <2>6. QED
    BY <2>4, <2>5 DEF KeysInv
<1>4. ASSUME NEW h \in Requests, NEW id \in Ids, NEW total \in Totals,
             UpdateRead(h, id, total)
      PROVE  KeysInv'
  <2>1. /\ id < nextId /\ pc' = [pc EXCEPT ![h] = "rewrite"]
        /\ idOf' = [idOf EXCEPT ![h] = id]
        /\ UNCHANGED <<positions, nextId, tracked, budgets, rows, budgetKey,
                       budgetTotal>>
    BY <1>4 DEF UpdateRead, KeysInv, Used
  <2>2. UsedByRequests' /\ Heads'
    BY <2>1 DEF KeysInv, UsedByRequests, Heads
  <2>3. QED
    BY <2>1, <2>2 DEF KeysInv, Used, Keys
<1>5. ASSUME NEW h \in Requests, UpdateMemory(h) \/ UpdateRow(h)
      PROVE  KeysInv'
  <2>1. /\ pc[h] \in Updating /\ pc'[h] # "fund"
        /\ \A g \in Requests : g # h => pc'[g] = pc[g] /\ idOf'[g] = idOf[g]
        /\ pc'[h] = "idle" \/ idOf'[h] = idOf[h]
        /\ positions' \subseteq positions \cup {idOf[h]}
        /\ UNCHANGED <<nextId, tracked, budgets, rows, budgetKey, budgetTotal>>
    BY <1>5 DEF UpdateMemory, UpdateRow, Updating
  <2>2. idOf[h] < nextId
    BY <2>1 DEF KeysInv, UsedByRequests
  <2>3. Used' /\ Keys'
    BY <2>1, <2>2 DEF KeysInv, Used, Keys
  <2>4. UsedByRequests' /\ Heads'
    BY <2>1, <2>2 DEF KeysInv, UsedByRequests, Heads, Updating
  <2>5. QED
    BY <2>3, <2>4 DEF KeysInv
<1>6. ASSUME NEW h \in Requests, UpdateBudgetRow(h) PROVE KeysInv'
  <2>1. /\ pc[h] \in Updating /\ pc'[h] \in {"reset_spent", "idle"}
        /\ \A g \in Requests : g # h => pc'[g] = pc[g] /\ idOf'[g] = idOf[g]
        /\ pc'[h] = "idle" \/ idOf'[h] = idOf[h]
        /\ UNCHANGED <<positions, nextId, tracked, budgets, rows, budgetKey>>
    BY <1>6 DEF UpdateBudgetRow, Updating
  <2>2. idOf[h] \in Ids /\ idOf[h] < nextId
    BY <1>0, <2>1 DEF KeysInv, UsedByRequests, Updating
  <2>3. budgetKey[budgetKey[idOf[h]]] = budgetKey[idOf[h]]
    BY <2>2 DEF KeysInv, Keys
  <2>4. \A k \in Ids : k # budgetKey[idOf[h]] => budgetTotal'[k] = budgetTotal[k]
    BY <1>6 DEF UpdateBudgetRow
  <2>5. Used' /\ Keys' /\ UsedByRequests'
    BY <2>1, <2>2 DEF KeysInv, Used, Keys, UsedByRequests, Updating
  <2>6. Heads'
    BY <2>1, <2>3, <2>4 DEF KeysInv, Heads
  <2>7. QED
    BY <2>5, <2>6 DEF KeysInv
<1>7. ASSUME NEW h \in Requests, DeleteRow(h) PROVE KeysInv'
  <2>1. /\ pc'[h] \in {"delete_rows", "delete_budget", "idle"}
        /\ \A g \in Requests : g # h => pc'[g] = pc[g] /\ idOf'[g] = idOf[g]
        /\ rows' \subseteq rows
        /\ UNCHANGED <<positions, nextId, tracked, budgets, budgetKey>>
    BY <1>7 DEF DeleteRow
  <2>2. \A k \in rows' : budgetTotal'[k] = budgetTotal[k]
    BY <1>7 DEF DeleteRow
  <2>3. Used' /\ Keys' /\ UsedByRequests'
    BY <2>1 DEF KeysInv, Used, Keys, UsedByRequests, Updating
  <2>4. Heads'
    BY <2>1, <2>2 DEF KeysInv, Heads
  <2>5. QED
    BY <2>3, <2>4 DEF KeysInv
<1>8. ASSUME NEW h \in Requests, DeleteBudget(h) PROVE KeysInv'
  <2>1. /\ pc' = [pc EXCEPT ![h] = "idle"] /\ tracked' \subseteq tracked
        /\ \A g \in Requests : g # h => idOf'[g] = idOf[g]
        /\ \A k \in tracked' : budgets'[k] = budgets[k]
        /\ UNCHANGED <<positions, nextId, rows, budgetKey, budgetTotal>>
    BY <1>8 DEF DeleteBudget
  <2>2. QED
    BY <2>1 DEF KeysInv, Used, Keys, UsedByRequests, Updating, Heads
<1>9. ASSUME NEW h \in Requests,
             \/ \E id \in Ids : DeletePositions(h, id)
             \/ \E id \in Ids, payment \in Payments : WinAuction(h, id, payment)
             \/ RecordAuction(h)
             \/ \E a \in AuctionIds : ClickArrives(h, a)
      PROVE  KeysInv'
  <2>1. /\ pc'[h] \notin {"fund"} \cup Updating /\ positions' \subseteq positions
        /\ \A g \in Requests : g # h => pc'[g] = pc[g] /\ idOf'[g] = idOf[g]
        /\ UNCHANGED <<nextId, tracked, budgets, rows, budgetKey, budgetTotal>>
    BY <1>9 DEF DeletePositions, WinAuction, RecordAuction, ClickArrives, Updating
  <2>2. QED
    BY <2>1, KeysUntouched
<1>10. ASSUME NEW h \in Requests, LockSettle(h) \/ ClickStep(h)
       PROVE  KeysInv'
  <2>1. /\ pc'[h] \notin {"fund"} \cup Updating
        /\ \A g \in Requests : g # h => pc'[g] = pc[g] /\ idOf'[g] = idOf[g]
    BY <1>10 DEF LockSettle, ClickStep, CheckFirstClick, ReadPayment, ResolveKey,
       Charge, ChargeFails, LogClick, Updating
  <2>2. UNCHANGED <<positions, nextId, tracked, budgets, rows, budgetKey,
                    budgetTotal>>
    BY <1>10 DEF LockSettle, ClickStep, CheckFirstClick, ReadPayment, ResolveKey,
       Charge, ChargeFails, LogClick
  <2>3. QED
    BY <2>1, <2>2, KeysUntouched
<1>11. CASE ResetStats \/ UNCHANGED vars
  BY <1>11 DEF ResetStats, vars, KeysInv, Used, Keys, UsedByRequests, Heads
<1>12. CASE Crash
  <2>1. /\ positions' = rows /\ tracked' = rows /\ budgets' = budgetTotal
        /\ UNCHANGED <<rows, budgetKey, budgetTotal>>
        /\ \A h \in Requests : pc'[h] = "idle"
        /\ \A k \in rows : k < nextId'
        /\ nextId' \in 1 .. MaxId + 1
        /\ nextId' = 1 \/ nextId' - 1 \in rows
    BY <1>12 DEF Crash
  <2>2. nextId' <= nextId
    BY <2>1 DEF KeysInv, Used
  <2>3. Keys'
    BY <1>0, <2>1, <2>2 DEF KeysInv, Keys
  <2>4. Used' /\ UsedByRequests' /\ Heads'
    BY <2>1 DEF KeysInv, Used, UsedByRequests, Heads, Updating
  <2>5. QED
    BY <2>3, <2>4 DEF KeysInv
<1>13. QED
  BY <1>1, <1>2, <1>3, <1>4, <1>5, <1>6, <1>7, <1>8, <1>9, <1>10, <1>11, <1>12
  DEF Next, Arrival, Step

(***************************************************************************)
(* What a click holds.  From budgetKey on it is the key of the winner, or  *)
(* the winner's id where neither memory nor table was read to have it.     *)
(***************************************************************************)
HeldKey(h) ==
  /\ pc[h] \in {"resolve", "charge"} => amountOf[h] > 0
  /\ pc[h] = "charge" =>
       \/ idOf[h] = WonBy(h)
       \/ /\ WonBy(h) \in Ids /\ WonBy(h) < nextId
          /\ idOf[h] = budgetKey[WonBy(h)]
HeldInv == Recorded /\ \A h \in Requests : HoldsWinner(h) /\ HeldKey(h)

(* What a step other than a crash leaves as it was for them.               *)
RecordsKept ==
  /\ lastAuction' \in Nat /\ lastAuction <= lastAuction'
  /\ \A a \in AuctionIds : a <= lastAuction => won'[a] = won[a]
  /\ \A a \in auctions' : a <= lastAuction'
  /\ \A w \in Ids : w < nextId => w < nextId' /\ budgetKey'[w] = budgetKey[w]

LEMMA StepsKeepRecords ==
  ASSUME TypeInv, Recorded, [Next]_vars, ~Crash
  PROVE  RecordsKept
<1> USE BoundsAreNumbers
    DEF TypeInv, TypeOK, Locals, Accept, Answer, Goto, Unlock, memory, locals,
        tracker, advertisers, auctionLog, history, bounds, Recorded, RecordsKept
<1>0. \A w \in Ids : w \in Nat
  BY DEF Ids
<1>1. ASSUME NEW h \in Requests, NEW n \in GroupSizes,
             \/ \E total \in Totals : RegisterRows(h, n, total)
             \/ RegisterFails(h, n)
      PROVE  RecordsKept
  <2> DEFINE new == nextId .. nextId + n - 1
  <2>1. new \subseteq Ids /\ nextId \in 1 .. MaxId + 1
    BY <1>1 DEF RegisterRows, RegisterFails, FirstNewId
  <2>2. /\ \A w \in new : ~(w < nextId)
        /\ n \in Nat /\ nextId \in Nat
    BY <2>1, NewIds
  <2>3. /\ nextId' = nextId + n
        /\ \A w \in Ids \ new : budgetKey'[w] = budgetKey[w]
        /\ UNCHANGED <<auctions, lastAuction, won>>
    BY <1>1 DEF RegisterRows, RegisterFails, FirstNewId
  <2>4. QED
    BY <1>0, <2>2, <2>3
<1>2. ASSUME NEW h \in Requests, NEW id \in Ids,
             \/ \E total \in Totals : UpdateRead(h, id, total)
             \/ DeletePositions(h, id)
             \/ \E payment \in Payments : WinAuction(h, id, payment)
      PROVE  RecordsKept
  BY <1>2 DEF UpdateRead, DeletePositions, WinAuction
<1>3. ASSUME NEW h \in Requests,
             \/ FundBudget(h) \/ UpdateMemory(h) \/ UpdateRow(h)
             \/ UpdateBudgetRow(h) \/ UpdateTracker(h)
             \/ DeleteRow(h) \/ DeleteBudget(h)
      PROVE  RecordsKept
  BY <1>3 DEF FundBudget, UpdateMemory, UpdateRow, UpdateBudgetRow, UpdateTracker,
     DeleteRow, DeleteBudget
<1>4. ASSUME NEW h \in Requests, RecordAuction(h) PROVE RecordsKept
  <2>1. UNCHANGED <<nextId, budgetKey>>
    BY <1>4 DEF RecordAuction
  <2>2. \/ /\ lastAuction' = lastAuction + 1
           /\ auctions' = auctions \cup {lastAuction + 1}
           /\ \A a \in AuctionIds : a # lastAuction + 1 => won'[a] = won[a]
        \/ UNCHANGED <<lastAuction, auctions, won>>
    BY <1>4 DEF RecordAuction
  <2>3. lastAuction \in Nat /\ \A a \in AuctionIds : a \in Nat
    BY DEF AuctionIds
  <2>4. lastAuction' \in Nat /\ lastAuction <= lastAuction'
    BY <2>2, <2>3
  <2>5. \A a \in AuctionIds : a <= lastAuction => won'[a] = won[a]
    BY <2>2, <2>3
  <2>6. \A a \in auctions' : a <= lastAuction'
    BY <2>2, <2>3
  <2>7. QED
    BY <2>1, <2>4, <2>5, <2>6
<1>5. CASE ResetStats \/ UNCHANGED vars
  BY <1>5 DEF ResetStats, vars
<1>6. ASSUME NEW h \in Requests,
             \/ \E a \in AuctionIds : ClickArrives(h, a)
             \/ LockSettle(h) \/ ClickStep(h)
      PROVE  RecordsKept
  BY <1>6 DEF ClickArrives, LockSettle, ClickStep, CheckFirstClick, ReadPayment,
     ResolveKey, Charge, ChargeFails, LogClick
<1>7. QED
  BY <1>1, <1>2, <1>3, <1>4, <1>5, <1>6 DEF Next, Arrival, Step

(* What h holds after a step, and that the others have not moved.          *)
HeldBy(h) == /\ HoldsWinner(h)' /\ HeldKey(h)'
             /\ pc'[h] \in Clicking => auctionOf'[h] <= lastAuction'
Still(g) == /\ pc'[g] = pc[g] /\ idOf'[g] = idOf[g]
            /\ auctionOf'[g] = auctionOf[g] /\ amountOf'[g] = amountOf[g]

LEMMA StillHolds ==
  ASSUME TypeInv, HeldInv, RecordsKept, NEW g \in Requests, Still(g)
  PROVE  HeldBy(g)
<1>1. CASE pc[g] \notin Clicking
  BY <1>1 DEF Still, HeldBy, HoldsWinner, HeldKey, Clicking, Critical
<1>2. CASE pc[g] \in Clicking
  <2>1. auctionOf[g] \in AuctionIds /\ auctionOf[g] <= lastAuction
    BY <1>2 DEF TypeInv, LocalsOK, HeldInv, Recorded
  <2>2. WonBy(g)' = WonBy(g)
    BY <2>1 DEF WonBy, RecordsKept, Still
  <2>4. HoldsWinner(g) /\ HeldKey(g)
    BY DEF HeldInv
  <2>5. HoldsWinner(g)'
    BY <2>2, <2>4 DEF HoldsWinner, Still
  <2>6. WonBy(g) \in Ids /\ WonBy(g) < nextId =>
          WonBy(g) < nextId' /\ budgetKey'[WonBy(g)] = budgetKey[WonBy(g)]
    BY DEF RecordsKept
  <2>7. HeldKey(g)'
    BY <2>2, <2>4, <2>6 DEF HeldKey, Still
  <2>8. auctionOf'[g] <= lastAuction'
    BY <2>1, BoundsAreNumbers DEF RecordsKept, TypeInv, TypeOK, AuctionIds, Still
  <2>9. QED
    BY <2>5, <2>7, <2>8 DEF HeldBy
<1>3. QED
  BY <1>1, <1>2

(* The steps of a click.                                                   *)
LEMMA ClickIsHeld ==
  ASSUME TypeInv, KeysInv, HeldInv, NEW h \in Requests,
         \/ \E a \in AuctionIds : ClickArrives(h, a)
         \/ LockSettle(h) \/ ClickStep(h)
  PROVE  HeldBy(h) /\ \A g \in Requests \ {h} : Still(g)
<1> USE DEF TypeInv, TypeOK, LocalsOK, Locals, Accept, Answer, Goto, Unlock,
        memory, locals, tracker, advertisers, auctionLog, history, bounds
<1>0. /\ HoldsWinner(h) /\ HeldKey(h)
      /\ pc[h] \in Clicking => auctionOf[h] <= lastAuction
      /\ pc[h] # "idle" => idOf[h] \in Ids
  BY DEF HeldInv, Recorded
<1>1. \A g \in Requests \ {h} : Still(g)
  BY DEF ClickArrives, LockSettle, ClickStep, CheckFirstClick, ReadPayment,
     ResolveKey, Charge, ChargeFails, LogClick, Still
<1>2. ASSUME NEW a \in AuctionIds, ClickArrives(h, a) PROVE HeldBy(h)
  <2>1. /\ pc'[h] = "lock" /\ auctionOf'[h] = a /\ idOf'[h] = won[a].winner
        /\ won' = won /\ lastAuction' = lastAuction /\ a <= lastAuction
    BY <1>2 DEF ClickArrives, HeldInv, Recorded
  <2>2. QED
    BY <1>1, <2>1 DEF HeldBy, HoldsWinner, HeldKey, WonBy
<1>3. CASE LockSettle(h) \/ CheckFirstClick(h)
  <2>1. /\ pc[h] \in {"lock", "dedup"} /\ pc'[h] \in {"dedup", "price", "log"}
        /\ UNCHANGED <<idOf, auctionOf, won, lastAuction>>
    BY <1>3 DEF LockSettle, CheckFirstClick
  <2>2. QED
    BY <1>1, <1>0, <2>1 DEF HeldBy, HoldsWinner, HeldKey, WonBy, Clicking, Critical
<1>4. CASE ReadPayment(h)
  <2>1. /\ pc[h] = "price" /\ pc'[h] \in {"resolve", "log"}
        /\ idOf'[h] = idOf[h] /\ auctionOf'[h] = auctionOf[h]
        /\ pc'[h] = "resolve" => amountOf'[h] > 0
        /\ UNCHANGED <<won, lastAuction>>
    BY <1>4 DEF ReadPayment, Owes
  <2>2. QED
    BY <1>1, <1>0, <2>1 DEF HeldBy, HoldsWinner, HeldKey, WonBy, Clicking, Critical
<1>5. CASE ResolveKey(h)
  <2>1. /\ pc[h] = "resolve" /\ pc'[h] = "charge"
        /\ idOf'[h] \in {idOf[h], KeyOf(idOf[h])}
        /\ auctionOf'[h] = auctionOf[h] /\ amountOf'[h] = amountOf[h]
        /\ UNCHANGED <<won, lastAuction, nextId, budgetKey>>
    BY <1>5 DEF ResolveKey
  <2>2. idOf[h] = WonBy(h) /\ WonBy(h)' = WonBy(h) /\ idOf[h] \in Ids
    BY <1>0, <2>1 DEF HoldsWinner, WonBy
  <2>3. \/ KeyOf(idOf[h]) = idOf[h]
        \/ idOf[h] < nextId /\ KeyOf(idOf[h]) = budgetKey[idOf[h]]
    BY DEF KeyOf, KeysInv, Used
  <2>4. QED
    BY <1>1, <1>0, <2>1, <2>2, <2>3 DEF HeldBy, HoldsWinner, HeldKey, WonBy, Clicking, Critical
<1>6. CASE Charge(h)
  <2>1. /\ pc[h] = "charge" /\ pc'[h] = "log"
        /\ UNCHANGED <<auctionOf, lastAuction>>
    BY <1>6 DEF Charge
  <2>2. QED
    BY <1>1, <1>0, <2>1 DEF HeldBy, HoldsWinner, HeldKey, WonBy, Clicking, Critical
<1>7. CASE ChargeFails(h) \/ LogClick(h)
  <2>1. pc'[h] = "idle"
    BY <1>7 DEF ChargeFails, LogClick
  <2>2. QED
    BY <1>1, <2>1 DEF HeldBy, HoldsWinner, HeldKey, WonBy, Clicking, Critical
<1>8. QED
  BY <1>1, <1>2, <1>3, <1>4, <1>5, <1>6, <1>7 DEF ClickStep

LEMMA HeldNext == TypeInv /\ KeysInv /\ HeldInv /\ [Next]_vars => HeldInv'
<1> SUFFICES ASSUME TypeInv, KeysInv, HeldInv, [Next]_vars PROVE HeldInv'
  OBVIOUS
<1>1. CASE Crash
  <2>1. /\ \A h \in Requests : pc'[h] = "idle"
        /\ UNCHANGED <<auctions, lastAuction>>
    BY <1>1 DEF Crash, auctionLog
  <2>2. QED
    BY <2>1 DEF HeldInv, Recorded, HoldsWinner, HeldKey, Clicking, Critical
<1>2. CASE ~Crash
  <2>1. RecordsKept
    BY <1>2, StepsKeepRecords DEF HeldInv
  <2>2. \A g \in Requests : Still(g) => HeldBy(g)
    BY <2>1, StillHolds
  <2>3. ASSUME NEW h \in Requests,
               \/ \E a \in AuctionIds : ClickArrives(h, a)
               \/ LockSettle(h) \/ ClickStep(h)
        PROVE  \A g \in Requests : HeldBy(g)
    BY <2>2, <2>3, ClickIsHeld
  <2>4. ASSUME NEW h \in Requests,
               pc'[h] \notin Clicking, \A g \in Requests \ {h} : Still(g)
        PROVE  \A g \in Requests : HeldBy(g)
    <3>1. HeldBy(h)
      BY <2>4 DEF HeldBy, HoldsWinner, HeldKey, Clicking, Critical
    <3>2. QED
      BY <2>2, <2>4, <3>1
  <2>5. ASSUME NEW h \in Requests,
               \/ \E n \in GroupSizes, total \in Totals : RegisterRows(h, n, total)
               \/ \E id \in Ids, total \in Totals : UpdateRead(h, id, total)
               \/ \E id \in Ids : DeletePositions(h, id)
               \/ \E id \in Ids, payment \in Payments : WinAuction(h, id, payment)
        PROVE  pc'[h] \notin Clicking /\ \A g \in Requests \ {h} : Still(g)
    BY <2>5 DEF TypeInv, TypeOK, Locals, Accept, Goto, Clicking, Critical, Still,
       RegisterRows, UpdateRead, DeletePositions, WinAuction
  <2>6. ASSUME NEW h \in Requests,
               \/ FundBudget(h) \/ UpdateMemory(h) \/ UpdateRow(h)
               \/ UpdateBudgetRow(h) \/ UpdateTracker(h)
               \/ DeleteRow(h) \/ DeleteBudget(h) \/ RecordAuction(h)
        PROVE  pc'[h] \notin Clicking /\ \A g \in Requests \ {h} : Still(g)
    BY <2>6 DEF TypeInv, TypeOK, Locals, Answer, Goto, Clicking, Critical, Still,
       FundBudget, UpdateMemory, UpdateRow, UpdateBudgetRow, UpdateTracker,
       DeleteRow, DeleteBudget, RecordAuction, locals
  <2>7. ASSUME \/ \E h \in Requests, n \in GroupSizes : RegisterFails(h, n)
               \/ ResetStats \/ UNCHANGED vars
        PROVE  \A g \in Requests : HeldBy(g)
    BY <2>2, <2>7 DEF RegisterFails, ResetStats, vars, locals, Still
  <2>8. \A g \in Requests : HeldBy(g)
    BY <1>2, <2>3, <2>4, <2>5, <2>6, <2>7 DEF Next, Arrival, Step
  <2>9. QED
    BY <2>1, <2>8 DEF HeldInv, HeldBy, RecordsKept, Recorded
<1>3. QED
  BY <1>1, <1>2

(* The budget charged is the one the winner spends from, for every number  *)
(* of requests and ids, every operation and every fault: a key resolved    *)
(* before a deletion, a registration or a budget update is still the       *)
(* winner's key after it, and an id that is not its own key has no budget. *)
THEOREM WinnersBudgetIsCharged == Spec => ChargedToWinnersBudget
<1> DEFINE Right ==
      \A a \in AuctionIds, k \in Ids :
        billed'[a] # billed[a] /\ billedTo'[k] # billedTo[k]
          => k = budgetKey[won[a].winner]
<1>1. Init => KeysInv /\ HeldInv
  BY KeysInit DEF Init, HeldInv, Recorded, HoldsWinner, HeldKey, Clicking, Critical
<1>2. TypeInv /\ KeysInv /\ HeldInv /\ [Next]_vars => KeysInv' /\ HeldInv'
  BY KeysNext, HeldNext
<1>3. TypeInv /\ KeysInv /\ HeldInv /\ [Next]_vars => [Right]_vars
  <2> SUFFICES ASSUME TypeInv, KeysInv, HeldInv, Next,
                      NEW a \in AuctionIds, NEW k \in Ids,
                      billed'[a] # billed[a], billedTo'[k] # billedTo[k]
               PROVE  k = budgetKey[won[a].winner]
    OBVIOUS
  <2>1. PICK h \in Requests : Charge(h)
    <3>1. ASSUME NEW h \in Requests, Arrival(h) \/ LockSettle(h) PROVE billed' = billed
      BY <3>1 DEF Arrival, RegisterRows, RegisterFails, UpdateRead, DeletePositions,
         WinAuction, ClickArrives, LockSettle, history
    <3>2. ASSUME NEW h \in Requests, Step(h), ~Charge(h) PROVE billed' = billed
      BY <3>2 DEF Step, ClickStep, FundBudget, UpdateMemory, UpdateRow,
         UpdateBudgetRow, UpdateTracker, DeleteRow, DeleteBudget, RecordAuction,
         CheckFirstClick, ReadPayment, ResolveKey, ChargeFails, LogClick, history
    <3>3. ResetStats \/ Crash => billed' = billed
      BY DEF ResetStats, Crash, history
    <3>4. QED
      BY <3>1, <3>2, <3>3 DEF Next
  <2>2. /\ pc[h] = "charge" /\ a = auctionOf[h] /\ k = idOf[h]
        /\ CanAfford(k, amountOf[h])
    BY <2>1 DEF Charge, TypeInv, TypeOK
  <2>3. budgets[k] > 0
    <3>1. amountOf[h] > 0 /\ amountOf[h] \in Nat
      BY <2>2 DEF HeldInv, HeldKey, TypeInv, TypeOK
    <3>2. budgets[k] \in Nat /\ spent[k] \in Nat
      BY DEF TypeInv, TypeOK
    <3>3. QED
      BY <2>2, <3>1, <3>2 DEF CanAfford
  <2>4. budgetKey[k] = k
    BY <2>2, <2>3 DEF KeysInv, Heads, CanAfford
  <2>5. k = WonBy(h) \/ k = budgetKey[WonBy(h)]
    BY <2>2 DEF HeldInv, HeldKey
  <2>6. QED
    BY <2>2, <2>4, <2>5 DEF WonBy
<1>4. QED
  BY <1>1, <1>2, <1>3, TypeInvariant, PTL DEF Spec, ChargedToWinnersBudget

-----------------------------------------------------------------------------
(***************************************************************************)
(* The refinement of IdealBilling, with no failing log, crash or budget    *)
(* update (double_charge and lost_charge show why).  Besides OnceInv and   *)
(* Funds it takes that an id without a row has no balance and that a       *)
(* charge is for more than nothing.                                        *)
(***************************************************************************)
ledger == <<rows, budgetTotal, budgetSpent, clicked, billed>>

Gone == \A k \in Ids \ rows : budgetTotal[k] = 0 /\ budgetSpent[k] = 0
Due == \A h \in Requests : pc[h] \in {"resolve", "charge"} => amountOf[h] > 0
RefInv == OnceInv /\ FundsInv /\ updates = 0 /\ Gone /\ Due

(* The steps that change what IdealBilling sees.                           *)
LEMMA LedgerSteps ==
  ASSUME [Next]_vars
  PROVE  \/ UNCHANGED ledger
         \/ \E h \in Requests :
              \/ \E n \in GroupSizes, total \in Totals : RegisterRows(h, n, total)
              \/ UpdateBudgetRow(h) \/ DeleteRow(h) \/ Charge(h) \/ LogClick(h)
<1> USE DEF ledger, advertisers, auctionLog, history
<1>1. ASSUME NEW h \in Requests, Arrival(h),
             \A n \in GroupSizes, total \in Totals : ~RegisterRows(h, n, total)
      PROVE  UNCHANGED ledger
  BY <1>1 DEF Arrival, RegisterFails, UpdateRead, DeletePositions, WinAuction,
     ClickArrives
<1>2. ASSUME NEW h \in Requests,
             \/ FundBudget(h) \/ UpdateMemory(h) \/ UpdateRow(h)
             \/ UpdateTracker(h) \/ DeleteBudget(h) \/ RecordAuction(h)
      PROVE  UNCHANGED ledger
  BY <1>2 DEF FundBudget, UpdateMemory, UpdateRow, UpdateTracker, DeleteBudget,
     RecordAuction
<1>3. ASSUME NEW h \in Requests,
             \/ LockSettle(h) \/ CheckFirstClick(h) \/ ReadPayment(h)
             \/ ResolveKey(h) \/ ChargeFails(h)
      PROVE  UNCHANGED ledger
  BY <1>3 DEF LockSettle, CheckFirstClick, ReadPayment, ResolveKey, ChargeFails
<1>4. CASE ResetStats \/ Crash \/ UNCHANGED vars
  BY <1>4 DEF ResetStats, Crash, vars
<1>5. QED
  BY <1>1, <1>2, <1>3, <1>4 DEF Next, Step, ClickStep

LEMMA NoUpdates ==
  ASSUME MaxUpdates = 0
  PROVE  updates = 0 /\ [Next]_vars => updates' = 0
<1> SUFFICES ASSUME updates = 0, [Next]_vars PROVE updates' = 0
  OBVIOUS
<1> USE DEF bounds
<1>1. ASSUME NEW h \in Requests, Arrival(h) PROVE updates' = 0
  <2>1. ASSUME NEW id \in Ids, NEW total \in Totals, UpdateRead(h, id, total)
        PROVE  FALSE
    BY <2>1 DEF UpdateRead
  <2>2. QED
    BY <1>1, <2>1 DEF Arrival, RegisterRows, RegisterFails, DeletePositions,
       WinAuction, ClickArrives
<1>2. ASSUME NEW h \in Requests,
             \/ FundBudget(h) \/ UpdateMemory(h) \/ UpdateRow(h)
             \/ UpdateBudgetRow(h) \/ UpdateTracker(h)
      PROVE  updates' = 0
  BY <1>2 DEF FundBudget, UpdateMemory, UpdateRow, UpdateBudgetRow, UpdateTracker
<1>3. ASSUME NEW h \in Requests,
             DeleteRow(h) \/ DeleteBudget(h) \/ RecordAuction(h)
      PROVE  updates' = 0
  BY <1>3 DEF DeleteRow, DeleteBudget, RecordAuction
<1>4. ASSUME NEW h \in Requests,
             \/ LockSettle(h) \/ CheckFirstClick(h) \/ ReadPayment(h)
             \/ ResolveKey(h)
      PROVE  updates' = 0
  BY <1>4 DEF LockSettle, CheckFirstClick, ReadPayment, ResolveKey
<1>5. ASSUME NEW h \in Requests, Charge(h) \/ ChargeFails(h) \/ LogClick(h)
      PROVE  updates' = 0
  BY <1>5 DEF Charge, ChargeFails, LogClick
<1>6. CASE ResetStats \/ Crash \/ UNCHANGED vars
  BY <1>6 DEF ResetStats, Crash, vars
<1>7. QED
  BY <1>1, <1>2, <1>3, <1>4, <1>5, <1>6 DEF Next, Step, ClickStep

LEMMA GoneNext == TypeInv /\ Gone /\ [Next]_vars => Gone'
<1> SUFFICES ASSUME TypeInv, Gone, [Next]_vars PROVE Gone'
  OBVIOUS
<1> USE DEF TypeInv, TypeOK
<1>1. CASE UNCHANGED ledger
  BY <1>1 DEF ledger, Gone
<1>2. ASSUME NEW h \in Requests, NEW n \in GroupSizes, NEW total \in Totals,
             RegisterRows(h, n, total)
      PROVE  Gone'
  <2> DEFINE new == nextId .. nextId + n - 1
  <2>1. nextId \in new
    BY <1>2, NewIds DEF RegisterRows, FirstNewId
  <2>2. QED
    BY <1>2, <2>1 DEF RegisterRows, FirstNewId, Gone
<1>3. ASSUME NEW h \in Requests, UpdateBudgetRow(h) PROVE Gone'
  BY <1>3 DEF UpdateBudgetRow, Gone
<1>4. ASSUME NEW h \in Requests, DeleteRow(h) PROVE Gone'
  BY <1>4 DEF DeleteRow, Gone
<1>5. ASSUME NEW h \in Requests, Charge(h) PROVE Gone'
  <2>1. idOf[h] \in rows /\ rows' = rows /\ budgetTotal' = budgetTotal
    BY <1>5 DEF Charge
  <2>2. \A k \in Ids : k # idOf[h] => budgetSpent'[k] = budgetSpent[k]
    BY <1>5 DEF Charge, Debited
  <2>3. QED
    BY <2>1, <2>2 DEF Gone
<1>6. ASSUME NEW h \in Requests, LogClick(h) PROVE Gone'
  BY <1>6 DEF LogClick, advertisers, Gone
<1>7. QED
  BY <1>1, <1>2, <1>3, <1>4, <1>5, <1>6, LedgerSteps

LEMMA DueNext == TypeInv /\ Due /\ [Next]_vars => Due'
<1> SUFFICES ASSUME TypeInv, Due, [Next]_vars PROVE Due'
  OBVIOUS
<1> USE DEF TypeInv, TypeOK, Locals, Accept, Answer, Goto, Unlock, memory, locals,
        tracker, advertisers, auctionLog, history, bounds, Due
<1>1. ASSUME NEW h \in Requests, Arrival(h) PROVE Due'
  BY <1>1 DEF Arrival, RegisterRows, RegisterFails, UpdateRead, DeletePositions,
     WinAuction, ClickArrives
<1>2. ASSUME NEW h \in Requests,
             \/ FundBudget(h) \/ UpdateMemory(h) \/ UpdateRow(h)
             \/ UpdateBudgetRow(h) \/ UpdateTracker(h)
      PROVE  Due'
  BY <1>2 DEF FundBudget, UpdateMemory, UpdateRow, UpdateBudgetRow, UpdateTracker
<1>3. ASSUME NEW h \in Requests,
             DeleteRow(h) \/ DeleteBudget(h) \/ RecordAuction(h)
      PROVE  Due'
  BY <1>3 DEF DeleteRow, DeleteBudget, RecordAuction
<1>4. ASSUME NEW h \in Requests, LockSettle(h) \/ CheckFirstClick(h) PROVE Due'
  BY <1>4 DEF LockSettle, CheckFirstClick
<1>5. ASSUME NEW h \in Requests, ReadPayment(h) PROVE Due'
  BY <1>5 DEF ReadPayment, Owes
<1>6. ASSUME NEW h \in Requests, ResolveKey(h) PROVE Due'
  BY <1>6 DEF ResolveKey
<1>7. ASSUME NEW h \in Requests, Charge(h) \/ ChargeFails(h) \/ LogClick(h)
      PROVE  Due'
  BY <1>7 DEF Charge, ChargeFails, LogClick
<1>8. CASE ResetStats \/ UNCHANGED vars
  BY <1>8 DEF ResetStats, vars
<1>9. CASE Crash
  BY <1>9 DEF Crash
<1>10. QED
  BY <1>1, <1>2, <1>3, <1>4, <1>5, <1>6, <1>7, <1>8, <1>9
  DEF Next, Step, ClickStep

LEMMA RefInit == Init => RefInv
  BY SettleInit, FundsInit
  DEF Init, RefInv, OnceInv, ChargedAtMostOnce, Gone, Due

LEMMA RefNext ==
  ASSUME "log" \notin Faults, "crash" \notin Operations, MaxUpdates = 0
  PROVE  RefInv /\ [Next]_vars => RefInv'
  BY OnceNext, FundsNext, NoUpdates, GoneNext, DueNext
  DEF RefInv, OnceInv, SettleInv

(* Steps of IdealBilling, from what happens to each account.               *)
LEMMA IdealOpen ==
  ASSUME NEW K \in SUBSET Ids, NEW k \in K, K \cap rows = {},
         budgetTotal'[k] \in Nat \ {0}, budgetSpent'[k] = 0,
         \A i \in Ids : i # k =>
           budgetTotal'[i] - budgetSpent'[i] = budgetTotal[i] - budgetSpent[i],
         rows' = rows \cup K, clicked' = clicked, billed' = billed
  PROVE  Ideal!Next
<1> DEFINE left == [i \in Ids |-> budgetTotal[i] - budgetSpent[i]]
<1>1. left' = [i \in Ids |-> budgetTotal'[i] - budgetSpent'[i]]
  OBVIOUS
<1>2. k \in Ids /\ left'[k] \in Nat \ {0}
  BY <1>1
<1>3. left' = [left EXCEPT ![k] = left'[k]]
  BY <1>1, <1>2
<1>4. Ideal!Open(k, K)
  BY <1>2, <1>3 DEF Ideal!Open
<1>5. QED
  BY <1>4 DEF Ideal!Next

LEMMA IdealClose ==
  ASSUME NEW k \in Ids, k \in rows, rows' = rows \ {k},
         budgetTotal'[k] = 0, budgetSpent'[k] = 0,
         \A i \in Ids : i # k =>
           budgetTotal'[i] - budgetSpent'[i] = budgetTotal[i] - budgetSpent[i],
         clicked' = clicked, billed' = billed
  PROVE  Ideal!Next
<1> DEFINE left == [i \in Ids |-> budgetTotal[i] - budgetSpent[i]]
<1>1. left' = [i \in Ids |-> budgetTotal'[i] - budgetSpent'[i]]
  OBVIOUS
<1>2. left'[k] = 0
  BY <1>1
<1>3. left' = [left EXCEPT ![k] = 0]
  BY <1>1, <1>2
<1>4. Ideal!Close(k)
  BY <1>3 DEF Ideal!Close
<1>5. QED
  BY <1>4 DEF Ideal!Next

LEMMA IdealBill ==
  ASSUME NEW a \in AuctionIds, NEW k \in Ids, NEW amount \in Nat,
         a \notin clicked, billed[a] = 0, k \in rows,
         amount \in 1 .. budgetTotal[k] - budgetSpent[k],
         budgetTotal'[k] - budgetSpent'[k] = budgetTotal[k] - budgetSpent[k] - amount,
         \A i \in Ids : i # k =>
           budgetTotal'[i] - budgetSpent'[i] = budgetTotal[i] - budgetSpent[i],
         billed'[a] = 1, \A b \in AuctionIds : b # a => billed'[b] = billed[b],
         clicked' = clicked, rows' = rows
  PROVE  Ideal!Next
<1>1. {b \in AuctionIds : billed'[b] > 0}
        = {b \in AuctionIds : billed[b] > 0} \cup {a}
  OBVIOUS
<1>2. a \notin clicked \cup {b \in AuctionIds : billed[b] > 0}
  OBVIOUS
<1>3. [i \in Ids |-> budgetTotal'[i] - budgetSpent'[i]]
        = [[i \in Ids |-> budgetTotal[i] - budgetSpent[i]]
             EXCEPT ![k] = @ - amount]
  OBVIOUS
<1>4. Ideal!Bill(a, k)
  BY <1>1, <1>2, <1>3 DEF Ideal!Bill
<1>5. QED
  BY <1>4 DEF Ideal!Next

LEMMA IdealFree ==
  ASSUME NEW a \in AuctionIds, clicked' = clicked \cup {a},
         UNCHANGED <<rows, budgetTotal, budgetSpent, billed>>
  PROVE  Ideal!Next
<1>1. Ideal!SettleFree(a)
  BY DEF Ideal!SettleFree
<1>2. QED
  BY <1>1 DEF Ideal!Next

(* Every step of settlement is a step of IdealBilling, or changes nothing  *)
(* that it sees.                                                           *)
LEMMA StepIsIdeal ==
  ASSUME RefInv, [Next]_vars
  PROVE  [Ideal!Next]_(Ideal!vars)
<1>0. /\ TypeInv /\ Funds /\ updates = 0 /\ Gone /\ Due /\ OnceInv
      /\ FirstInv /\ MutexInv /\ TypeOK /\ LocalsOK
  BY DEF RefInv, OnceInv, SettleInv, FundsInv, TypeInv
<1>1. CASE UNCHANGED ledger
  BY <1>1 DEF ledger, Ideal!vars
<1>2. ASSUME NEW h \in Requests, NEW n \in GroupSizes, NEW total \in Totals,
             RegisterRows(h, n, total)
      PROVE  Ideal!Next
  <2> DEFINE new == nextId .. nextId + n - 1
  <2>1. new \subseteq Ids /\ nextId \in 1 .. MaxId + 1
    BY <1>0, <1>2 DEF RegisterRows, FirstNewId, TypeOK
  <2>2. nextId \in new /\ nextId \in Ids
    BY <1>0, <2>1, NewIds
  <2>3. new \cap rows = {}
    BY <1>0, <2>1 DEF Funds, GivenOut, Ids, TypeOK
  <2>4. rows' = rows \cup new /\ clicked' = clicked /\ billed' = billed
    BY <1>2 DEF RegisterRows, FirstNewId, auctionLog
  <2>5. /\ budgetTotal'[nextId] \in Nat \ {0} /\ budgetSpent'[nextId] = 0
    BY <1>2, <2>2, AmountsAreNumbers DEF RegisterRows, FirstNewId
  <2>6. \A i \in Ids : i # nextId =>
          budgetTotal'[i] - budgetSpent'[i] = budgetTotal[i] - budgetSpent[i]
    <3>1. ASSUME NEW i \in new, i # nextId
          PROVE  budgetTotal'[i] - budgetSpent'[i] = budgetTotal[i] - budgetSpent[i]
      BY <1>0, <1>2, <2>1, <2>3, <3>1 DEF RegisterRows, FirstNewId, Gone
    <3>2. ASSUME NEW i \in Ids \ new
          PROVE  budgetTotal'[i] - budgetSpent'[i] = budgetTotal[i] - budgetSpent[i]
      BY <1>2, <2>2, <3>2 DEF RegisterRows, FirstNewId
    <3>3. QED
      BY <3>1, <3>2
  <2>7. PICK K \in SUBSET Ids, k \in Ids : K = new /\ k = nextId
    BY <2>1, <2>2
  <2>8. QED
    BY <2>2, <2>3, <2>4, <2>5, <2>6, <2>7, IdealOpen
<1>3. ASSUME NEW h \in Requests, UpdateBudgetRow(h) PROVE FALSE
  BY <1>0, <1>3 DEF UpdateBudgetRow, Funds, NoUpdate, Updating
<1>4. ASSUME NEW h \in Requests, DeleteRow(h) PROVE [Ideal!Next]_(Ideal!vars)
  <2>1. clicked' = clicked /\ billed' = billed
    BY <1>4 DEF DeleteRow, auctionLog, history
  <2>2. CASE UNCHANGED <<rows, budgetTotal, budgetSpent>>
    BY <1>1, <2>1, <2>2 DEF ledger
  <2>3. ASSUME NEW id \in doomed[h],
               /\ id \in rows /\ rows' = rows \ {id}
               /\ budgetTotal' = [budgetTotal EXCEPT ![id] = 0]
               /\ budgetSpent' = [budgetSpent EXCEPT ![id] = 0]
        PROVE  Ideal!Next
    <3>1. PICK k \in Ids : k = id
      BY <1>0 DEF TypeOK
    <3>2. /\ budgetTotal'[k] = 0 /\ budgetSpent'[k] = 0
          /\ \A i \in Ids : i # k =>
               budgetTotal'[i] - budgetSpent'[i] = budgetTotal[i] - budgetSpent[i]
      BY <1>0, <2>3, <3>1 DEF TypeOK
    <3>3. QED
      BY <2>1, <2>3, <3>1, <3>2, IdealClose
  <2>4. QED
    BY <1>4, <2>2, <2>3 DEF DeleteRow
<1>5. ASSUME NEW h \in Requests, Charge(h) PROVE Ideal!Next
  <2>1. /\ pc[h] = "charge" /\ idOf[h] \in tracked \cap rows /\ idOf[h] \in Ids
        /\ auctionOf[h] \in AuctionIds /\ amountOf[h] \in Nat /\ amountOf[h] > 0
    BY <1>0, <1>5 DEF Charge, CanAfford, Due, TypeOK, LocalsOK, Clicking, Critical
  <2>2. PICK k \in Ids, a \in AuctionIds, amount \in Nat :
             k = idOf[h] /\ a = auctionOf[h] /\ amount = amountOf[h]
    BY <2>1
  <2>3. a \notin clicked
    BY <1>0, <2>1, <2>2 DEF FirstInv
  <2>4. \A g \in Requests : pc[g] # "log"
    BY <1>0, <2>1 DEF MutexInv, Critical
  <2>5. billed[a] = 0
    BY <1>0, <2>3, <2>4 DEF OnceInv, TypeOK
  <2>6. budgets[k] = budgetTotal[k] /\ spent[k] = budgetSpent[k]
    BY <1>0, <2>1, <2>2 DEF Funds, Cached
  <2>7. RowCanPay(k, amount)
    BY <1>5, <2>2, <2>6 DEF Charge, CanAfford, RowCanPay
  <2>8. /\ budgetSpent' = [budgetSpent EXCEPT ![k] = @ + amount]
        /\ billed' = [billed EXCEPT ![a] = @ + 1]
        /\ UNCHANGED <<rows, budgetTotal, clicked>>
    BY <1>5, <2>2, <2>7 DEF Charge, Debited, auctionLog
  <2>9. /\ amount \in 1 .. budgetTotal[k] - budgetSpent[k]
        /\ budgetTotal'[k] - budgetSpent'[k]
             = budgetTotal[k] - budgetSpent[k] - amount
    BY <1>0, <2>1, <2>2, <2>7, <2>8 DEF RowCanPay, TypeOK
  <2>10. /\ \A i \in Ids : i # k =>
               budgetTotal'[i] - budgetSpent'[i] = budgetTotal[i] - budgetSpent[i]
         /\ billed'[a] = 1
         /\ \A b \in AuctionIds : b # a => billed'[b] = billed[b]
    BY <1>0, <2>5, <2>8 DEF TypeOK
  <2>11. QED
    BY <2>1, <2>2, <2>3, <2>5, <2>8, <2>9, <2>10, IdealBill
<1>6. ASSUME NEW h \in Requests, LogClick(h) PROVE [Ideal!Next]_(Ideal!vars)
  <2>1. auctionOf[h] \in AuctionIds
    BY <1>0, <1>6 DEF LogClick, LocalsOK, Clicking, Critical
  <2>2. UNCHANGED <<rows, budgetTotal, budgetSpent, billed>>
    BY <1>6 DEF LogClick, advertisers, history
  <2>3. CASE UNCHANGED clicked
    BY <1>1, <2>2, <2>3 DEF ledger
  <2>4. CASE clicked' = clicked \cup {auctionOf[h]}
    <3>1. PICK a \in AuctionIds : a = auctionOf[h]
      BY <2>1
    <3>2. QED
      BY <2>2, <2>4, <3>1, IdealFree
  <2>5. QED
    BY <1>6, <2>3, <2>4 DEF LogClick
<1>7. QED
  BY <1>1, <1>2, <1>3, <1>4, <1>5, <1>6, LedgerSteps

(* With no failing log, no crash and no budget update, settlement is the   *)
(* one-step billing of IdealBilling, although reads and charges may fail,  *)
(* requests interleave and the log is reset.                               *)
THEOREM RefinementTheorem ==
  ASSUME "log" \notin Faults, "crash" \notin Operations, MaxUpdates = 0
  PROVE  Spec => ImplementsIdealBilling
<1>1. Init => Ideal!Init
  BY DEF Init, Ideal!Init
<1>2. RefInv /\ [Next]_vars => [Ideal!Next]_(Ideal!vars)
  BY StepIsIdeal
<1>3. RefInv /\ [Next]_vars => RefInv'
  BY RefNext
<1>4. Init => RefInv
  BY RefInit
<1>5. QED
  BY <1>1, <1>2, <1>3, <1>4, PTL DEF Spec, ImplementsIdealBilling, Ideal!Spec
=============================================================================
