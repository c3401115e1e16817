----------------------------- MODULE Settlement -----------------------------
(***************************************************************************)
(* Click settlement of the ad server: an auction is recorded with a winner *)
(* and a payment, and the first click on it charges the payment to the     *)
(* budget the winner spends from.                                          *)
(*                                                                         *)
(* The budget exists twice: in the memory of the BudgetTracker (budgets)   *)
(* and in the advertisers table (table).  Every HTTP request runs in a     *)
(* goroutine of its own; each action below is one step of one of them, and *)
(* two steps that the code does under different locks or in different      *)
(* database statements are different actions.  A crash loses the memory    *)
(* and every request in flight and keeps the database.                     *)
(*                                                                         *)
(* Amounts are natural numbers: the code's float64 amounts are sums and    *)
(* differences of a few prices, and nothing here depends on rounding.      *)
(***************************************************************************)
EXTENDS Integers

CONSTANTS
  Requests,          \* goroutines serving requests
  MaxId,             \* bound: advertiser ids are 1..MaxId ("adv-1", ...)
  MaxAuctions,       \* bound: auction ids are 1..MaxAuctions
  MaxRegistrations,  \* bound: registrations of a behaviour
  MaxUpdates,        \* bound: budget updates of a behaviour
  GroupSizes,        \* sizes a registration may have; a keyword group has > 1
  Totals,            \* budgets an advertiser may ask for
  Payments,          \* payments an auction may end with
  Operations,        \* which of "update", "delete", "reset", "crash" occur
  Faults             \* which of "read", "log", "persist" statements may fail

Ids == 1..MaxId
AuctionIds == 1..MaxAuctions

ASSUME BoundsAreNumbers ==
  /\ MaxId \in Nat
  /\ MaxAuctions \in Nat
  /\ MaxRegistrations \in Nat
  /\ MaxUpdates \in Nat
  /\ GroupSizes \subseteq Nat \ {0}
ASSUME AmountsAreNumbers ==
  /\ Totals \subseteq Nat \ {0}
  /\ Payments \subseteq Nat
ASSUME NoRequestIsFree == "free" \notin Requests

VARIABLES
  \* memory of the server
  positions,      \* ids in PositionRegistry.positions
  nextId,         \* the id the next Register will use
  tracked,        \* ids in BudgetTracker.budgets
  budgets,        \* budgets[k]: BudgetTracker.budgets, the total of a tracked id
  spent,          \* spent[k]: BudgetTracker.spent
  settleMu,       \* holder of EventHandler.settleMu, or "free"
  pc,             \* pc[h]: the next step of request h
  auctionOf, idOf, amountOf, doomed,   \* local variables of each request
  \* database
  rows,           \* ids in the advertisers table
  budgetKey,      \* the id whose budget an advertiser spends from
  budgetTotal,    \* budgetTotal[k]: column budget_total of a row
  budgetSpent,    \* budgetSpent[k]: column budget_spent of a row
  auctions,       \* ids in the auctions table
  lastAuction,    \* AUTOINCREMENT: the last auction id handed out
  won,            \* won[a]: winner_id and payment of auction a
  clicked,        \* auctions with a click in the events table
  \* history
  billed,         \* billed[a]: how often a click on a was answered by a charge
  billedTo,       \* billedTo[k]: amount charged to id k since it was registered
  registrations, updates

locals == <<auctionOf, idOf, amountOf, doomed>>
tracker == <<tracked, budgets, spent>>
memory == <<positions, nextId, tracker>>
advertisers == <<rows, budgetKey, budgetTotal, budgetSpent>>
auctionLog == <<auctions, lastAuction, won, clicked>>
history == <<billed, billedTo>>
bounds == <<registrations, updates>>
vars == <<positions, nextId, tracked, budgets, spent, settleMu, pc,
          auctionOf, idOf, amountOf, doomed, rows, budgetKey, budgetTotal,
          budgetSpent, auctions, lastAuction, won, clicked,
          billed, billedTo, registrations, updates>>

Critical == {"dedup", "price", "resolve", "charge", "log"}
Labels == {"idle", "lock", "record", "fund", "rewrite", "persist", "rebudget",
           "reset_spent", "delete_rows", "delete_budget"} \cup Critical

(***************************************************************************)
(* BudgetTracker.CanAfford, and the same test on the row in DB.Charge.     *)
(***************************************************************************)
CanAffordAnything(k, amount) == k \in tracked   \* mutant
CanAfford(k, amount) == k \in tracked /\ budgets[k] - spent[k] >= amount
RowCanPay(k, amount) == budgetTotal[k] - budgetSpent[k] >= amount

(***************************************************************************)
(* EventHandler.budgetKey: the registry's position, else the row, else the *)
(* id itself.  A position and its row never disagree on BudgetID.          *)
(***************************************************************************)
OwnKey(id) == id   \* mutant
KeyOf(id) == IF id \in positions \cup rows THEN budgetKey[id] ELSE id

Init ==
  /\ positions = {} /\ nextId = 1
  /\ tracked = {}
  /\ budgets = [k \in Ids |-> 0] /\ spent = [k \in Ids |-> 0]
  /\ settleMu = "free"
  /\ pc = [h \in Requests |-> "idle"]
  /\ auctionOf = [h \in Requests |-> 0] /\ idOf = [h \in Requests |-> 0]
  /\ amountOf = [h \in Requests |-> 0] /\ doomed = [h \in Requests |-> {}]
  /\ rows = {} /\ budgetKey = [k \in Ids |-> k]
  /\ budgetTotal = [k \in Ids |-> 0] /\ budgetSpent = [k \in Ids |-> 0]
  /\ auctions = {} /\ lastAuction = 0
  /\ won = [a \in AuctionIds |-> [winner |-> 0, payment |-> 0]]
  /\ clicked = {}
  /\ billed = [a \in AuctionIds |-> 0]
  /\ billedTo = [k \in Ids |-> 0]
  /\ registrations = 0 /\ updates = 0

Goto(h, label) == pc' = [pc EXCEPT ![h] = label]
Locals(h, a, id, amount, ids) ==
  /\ auctionOf' = [auctionOf EXCEPT ![h] = a]
  /\ idOf' = [idOf EXCEPT ![h] = id]
  /\ amountOf' = [amountOf EXCEPT ![h] = amount]
  /\ doomed' = [doomed EXCEPT ![h] = ids]
Answer(h) == Goto(h, "idle") /\ Locals(h, 0, 0, 0, {})
Accept(h, label) == pc[h] = "idle" /\ Goto(h, label)

-----------------------------------------------------------------------------
(***************************************************************************)
(* Registration.  A single position is its own budget key; the members of  *)
(* a keyword group spend the budget of the group's first position.  When   *)
(* the row cannot be written a group is rolled back, while a single        *)
(* position stays in memory.  No other request can bill the new ids before *)
(* Budgets.Set, so the writes of RegisterWithBudget are one step here.     *)
(***************************************************************************)
LowestFreeId ==   \* mutant
  IF Ids \subseteq positions THEN nextId
  ELSE CHOOSE i \in Ids \ positions : \A j \in Ids \ positions : i <= j
FirstNewId == nextId

RegisterRows(h, n, total) ==
  LET head == FirstNewId
      new == head .. head + n - 1
  IN
  /\ registrations < MaxRegistrations
  /\ new \subseteq Ids
  /\ Accept(h, "fund")
  /\ Locals(h, 0, head, total, {})
  /\ nextId' = head + n
  /\ positions' = positions \cup new
  /\ rows' = rows \cup new
  /\ budgetKey' = [k \in Ids |-> IF k \in new THEN head ELSE budgetKey[k]]
  /\ budgetTotal' = [k \in Ids |-> IF k = head THEN total
                      ELSE IF k \in new THEN 0 ELSE budgetTotal[k]]
  /\ budgetSpent' = [k \in Ids |-> IF k \in new THEN 0 ELSE budgetSpent[k]]
  /\ billedTo' = [k \in Ids |-> IF k \in new THEN 0 ELSE billedTo[k]]
  /\ registrations' = registrations + 1
  /\ UNCHANGED <<tracker, settleMu, auctionLog, billed, updates>>

RegisterFails(h, n) ==
  LET new == nextId .. nextId + n - 1 IN
  /\ "persist" \in Faults
  /\ registrations < MaxRegistrations
  /\ new \subseteq Ids
  /\ pc[h] = "idle"
  /\ nextId' = nextId + n
  /\ positions' = IF n = 1 THEN positions \cup new ELSE positions
  /\ budgetKey' = [k \in Ids |-> IF k \in new THEN k ELSE budgetKey[k]]
  /\ registrations' = registrations + 1
  /\ UNCHANGED <<tracker, settleMu, pc, locals, rows, budgetTotal, budgetSpent,
                 auctionLog, history, updates>>

(***************************************************************************)
(* BudgetTracker.Set: the total is replaced and the amount spent is zero.  *)
(***************************************************************************)
SetBudget(k, total) ==
  /\ tracked' = tracked \cup {k}
  /\ budgets' = [budgets EXCEPT ![k] = total]
  /\ spent' = [spent EXCEPT ![k] = 0]

FundBudget(h) ==
  /\ pc[h] = "fund"
  /\ SetBudget(idOf[h], amountOf[h])
  /\ Answer(h)
  /\ UNCHANGED <<positions, nextId, settleMu, advertisers, auctionLog,
                 history, bounds>>

-----------------------------------------------------------------------------
(***************************************************************************)
(* PUT /advertiser/{id} and PUT /portal/me with a budget: Registry.Update  *)
(* reads the position, later stores the new one in memory and then in the  *)
(* database; the handler then writes the total of the budget's row and     *)
(* resets the tracker.                                                     *)
(***************************************************************************)
UpdateRead(h, id, total) ==
  /\ "update" \in Operations
  /\ updates < MaxUpdates
  /\ id \in positions
  /\ Accept(h, "rewrite")
  /\ Locals(h, 0, id, total, {})
  /\ updates' = updates + 1
  /\ UNCHANGED <<memory, settleMu, advertisers, auctionLog, history,
                 registrations>>

UpdateMemory(h) ==
  /\ pc[h] = "rewrite"
  /\ positions' = positions \cup {idOf[h]}
  /\ Goto(h, "persist")
  /\ UNCHANGED <<nextId, tracker, settleMu, locals, advertisers, auctionLog,
                 history, bounds>>

UpdateRow(h) ==
  /\ pc[h] = "persist"
  /\ \/ /\ idOf[h] \in rows
        /\ Goto(h, "rebudget")
        /\ UNCHANGED locals
     \/ /\ idOf[h] \notin rows \/ "persist" \in Faults
        /\ Answer(h)
  /\ UNCHANGED <<memory, settleMu, advertisers, auctionLog, history, bounds>>

UpdateBudgetRow(h) ==
  LET k == budgetKey[idOf[h]] IN
  /\ pc[h] = "rebudget"
  /\ \/ /\ k \in rows
        /\ budgetTotal' = [budgetTotal EXCEPT ![k] = amountOf[h]]
        /\ Goto(h, "reset_spent")
        /\ UNCHANGED locals
     \/ /\ k \notin rows \/ "persist" \in Faults
        /\ Answer(h)
        /\ UNCHANGED budgetTotal
  /\ UNCHANGED <<memory, settleMu, rows, budgetKey, budgetSpent, auctionLog,
                 history, bounds>>

UpdateTracker(h) ==
  /\ pc[h] = "reset_spent"
  /\ SetBudget(budgetKey[idOf[h]], amountOf[h])
  /\ Answer(h)
  /\ UNCHANGED <<positions, nextId, settleMu, advertisers, auctionLog,
                 history, bounds>>

-----------------------------------------------------------------------------
(***************************************************************************)
(* DELETE /advertiser/{id}: the position, and the members of the group it  *)
(* heads, leave the memory at once and the table one by one, the position  *)
(* first; the first statement that fails ends the request.  The tracker    *)
(* forgets the id last.                                                    *)
(***************************************************************************)
DeletePositions(h, id) ==
  LET ids == {id} \cup {m \in positions : budgetKey[m] = id} IN
  /\ "delete" \in Operations
  /\ id \in positions
  /\ Accept(h, "delete_rows")
  /\ Locals(h, 0, id, 0, ids)
  /\ positions' = positions \ ids
  /\ UNCHANGED <<nextId, tracker, settleMu, advertisers, auctionLog, history,
                 bounds>>

DeleteRow(h) ==
  /\ pc[h] = "delete_rows"
  /\ \E id \in doomed[h] :
       /\ idOf[h] \in doomed[h] => id = idOf[h]
       /\ \/ /\ id \in rows
             /\ rows' = rows \ {id}
             /\ budgetTotal' = [budgetTotal EXCEPT ![id] = 0]
             /\ budgetSpent' = [budgetSpent EXCEPT ![id] = 0]
             /\ Locals(h, 0, idOf[h], 0, doomed[h] \ {id})
             /\ Goto(h, IF doomed[h] = {id} THEN "delete_budget" ELSE "delete_rows")
          \/ /\ id \notin rows \/ "persist" \in Faults
             /\ Answer(h)
             /\ UNCHANGED <<rows, budgetTotal, budgetSpent>>
  /\ UNCHANGED <<memory, settleMu, budgetKey, auctionLog, history, bounds>>

DeleteBudget(h) ==
  /\ pc[h] = "delete_budget"
  /\ tracked' = tracked \ {idOf[h]}
  /\ budgets' = [budgets EXCEPT ![idOf[h]] = 0]
  /\ spent' = [spent EXCEPT ![idOf[h]] = 0]
  /\ Answer(h)
  /\ UNCHANGED <<positions, nextId, settleMu, advertisers, auctionLog,
                 history, bounds>>

-----------------------------------------------------------------------------
(***************************************************************************)
(* An auction: a position whose budget covers its bid wins and owes a      *)
(* payment no larger than the bid; the auction is recorded later, when the *)
(* budget may already be spoken for.  The auctions of the private path and *)
(* of OpenRTB end the same way.                                            *)
(***************************************************************************)
WinAuction(h, id, payment) ==
  /\ id \in positions
  /\ CanAfford(budgetKey[id], payment)
  /\ lastAuction < MaxAuctions
  /\ Accept(h, "record")
  /\ Locals(h, 0, id, payment, {})
  /\ UNCHANGED <<memory, settleMu, advertisers, auctionLog, history, bounds>>

RecordAuction(h) ==
  LET a == lastAuction + 1 IN
  /\ pc[h] = "record"
  /\ Answer(h)
  /\ \/ /\ lastAuction < MaxAuctions
        /\ lastAuction' = a
        /\ auctions' = auctions \cup {a}
        /\ won' = [won EXCEPT ![a] = [winner |-> idOf[h],
                                      payment |-> amountOf[h]]]
     \/ /\ "log" \in Faults \/ lastAuction = MaxAuctions
        /\ UNCHANGED <<lastAuction, auctions, won>>
  /\ UNCHANGED <<memory, settleMu, advertisers, clicked, history, bounds>>

(***************************************************************************)
(* POST /admin/reset: the auction log is emptied, the events stay.         *)
(***************************************************************************)
ResetStats ==
  /\ "reset" \in Operations
  /\ auctions # {}
  /\ auctions' = {}
  /\ UNCHANGED <<memory, settleMu, pc, locals, advertisers, lastAuction, won,
                 clicked, history, bounds>>

-----------------------------------------------------------------------------
(***************************************************************************)
(* POST /event/click and GET /click: the handler reads the auction's       *)
(* winner, then settleClick runs under settleMu.                           *)
(***************************************************************************)
ClickArrives(h, a) ==
  /\ a \in auctions
  /\ Accept(h, "lock")
  /\ Locals(h, a, won[a].winner, 0, {})
  /\ UNCHANGED <<memory, settleMu, advertisers, auctionLog, history, bounds>>

NeverHeld == TRUE   \* mutant
MutexFree == settleMu = "free"

LockSettle(h) ==
  /\ pc[h] = "lock"
  /\ MutexFree
  /\ settleMu' = h
  /\ Goto(h, "dedup")
  /\ UNCHANGED <<memory, locals, advertisers, auctionLog, history, bounds>>

(***************************************************************************)
(* HasClickEvent: a click that is not the first, or an error of the query, *)
(* goes straight to the log.                                               *)
(***************************************************************************)
NeverClicked(a) == FALSE   \* mutant
HasClickEvent(a) == a \in clicked

CheckFirstClick(h) ==
  /\ pc[h] = "dedup"
  /\ \/ /\ ~HasClickEvent(auctionOf[h])
        /\ Goto(h, "price")
     \/ /\ HasClickEvent(auctionOf[h]) \/ "read" \in Faults
        /\ Goto(h, "log")
  /\ UNCHANGED <<memory, settleMu, locals, advertisers, auctionLog, history,
                 bounds>>

(***************************************************************************)
(* GetAuctionPayment: an auction that is gone, an error of the query, and  *)
(* a payment of zero go straight to the log.                               *)
(***************************************************************************)
OwesMoreThanOne(a) == a \in auctions /\ won[a].payment > 1   \* mutant
Owes(a) == a \in auctions /\ won[a].payment > 0

ReadPayment(h) ==
  LET a == auctionOf[h] IN
  /\ pc[h] = "price"
  /\ \/ /\ Owes(a)
        /\ Locals(h, a, idOf[h], won[a].payment, {})
        /\ Goto(h, "resolve")
     \/ /\ ~Owes(a) \/ "read" \in Faults
        /\ Goto(h, "log")
        /\ UNCHANGED locals
  /\ UNCHANGED <<memory, settleMu, advertisers, auctionLog, history, bounds>>

(***************************************************************************)
(* budgetKey in settleClick.  The row is read only when the registry does  *)
(* not have the id; when that read fails the id itself is the key.  The    *)
(* two reads are one step: the key is written once, to both places, and a  *)
(* click that finds the id in neither is given the id.                     *)
(***************************************************************************)
ResolveKey(h) ==
  /\ pc[h] = "resolve"
  /\ \/ Locals(h, auctionOf[h], KeyOf(idOf[h]), amountOf[h], {})
     \/ "read" \in Faults /\ idOf[h] \notin positions /\ UNCHANGED locals
  /\ Goto(h, "charge")
  /\ UNCHANGED <<memory, settleMu, advertisers, auctionLog, history, bounds>>

AnswerLocked(h) == UNCHANGED settleMu /\ Answer(h)   \* mutant
Unlock(h) == settleMu' = "free" /\ Answer(h)

(***************************************************************************)
(* budget_spent after DB.Charge: the row is debited if it can pay.         *)
(***************************************************************************)
Forgotten(k, amount) == budgetSpent   \* mutant
Debited(k, amount) ==
  IF RowCanPay(k, amount) THEN [budgetSpent EXCEPT ![k] = @ + amount]
  ELSE budgetSpent

(***************************************************************************)
(* The tracker after a charge that could not be persisted.                 *)
(***************************************************************************)
NotRolledBack(k, amount) ==   \* mutant
  IF CanAfford(k, amount) THEN [spent EXCEPT ![k] = @ + amount] ELSE spent
RolledBack(k, amount) == spent

(***************************************************************************)
(* BudgetTracker.Charge, and DB.Charge inside it.  Memory decides.  The    *)
(* row is debited when it can pay; when it cannot, DB.Charge answers       *)
(* (false, nil) and the charge stands in memory alone; when it fails or    *)
(* the row is gone, the memory is rolled back and the click answered 402.  *)
(***************************************************************************)
Charge(h) ==
  LET k == idOf[h]
      amount == amountOf[h]
      a == auctionOf[h]
  IN
  /\ pc[h] = "charge"
  /\ CanAfford(k, amount)
  /\ k \in rows
  /\ spent' = [spent EXCEPT ![k] = @ + amount]
  /\ budgetSpent' = Debited(k, amount)
  /\ billed' = [billed EXCEPT ![a] = @ + 1]
  /\ billedTo' = [billedTo EXCEPT ![k] = @ + amount]
  /\ Goto(h, "log")
  /\ UNCHANGED <<positions, nextId, tracked, budgets, settleMu, locals, rows,
                 budgetKey, budgetTotal, auctionLog, bounds>>

ChargeFails(h) ==
  /\ pc[h] = "charge"
  /\ \/ ~CanAfford(idOf[h], amountOf[h])
     \/ idOf[h] \notin rows
     \/ "persist" \in Faults
  /\ spent' = RolledBack(idOf[h], amountOf[h])
  /\ Unlock(h)
  /\ UNCHANGED <<positions, nextId, tracked, budgets, advertisers, auctionLog,
                 history, bounds>>

LogClick(h) ==
  /\ pc[h] = "log"
  /\ \/ clicked' = clicked \cup {auctionOf[h]}
     \/ "log" \in Faults /\ UNCHANGED clicked
  /\ Unlock(h)
  /\ UNCHANGED <<memory, advertisers, auctions, lastAuction, won, history,
                 bounds>>

-----------------------------------------------------------------------------
(***************************************************************************)
(* A crash and the start that follows: SetDB of the registry and of the    *)
(* tracker load every row, and NextID is one more than the largest id in   *)
(* the table.                                                              *)
(***************************************************************************)
Crash ==
  /\ "crash" \in Operations
  /\ positions' = rows
  /\ \E n \in 1 .. MaxId + 1 :
       /\ \A k \in rows : k < n
       /\ n = 1 \/ n - 1 \in rows
       /\ nextId' = n
  /\ tracked' = rows
  /\ budgets' = budgetTotal /\ spent' = budgetSpent
  /\ settleMu' = "free"
  /\ pc' = [h \in Requests |-> "idle"]
  /\ auctionOf' = [h \in Requests |-> 0] /\ idOf' = [h \in Requests |-> 0]
  /\ amountOf' = [h \in Requests |-> 0] /\ doomed' = [h \in Requests |-> {}]
  /\ UNCHANGED <<advertisers, auctionLog, history, bounds>>

Arrival(h) ==
  \/ \E n \in GroupSizes : \/ \E total \in Totals : RegisterRows(h, n, total)
                           \/ RegisterFails(h, n)
  \/ \E id \in Ids : \/ \E total \in Totals : UpdateRead(h, id, total)
                     \/ DeletePositions(h, id)
                     \/ \E payment \in Payments : WinAuction(h, id, payment)
  \/ \E a \in AuctionIds : ClickArrives(h, a)

ClickStep(h) ==
  \/ CheckFirstClick(h) \/ ReadPayment(h) \/ ResolveKey(h)
  \/ Charge(h) \/ ChargeFails(h) \/ LogClick(h)

Step(h) ==
  \/ FundBudget(h)
  \/ UpdateMemory(h) \/ UpdateRow(h) \/ UpdateBudgetRow(h) \/ UpdateTracker(h)
  \/ DeleteRow(h) \/ DeleteBudget(h)
  \/ RecordAuction(h)
  \/ ClickStep(h)

Next ==
  \/ \E h \in Requests : Arrival(h) \/ LockSettle(h) \/ Step(h)
  \/ ResetStats
  \/ Crash

Spec == Init /\ [][Next]_vars

(***************************************************************************)
(* A goroutine that can run is eventually run, and a sync.Mutex that is    *)
(* unlocked again and again is eventually given to each goroutine waiting  *)
(* for it (its starvation mode).  Arrivals, resets and crashes are not     *)
(* owed by anybody.                                                        *)
(***************************************************************************)
Fairness == \A h \in Requests : WF_vars(Step(h)) /\ SF_vars(LockSettle(h))
FairSpec == Spec /\ Fairness

-----------------------------------------------------------------------------
TypeOK ==
  /\ positions \subseteq Ids /\ nextId \in 1 .. MaxId + 1
  /\ tracked \subseteq Ids
  /\ budgets \in [Ids -> Nat] /\ spent \in [Ids -> Nat]
  /\ settleMu \in Requests \cup {"free"}
  /\ pc \in [Requests -> Labels]
  /\ auctionOf \in [Requests -> AuctionIds \cup {0}]
  /\ idOf \in [Requests -> Ids \cup {0}]
  /\ amountOf \in [Requests -> Nat] /\ doomed \in [Requests -> SUBSET Ids]
  /\ rows \subseteq Ids /\ budgetKey \in [Ids -> Ids]
  /\ budgetTotal \in [Ids -> Nat] /\ budgetSpent \in [Ids -> Nat]
  /\ auctions \subseteq AuctionIds /\ lastAuction \in 0 .. MaxAuctions
  /\ won \in [AuctionIds -> [winner : Ids \cup {0}, payment : Nat]]
  /\ clicked \subseteq AuctionIds
  /\ billed \in [AuctionIds -> Nat] /\ billedTo \in [Ids -> Nat]
  /\ registrations \in Nat /\ updates \in Nat

(***************************************************************************)
(* Once a click of an auction is in the events table no click on it        *)
(* charges anybody again, whatever fails and however the requests          *)
(* interleave: settleMu makes the check, the charge and the log one        *)
(* section (handler/events.go, settleClick).                               *)
(***************************************************************************)
FirstClickOnly ==
  [][\A a \in AuctionIds : billed'[a] # billed[a] => a \notin clicked]_vars

(***************************************************************************)
(* An auction is charged for at most once.  It holds as long as every      *)
(* charge is followed by its log, so in the runs where neither "log" nor   *)
(* "crash" occurs; finding double_charge shows what happens otherwise.     *)
(***************************************************************************)
ChargedAtMostOnce == \A a \in AuctionIds : billed[a] <= 1

(***************************************************************************)
(* No free clicks: an auction that is still on record, owes a payment and  *)
(* has a logged click has been charged for.  It holds as long as the       *)
(* queries of settleClick do not fail.                                     *)
(***************************************************************************)
ClickedWasBilled ==
  \A a \in auctions \cap clicked : won[a].payment > 0 => billed[a] > 0

(***************************************************************************)
(* The tracker's cache is the table: an id known to both has the same      *)
(* total and the same amount spent, after any crash, deletion or failed    *)
(* statement.  A budget update breaks it: it resets the spent of the       *)
(* tracker, not that of the table (finding lost_charge).                   *)
(***************************************************************************)
CacheMatchesTable ==
  updates = 0 =>
    \A k \in tracked \cap rows : /\ budgets[k] = budgetTotal[k]
                                 /\ spent[k] = budgetSpent[k]

(***************************************************************************)
(* Charges are durable and within budget: what clicks were charged since   *)
(* an id was registered is what its row says, and never more than its      *)
(* total, across crashes and rolled-back charges.  After a budget update   *)
(* the tracker accepts charges that the row does not take.                 *)
(***************************************************************************)
ChargesAreDurable ==
  updates = 0 =>
    \A k \in rows : /\ budgetSpent[k] = billedTo[k]
                    /\ billedTo[k] <= budgetTotal[k]

(***************************************************************************)
(* The budget a click is charged to is the one the auction's winner spends *)
(* from, its group head's for a keyword: the key that a click resolved is  *)
(* still the winner's when it gets to charge, whoever was deleted, what    *)
(* was registered and which budgets were reset in between, and an id that  *)
(* was taken for its own key has no budget to charge.  (A restart may give *)
(* the winner's id to another advertiser, whose budget is then charged.)   *)
(***************************************************************************)
ChargedToWinnersBudget ==
  [][\A a \in AuctionIds, k \in Ids :
       billed'[a] # billed[a] /\ billedTo'[k] # billedTo[k]
         => k = budgetKey[won[a].winner]]_vars

(***************************************************************************)
(* A click is not refused while its winner is registered and the budget    *)
(* the winner spends from -- its group head's, for a keyword -- is there   *)
(* and covers the payment (unless the database statement failed).          *)
(***************************************************************************)
NoFalseRefusal ==
  [][\A h \in Requests :
       LET winner == won[auctionOf[h]].winner
           k == budgetKey[winner]
       IN  pc[h] = "charge" /\ pc'[h] = "idle" /\ winner \in positions
             => k \notin rows \/ ~CanAfford(k, amountOf[h])]_vars

(***************************************************************************)
(* A charge the tracker accepts is in the database: Charge answers true    *)
(* only if the row's spent grew (billing.go, "callers can trust the        *)
(* boolean").  A budget update breaks it.                                  *)
(***************************************************************************)
ChargePersisted ==
  [][billed' # billed => \E k \in rows : budgetSpent'[k] > budgetSpent[k]]_vars

(***************************************************************************)
(* Every request is answered: nobody waits for settleMu for ever.          *)
(***************************************************************************)
EveryRequestAnswered ==
  \A h \in Requests : pc[h] # "idle" ~> pc[h] = "idle"

(***************************************************************************)
(* Settlement implements IdealBilling: the balance of an account is what   *)
(* its row has left, and an auction is settled when it has been charged    *)
(* for or a click on it is logged.                                         *)
(***************************************************************************)
Ideal == INSTANCE IdealBilling WITH
  Account <- Ids,
  Auction <- AuctionIds,
  open <- rows,
  balance <- [k \in Ids |-> budgetTotal[k] - budgetSpent[k]],
  settled <- clicked \cup {a \in AuctionIds : billed[a] > 0},
  charged <- {a \in AuctionIds : billed[a] > 0}
ImplementsIdealBilling == Ideal!Spec
=============================================================================
