---------------------------- MODULE IdealBilling ----------------------------
(***************************************************************************)
(* What click billing promises, without requests, locks or caches: an      *)
(* account is opened with a balance and closed; a click settles an auction *)
(* in one indivisible step, at most once, and takes from one account no    *)
(* more than it holds.                                                     *)
(***************************************************************************)
EXTENDS Integers

CONSTANTS Account, Auction

VARIABLES
  open,      \* accounts that exist
  balance,   \* balance[k]: what account k can still spend, 0 if not open
  settled,   \* auctions whose first click has been dealt with
  charged    \* those of them that somebody paid for

vars == <<open, balance, settled, charged>>

Init ==
  /\ open = {} /\ balance = [k \in Account |-> 0]
  /\ settled = {} /\ charged = {}

(* Accounts K are opened together; the money is put on one of them.        *)
Open(k, K) ==
  /\ k \in K /\ K \cap open = {}
  /\ open' = open \cup K
  /\ balance'[k] \in Nat \ {0}
  /\ balance' = [balance EXCEPT ![k] = balance'[k]]
  /\ UNCHANGED <<settled, charged>>

Close(k) ==
  /\ k \in open
  /\ open' = open \ {k}
  /\ balance' = [balance EXCEPT ![k] = 0]
  /\ UNCHANGED <<settled, charged>>

Bill(a, k) ==
  /\ a \notin settled /\ k \in open
  /\ \E payment \in 1 .. balance[k] :
       balance' = [balance EXCEPT ![k] = @ - payment]
  /\ settled' = settled \cup {a} /\ charged' = charged \cup {a}
  /\ UNCHANGED open

(* A click that owes nothing: no payment was due, or it cannot be known.   *)
SettleFree(a) ==
  /\ settled' = settled \cup {a}
  /\ UNCHANGED <<open, balance, charged>>

Next ==
  \/ \E K \in SUBSET Account : \E k \in K : Open(k, K)
  \/ \E k \in Account : Close(k)
  \/ \E a \in Auction : SettleFree(a) \/ \E k \in Account : Bill(a, k)

Spec == Init /\ [][Next]_vars
=============================================================================
