-------------------------- MODULE PrivateAd_proofs --------------------------
(***************************************************************************)
(* Proofs about the confidential auction, for any number of positions,     *)
(* budgets and calls, over lost messages and restarts of both processes.   *)
(***************************************************************************)
EXTENDS PrivateAd, TLAPS

Steps == {"idle", "attest", "import", "embed", "sealed", "bidding"}

TypeInv ==
  /\ registered \subseteq Positions /\ left \in [Keys -> Int]
  /\ posSnap \subseteq Positions /\ posStore \subseteq Positions
  /\ budSnap \in [Keys -> Int] /\ budStore \in [Keys -> Int]
  /\ key \in Nat /\ key > NoKey /\ cached \in Nat /\ pubKey \in Nat
  /\ call \in [Calls -> Steps] /\ keyOf \in [Calls -> Nat]
  /\ toRead \in [Calls -> SUBSET Positions] /\ bids \in [Calls -> SUBSET Positions]
  /\ answer \in [Calls -> Positions \cup {"none", "null", "throws"}]
  /\ seen \in [Calls -> SUBSET (Positions \cup Keys)]
  /\ recent \subseteq Positions \cup Keys /\ since \subseteq Positions \cup Keys

(* A call without a key to seal with has none; a page that is fresh has     *)
(* met no key but the enclave's.                                            *)
KeyInv ==
  /\ \A c \in Calls : /\ call[c] = "idle" => keyOf[c] = NoKey
                      /\ call[c] \in {"import", "sealed"} => keyOf[c] # NoKey
                      /\ call[c] = "embed" => pubKey # NoKey
  /\ fresh => /\ {cached, pubKey} \subseteq {NoKey, key}
              /\ \A c \in Calls : keyOf[c] \in {NoKey, key}

(* What the stores hold was good when it was read, or later; what the       *)
(* proxy is about to send was good when it was read.                        *)
StoreInv ==
  /\ posStore \subseteq recent
  /\ \A k \in Keys : Covers(budStore[k]) => k \in recent
  /\ proxy = "send_positions" => posSnap \subseteq since
  /\ proxy = "send_budgets" => \A k \in Keys : Covers(budSnap[k]) => k \in since

(* What a call of the enclave has read from the stores was good.            *)
BidInv ==
  \A c \in Calls :
    /\ call[c] = "bidding" =>
         /\ recent \subseteq seen[c] /\ toRead[c] \subseteq seen[c]
         /\ \A p \in bids[c] : p \in seen[c] /\ BudgetKey[p] \in seen[c]
    /\ call[c] # "bidding" => bids[c] = {}

IInv == TypeInv /\ KeyInv /\ StoreInv /\ BidInv

LEMMA GoodTypes ==
  ASSUME TypeInv
  PROVE  Good \subseteq Positions \cup Keys
BY DEF TypeInv, Good

LEMMA GoodNext ==
  ASSUME registered' \subseteq Positions
  PROVE  Good' \subseteq Positions \cup Keys
BY DEF Good

LEMMA WitnessTypes ==
  ASSUME TypeInv, NEW base \in SUBSET (Positions \cup Keys), Witness(base),
         registered' \subseteq Positions
  PROVE  /\ recent' \subseteq Positions \cup Keys /\ since' \subseteq Positions \cup Keys
         /\ seen' \in [Calls -> SUBSET (Positions \cup Keys)]
<1>1. Good' \subseteq Positions \cup Keys
  BY GoodNext
<1>2. recent' \subseteq Positions \cup Keys /\ since' \subseteq Positions \cup Keys
  BY <1>1 DEF Witness, TypeInv
<1>3. QED BY <1>2 DEF Witness, TypeInv

LEMMA ThrowTypes ==
  ASSUME TypeInv, NEW S, Throw(S)
  PROVE  /\ call' \in [Calls -> Steps] /\ keyOf' \in [Calls -> Nat]
         /\ toRead' \in [Calls -> SUBSET Positions]
         /\ bids' \in [Calls -> SUBSET Positions]
         /\ answer' \in [Calls -> Positions \cup {"none", "null", "throws"}]
BY DEF TypeInv, Throw, Steps, NoKey

LEMMA InitHolds == Init => IInv
<1> SUFFICES ASSUME Init PROVE IInv
  OBVIOUS
<1>1. TypeInv
  BY PrivateAdBounds DEF Init, TypeInv, NoKey, Unknown, NoBudget, Idle, NoBids, Steps
<1>2. KeyInv
  BY DEF Init, KeyInv, NoKey, Idle
<1>3. StoreInv /\ BidInv
  BY DEF Init, StoreInv, BidInv, Covers, Unknown, NoBudget, Idle, NoBids
<1>4. QED BY <1>1, <1>2, <1>3 DEF IInv

LEMMA TypeStep ==
  ASSUME IInv, [Next]_vars
  PROVE  TypeInv'
<1> USE DEF IInv, TypeInv, Steps, NoKey, host, proxied, enclave, calls, history
<1>1. CASE Change
  <2>1. registered' \subseteq Positions /\ left' \in [Keys -> Int]
    BY <1>1, PrivateAdBounds DEF Change
  <2>2. Witness(recent) /\ UNCHANGED <<proxied, enclave, pubKey, calls>>
    BY <1>1 DEF Change
  <2>3. QED BY <2>1, <2>2, WitnessTypes
<1>2. CASE ReadPositions
  BY <1>2, GoodTypes DEF ReadPositions
<1>3. CASE SendPositions
  <2>1. /\ UNCHANGED <<host, budSnap, cached, key, budStore, pubKey, calls>>
        /\ posSnap' = {} /\ posStore' \subseteq Positions
        /\ \/ Witness((recent \ Positions) \cup (since \cap Positions))
           \/ UNCHANGED history
    BY <1>3 DEF SendPositions, ReplacePositions
  <2>2. /\ recent' \subseteq Positions \cup Keys /\ since' \subseteq Positions \cup Keys
        /\ seen' \in [Calls -> SUBSET (Positions \cup Keys)]
    BY <2>1, WitnessTypes DEF history
  <2>3. QED BY <2>1, <2>2
<1>4. CASE ReadBudgets
  BY <1>4, GoodTypes DEF ReadBudgets, NoBudget
<1>5. CASE SendBudgets
  <2>1. /\ UNCHANGED <<host, posSnap, cached, key, posStore, pubKey, calls>>
        /\ budSnap' \in [Keys -> Int] /\ budStore' \in [Keys -> Int]
        /\ \/ Witness((recent \ Keys) \cup (since \cap Keys))
           \/ UNCHANGED history
    BY <1>5 DEF SendBudgets, ReplaceBudgets, Unknown, NoBudget
  <2>2. /\ recent' \subseteq Positions \cup Keys /\ since' \subseteq Positions \cup Keys
        /\ seen' \in [Calls -> SUBSET (Positions \cup Keys)]
    BY <2>1, WitnessTypes DEF history
  <2>3. QED BY <2>1, <2>2
<1>6. CASE Refresh
  BY <1>6 DEF Refresh
<1>7. CASE Tick
  BY <1>7 DEF Tick
<1>8. CASE EnclaveStops
  <2>1. /\ UNCHANGED <<host, proxied, key, pubKey, history>> /\ posStore' = {}
        /\ budStore' \in [Keys -> Int]
        /\ Throw({c \in Calls : call[c] = "bidding"})
    BY <1>8 DEF EnclaveStops, Unknown, NoBudget
  <2>2. QED BY <2>1, ThrowTypes DEF history
<1>9. CASE EnclaveStarts
  BY <1>9 DEF EnclaveStarts
<1>10. CASE HostRestarts
  <2>1. /\ UNCHANGED <<host, enclave, pubKey, history>> /\ posSnap' = {}
        /\ budSnap' \in [Keys -> Int] /\ cached' = NoKey
        /\ Throw({c \in Calls : call[c] \in {"attest", "sealed", "bidding"}})
    BY <1>10 DEF HostRestarts, Unknown, NoBudget
  <2>2. QED BY <2>1, ThrowTypes DEF history
<1>11. CASE LoadPage
  BY <1>11 DEF LoadPage, ForgetKey, Idle
<1>12. ASSUME NEW c \in Calls, Request(c) PROVE TypeInv'
  BY <1>12 DEF Request, CallsOnly, Step
<1>13. ASSUME NEW c \in Calls, ServeAttestation(c) PROVE TypeInv'
  BY <1>13 DEF ServeAttestation, CallsOnly, Step, Throw
<1>14. ASSUME NEW c \in Calls, ImportKey(c) PROVE TypeInv'
  BY <1>14 DEF ImportKey, CallsOnly, Step
<1>15. ASSUME NEW c \in Calls, Seal(c) PROVE TypeInv'
  BY <1>15 DEF Seal, CallsOnly, Step
<1>16. ASSUME NEW c \in Calls, CallFails(c) PROVE TypeInv'
  BY <1>16 DEF CallFails, CallsOnly, Step, Throw
<1>17. ASSUME NEW c \in Calls, Open(c) PROVE TypeInv'
  BY <1>17 DEF Open, CallsOnly, Step, Throw
<1>18. ASSUME NEW c \in Calls, ReadBudget(c) PROVE TypeInv'
  BY <1>18 DEF ReadBudget, CallsOnly, Step
<1>19. ASSUME NEW c \in Calls, Decide(c) PROVE TypeInv'
  BY <1>19 DEF Decide, CallsOnly, Step, Throw, Answer
<1>20. CASE UNCHANGED vars
  BY <1>20 DEF vars
<1>21. QED BY <1>1, <1>2, <1>3, <1>4, <1>5, <1>6, <1>7, <1>8, <1>9, <1>10, <1>11, <1>12, <1>13, <1>14, <1>15, <1>16, <1>17, <1>18, <1>19, <1>20 DEF Next, Proxy

LEMMA KeyStep ==
  ASSUME IInv, [Next]_vars
  PROVE  KeyInv'
<1> USE DEF IInv, TypeInv, KeyInv, Steps, NoKey, host, proxied, enclave, calls, history
<1>1. CASE Change
  BY <1>1 DEF Change, Witness
<1>2. CASE ReadPositions
  BY <1>2 DEF ReadPositions
<1>3. CASE SendPositions
  BY <1>3 DEF SendPositions, Witness, ReplacePositions
<1>4. CASE ReadBudgets
  BY <1>4 DEF ReadBudgets
<1>5. CASE SendBudgets
  BY <1>5 DEF SendBudgets, Witness, ReplaceBudgets
<1>6. CASE Refresh
  BY <1>6 DEF Refresh
<1>7. CASE Tick
  BY <1>7 DEF Tick
<1>8. CASE EnclaveStops
  BY <1>8 DEF EnclaveStops, Throw
<1>9. CASE EnclaveStarts
  BY <1>9 DEF EnclaveStarts
<1>10. CASE HostRestarts
  BY <1>10 DEF HostRestarts, Throw
<1>11. CASE LoadPage
  BY <1>11 DEF LoadPage, ForgetKey, Idle
<1>12. ASSUME NEW c \in Calls, Request(c) PROVE KeyInv'
  BY <1>12 DEF Request, CallsOnly, Step
<1>13. ASSUME NEW c \in Calls, ServeAttestation(c) PROVE KeyInv'
  BY <1>13 DEF ServeAttestation, CallsOnly, Step, Throw
<1>14. ASSUME NEW c \in Calls, ImportKey(c) PROVE KeyInv'
  BY <1>14 DEF ImportKey, CallsOnly, Step
<1>15. ASSUME NEW c \in Calls, Seal(c) PROVE KeyInv'
  BY <1>15 DEF Seal, CallsOnly, Step
<1>16. ASSUME NEW c \in Calls, CallFails(c) PROVE KeyInv'
  BY <1>16 DEF CallFails, CallsOnly, Step, Throw
<1>17. ASSUME NEW c \in Calls, Open(c) PROVE KeyInv'
  BY <1>17 DEF Open, CallsOnly, Step, Throw
<1>18. ASSUME NEW c \in Calls, ReadBudget(c) PROVE KeyInv'
  BY <1>18 DEF ReadBudget, CallsOnly, Step
<1>19. ASSUME NEW c \in Calls, Decide(c) PROVE KeyInv'
  BY <1>19 DEF Decide, CallsOnly, Step, Throw, Answer
<1>20. CASE UNCHANGED vars
  BY <1>20 DEF vars
<1>21. QED BY <1>1, <1>2, <1>3, <1>4, <1>5, <1>6, <1>7, <1>8, <1>9, <1>10, <1>11, <1>12, <1>13, <1>14, <1>15, <1>16, <1>17, <1>18, <1>19, <1>20 DEF Next, Proxy

LEMMA StoreStep ==
  ASSUME IInv, [Next]_vars
  PROVE  StoreInv'
<1> USE DEF IInv, TypeInv, StoreInv, host, proxied, enclave, calls, history
<1>1. CASE Change
  <2>1. recent \subseteq recent' /\ since \subseteq since'
    BY <1>1 DEF Change, Witness
  <2>2. QED BY <1>1, <2>1 DEF Change
<1>2. CASE ReadPositions
  BY <1>2 DEF ReadPositions, Good
<1>3. CASE SendPositions
  <2>1. /\ UNCHANGED budStore /\ proxy' = "read_budgets"
        /\ \/ /\ posStore' = posSnap /\ posSnap \subseteq since
              /\ (recent \ Positions) \cup (since \cap Positions) \subseteq recent'
           \/ UNCHANGED <<posStore, recent>>
    BY <1>3 DEF SendPositions, ReplacePositions, Witness
  <2>2. posStore' \subseteq recent'
    BY <2>1
  <2>3. \A k \in Keys : k \in recent => k \in recent'
    BY <2>1, PrivateAdBounds
  <2>4. QED BY <2>1, <2>2, <2>3
<1>4. CASE ReadBudgets
  <2>1. /\ UNCHANGED <<posStore, budStore, recent>> /\ proxy' = "send_budgets"
        /\ since' = Good
        /\ \A k \in Keys : budSnap'[k] = left[k] \/ budSnap'[k] = NoBudget
    BY <1>4 DEF ReadBudgets
  <2>2. \A k \in Keys : Covers(budSnap'[k]) => k \in since'
    BY <2>1 DEF Good, Covers, NoBudget
  <2>3. QED BY <2>1, <2>2
<1>5. CASE SendBudgets
  <2>1. /\ UNCHANGED posStore /\ proxy' \in {"refresh", "wait"}
        /\ \/ /\ budStore' = budSnap
              /\ \A k \in Keys : Covers(budSnap[k]) => k \in since
              /\ (recent \ Keys) \cup (since \cap Keys) \subseteq recent'
           \/ UNCHANGED <<budStore, recent>>
    BY <1>5 DEF SendBudgets, ReplaceBudgets, Witness
  <2>2. posStore' \subseteq recent'
    BY <2>1, PrivateAdBounds
  <2>3. \A k \in Keys : Covers(budStore'[k]) => k \in recent'
    BY <2>1
  <2>4. QED BY <2>1, <2>2, <2>3
<1>6. CASE Refresh
  BY <1>6 DEF Refresh
<1>7. CASE Tick
  BY <1>7 DEF Tick
<1>8. CASE EnclaveStops
  BY <1>8 DEF EnclaveStops, Unknown, NoBudget, Covers
<1>9. CASE EnclaveStarts
  BY <1>9 DEF EnclaveStarts
<1>10. CASE HostRestarts
  BY <1>10 DEF HostRestarts, Throw
<1>11. CASE LoadPage
  BY <1>11 DEF LoadPage, ForgetKey, Idle
<1>12. ASSUME NEW c \in Calls, Request(c) PROVE StoreInv'
  BY <1>12 DEF Request, CallsOnly, Step
<1>13. ASSUME NEW c \in Calls, ServeAttestation(c) PROVE StoreInv'
  BY <1>13 DEF ServeAttestation, CallsOnly, Step, Throw
<1>14. ASSUME NEW c \in Calls, ImportKey(c) PROVE StoreInv'
  BY <1>14 DEF ImportKey, CallsOnly, Step
<1>15. ASSUME NEW c \in Calls, Seal(c) PROVE StoreInv'
  BY <1>15 DEF Seal, CallsOnly, Step
<1>16. ASSUME NEW c \in Calls, CallFails(c) PROVE StoreInv'
  BY <1>16 DEF CallFails, CallsOnly, Step, Throw
<1>17. ASSUME NEW c \in Calls, Open(c) PROVE StoreInv'
  BY <1>17 DEF Open, CallsOnly, Step, Throw
<1>18. ASSUME NEW c \in Calls, ReadBudget(c) PROVE StoreInv'
  BY <1>18 DEF ReadBudget, CallsOnly, Step
<1>19. ASSUME NEW c \in Calls, Decide(c) PROVE StoreInv'
  BY <1>19 DEF Decide, CallsOnly, Step, Throw, Answer
<1>20. CASE UNCHANGED vars
  BY <1>20 DEF vars
<1>21. QED BY <1>1, <1>2, <1>3, <1>4, <1>5, <1>6, <1>7, <1>8, <1>9, <1>10, <1>11, <1>12, <1>13, <1>14, <1>15, <1>16, <1>17, <1>18, <1>19, <1>20 DEF Next, Proxy

LEMMA BidStep ==
  ASSUME IInv, [Next]_vars
  PROVE  BidInv'
<1> USE DEF IInv, TypeInv, StoreInv, BidInv, Steps, host, proxied, enclave, calls, history
<1>1. CASE Change
  BY <1>1 DEF Change, Witness
<1>2. CASE ReadPositions
  BY <1>2 DEF ReadPositions
<1>3. CASE SendPositions
  BY <1>3 DEF SendPositions, Witness, ReplacePositions
<1>4. CASE ReadBudgets
  BY <1>4 DEF ReadBudgets
<1>5. CASE SendBudgets
  BY <1>5 DEF SendBudgets, Witness, ReplaceBudgets
<1>6. CASE Refresh
  BY <1>6 DEF Refresh
<1>7. CASE Tick
  BY <1>7 DEF Tick
<1>8. CASE EnclaveStops
  BY <1>8 DEF EnclaveStops, Throw
<1>9. CASE EnclaveStarts
  BY <1>9 DEF EnclaveStarts
<1>10. CASE HostRestarts
  BY <1>10 DEF HostRestarts, Throw
<1>11. CASE LoadPage
  BY <1>11 DEF LoadPage, ForgetKey, Idle
<1>12. ASSUME NEW c \in Calls, Request(c) PROVE BidInv'
  BY <1>12 DEF Request, CallsOnly, Step
<1>13. ASSUME NEW c \in Calls, ServeAttestation(c) PROVE BidInv'
  BY <1>13 DEF ServeAttestation, CallsOnly, Step, Throw
<1>14. ASSUME NEW c \in Calls, ImportKey(c) PROVE BidInv'
  BY <1>14 DEF ImportKey, CallsOnly, Step
<1>15. ASSUME NEW c \in Calls, Seal(c) PROVE BidInv'
  BY <1>15 DEF Seal, CallsOnly, Step
<1>16. ASSUME NEW c \in Calls, CallFails(c) PROVE BidInv'
  BY <1>16 DEF CallFails, CallsOnly, Step, Throw
<1>17. ASSUME NEW c \in Calls, Open(c) PROVE BidInv'
  BY <1>17 DEF Open, CallsOnly, Step, Throw
<1>18. ASSUME NEW c \in Calls, ReadBudget(c) PROVE BidInv'
  <2>1. PICK p \in toRead[c] :
          /\ call[c] = "bidding"
          /\ toRead' = [toRead EXCEPT ![c] = toRead[c] \ {p}]
          /\ \/ bids' = bids
             \/ /\ Covers(budStore[BudgetKey[p]])
                /\ bids' = [bids EXCEPT ![c] = bids[c] \cup {p}]
    BY <1>18 DEF ReadBudget, CanAfford
  <2>2. UNCHANGED <<call, seen, recent>>
    BY <1>18 DEF ReadBudget, CallsOnly
  <2>3. p \in seen[c] /\ p \in Positions /\ BudgetKey[p] \in Keys
    BY <2>1, PrivateAdBounds
  <2>4. Covers(budStore[BudgetKey[p]]) => BudgetKey[p] \in seen[c]
    BY <2>1, <2>3
  <2>5. QED BY <2>1, <2>2, <2>3, <2>4
<1>19. ASSUME NEW c \in Calls, Decide(c) PROVE BidInv'
  BY <1>19 DEF Decide, CallsOnly, Step, Throw, Answer
<1>20. CASE UNCHANGED vars
  BY <1>20 DEF vars
<1>21. QED BY <1>1, <1>2, <1>3, <1>4, <1>5, <1>6, <1>7, <1>8, <1>9, <1>10, <1>11, <1>12, <1>13, <1>14, <1>15, <1>16, <1>17, <1>18, <1>19, <1>20 DEF Next, Proxy

LEMMA Inductive == IInv /\ [Next]_vars => IInv'
BY TypeStep, KeyStep, StoreStep, BidStep DEF IInv

(***************************************************************************)
(* A page whose sealed embedding the enclave cannot open (encryptEmbedding,*)
(* ProcessPrivateAuction) was loaded before the enclave's start or was     *)
(* given a key that the proxy kept from before it.                         *)
(***************************************************************************)
THEOREM StaleKeysAreOld == TeeSpec => []StaleOnlyAfterRestart
<1>1. IInv => StaleOnlyAfterRestart
  BY DEF IInv, TypeInv, KeyInv, StaleOnlyAfterRestart, Opens
<1>2. QED BY <1>1, InitHolds, Inductive, PTL DEF TeeSpec

(***************************************************************************)
(* No deleted position and no spent budget wins after a push that told the *)
(* enclave: ProcessPrivateAuction reads the two stores one after the other,*)
(* while syncPositions and syncBudgets replace them one after the other.   *)
(***************************************************************************)
THEOREM WinnersWereGood == TeeSpec => WinnerWasGood
<1> DEFINE Earned ==
      \A c \in Calls :
        answer'[c] \in Positions /\ call[c] = "bidding" /\ call'[c] = "idle"
          => {answer'[c], BudgetKey[answer'[c]]} \subseteq seen[c]
<1>1. IInv /\ [Next]_vars => [Earned]_vars
  <2> SUFFICES ASSUME IInv, [Next]_vars, NEW d \in Calls,
                      answer'[d] \in Positions, call[d] = "bidding", call'[d] = "idle"
               PROVE  {answer'[d], BudgetKey[answer'[d]]} \subseteq seen[d]
    OBVIOUS
  <2> USE DEF IInv, TypeInv, BidInv, proxied, calls
  <2>1. ASSUME NEW S, Throw(S), d \in S PROVE FALSE
    BY <2>1, PrivateAdBounds DEF Throw
  <2>2. ASSUME NEW S, Throw(S), d \notin S PROVE FALSE
    BY <2>2 DEF Throw
  <2>3. ASSUME NEW S, Throw(S) PROVE FALSE
    BY <2>1, <2>2, <2>3
  <2>4. ASSUME NEW c \in Calls, Decide(c)
        PROVE  {answer'[d], BudgetKey[answer'[d]]} \subseteq seen[d]
    <3>1. \A a : Answer(c, a) => c = d /\ answer'[d] = a
      BY DEF Answer, Step
    <3>2. PICK a \in bids[c] \cup {"null"} : Answer(c, a)
      BY <2>3, <2>4 DEF Decide
    <3>3. QED BY <3>1, <3>2, PrivateAdBounds
  <2>5. ASSUME NEW c \in Calls, Open(c) PROVE FALSE
    BY <2>3, <2>5 DEF Open, Step
  <2>6. ASSUME NEW c \in Calls, ServeAttestation(c) PROVE FALSE
    BY <2>3, <2>6 DEF ServeAttestation, Step
  <2>7. ASSUME NEW c \in Calls,
               Request(c) \/ ImportKey(c) \/ Seal(c) \/ ReadBudget(c)
        PROVE  FALSE
    BY <2>7 DEF Request, ImportKey, Seal, ReadBudget, Step
  <2>8. ASSUME NEW c \in Calls, CallFails(c) PROVE FALSE
    BY <2>3, <2>8 DEF CallFails
  <2>9. CASE EnclaveStops \/ HostRestarts
    BY <2>3, <2>9 DEF EnclaveStops, HostRestarts
  <2>10. CASE \/ Change \/ Proxy \/ Refresh \/ Tick \/ EnclaveStarts \/ LoadPage
              \/ UNCHANGED vars
    BY <2>10 DEF Change, Proxy, ReadPositions, SendPositions, ReadBudgets, SendBudgets,
                 Refresh, Tick, EnclaveStarts, LoadPage, vars
  <2>11. QED BY <2>4, <2>5, <2>6, <2>7, <2>8, <2>9, <2>10 DEF Next
<1>2. QED BY <1>1, InitHolds, Inductive, PTL DEF TeeSpec, WinnerWasGood
=============================================================================
