----------------------------- MODULE PrivateAd -----------------------------
(***************************************************************************)
(* The confidential auction, end to end: the proxy of the server pushes    *)
(* positions and budgets to the enclave and caches its attested key; a     *)
(* page of the web SDK fetches that key once, seals its embedding with it, *)
(* and the enclave opens it, bids and picks a winner.                      *)
(*                                                                         *)
(* The enclave has a new key and empty stores whenever it starts.  Bids    *)
(* cost one unit of budget; which bids pass tau and which of them scores   *)
(* best is the geometry's choice.                                          *)
(***************************************************************************)
EXTENDS Integers, FiniteSets

CONSTANTS
  Positions, Keys,   \* position ids, and budget keys
  BudgetKey,         \* BudgetKey[p]: the key position p is paid from
  Calls,             \* calls of requestAdTEE under way at a time on a page
  MaxBudget, MaxKey, \* bounds: units of budget, starts of the enclave
  MaxChanges,        \* bound: changes to positions and budgets
  MaxLost            \* bound: messages and embeddings that fail

ASSUME PrivateAdBounds ==
  /\ BudgetKey \in [Positions -> Keys] /\ Positions \cap Keys = {}
  /\ {MaxBudget, MaxKey, MaxChanges, MaxLost} \subseteq Nat /\ MaxKey > 0
  /\ {"none", "null", "throws"} \cap Positions = {}

VARIABLES
  registered, left,     \* the registry's positions, the tracker's budgets
  proxy, posSnap, budSnap,  \* next step of the proxy's goroutine, and what
                        \* it is to send
  cached,               \* cachedAttest
  starting,             \* the proxy is in Start, before its first ticker
  up, key,              \* the enclave runs, with this key
  posStore, budStore,   \* PositionStore, BudgetStore
  pubKey,               \* TEEClient.pubKey of the page
  call, keyOf,          \* step of each call, the key it was given or used
  toRead, bids,         \* what the enclave has yet to look at, and bids
  answer,               \* what the last call gave: "throws", "null", a winner
  fresh, recent, since, seen,   \* history, see the properties
  changes, lost

host    == <<registered, left>>
proxied == <<proxy, posSnap, budSnap, cached, starting>>
enclave == <<up, key, posStore, budStore>>
calls   == <<call, keyOf, toRead, bids, answer>>
history == <<recent, since, seen>>
vars    == <<host, proxied, enclave, pubKey, calls, fresh, history, changes, lost>>

NoKey == 0
NoBudget == -1
Unknown == [k \in Keys |-> NoBudget]
Covers(b) == b >= 1   \* the bid of a position is one unit
Good == registered \cup {k \in Keys : Covers(left[k])}

Idle == [c \in Calls |-> "idle"]
NoBids == [c \in Calls |-> {}]

Init ==
  /\ registered \in SUBSET Positions /\ left \in [Keys -> 0 .. MaxBudget]
  /\ proxy = "read_positions" /\ posSnap = {} /\ budSnap = Unknown /\ cached = NoKey /\ starting = TRUE
  /\ up = TRUE /\ key = 1
  /\ posStore = {} /\ budStore = Unknown
  /\ pubKey = NoKey /\ call = Idle /\ keyOf = [c \in Calls |-> NoKey]
  /\ toRead = NoBids /\ bids = NoBids /\ answer = [c \in Calls |-> "none"]
  /\ fresh = TRUE /\ recent = {} /\ since = {} /\ seen = NoBids
  /\ changes = 0 /\ lost = 0

(* What has been good since the pushed values were read; for a call, since *)
(* the last push before it.                                                *)
Witness(base) ==
  /\ recent' = base \cup Good'
  /\ since' = since \cup Good'
  /\ seen' = [c \in Calls |-> IF call[c] = "bidding" THEN seen[c] \cup recent' ELSE {}]

-----------------------------------------------------------------------------
(* The platform: positions come and go, clicks and top-ups move budgets.   *)
Change ==
  /\ changes < MaxChanges /\ changes' = changes + 1
  /\ \/ \E p \in Positions : registered' = registered \cup {p} /\ UNCHANGED left
     \/ \E p \in registered : registered' = registered \ {p} /\ UNCHANGED left
     \/ \E k \in Keys, b \in 0 .. MaxBudget :
          left' = [left EXCEPT ![k] = b] /\ UNCHANGED registered
  /\ Witness(recent)
  /\ UNCHANGED <<proxied, enclave, pubKey, calls, fresh, lost>>

-----------------------------------------------------------------------------
(* TEEProxy.  A push that fails is logged and the store keeps what it has. *)
ReadPositions ==
  /\ proxy = "read_positions"
  /\ posSnap' = registered /\ proxy' = "send_positions"
  /\ since' = Good
  /\ UNCHANGED <<host, budSnap, cached, starting, enclave, pubKey, calls, fresh,
                 recent, seen, changes, lost>>

MergePositions == posStore' = posStore \cup posSnap   \* mutant
ReplacePositions == posStore' = posSnap

Fails == up => lost < MaxLost
CountLoss == lost' = IF up THEN lost + 1 ELSE lost

SendPositions ==
  /\ proxy = "send_positions" /\ proxy' = "read_budgets"
  /\ posSnap' = {}
  /\ UNCHANGED <<host, budSnap, cached, starting, up, key, budStore, pubKey,
                 calls, fresh, changes>>
  /\ \/ up /\ ReplacePositions /\ UNCHANGED lost
        /\ Witness((recent \ Positions) \cup (since \cap Positions))
     \/ Fails /\ CountLoss /\ UNCHANGED <<posStore, history>>

(* The budgets of a second read of the registry.                           *)
ReadBudgets ==
  /\ proxy = "read_budgets"
  /\ budSnap' = [k \in Keys |-> IF \E p \in registered : BudgetKey[p] = k
                                THEN left[k] ELSE NoBudget]
  /\ proxy' = "send_budgets"
  /\ since' = Good
  /\ UNCHANGED <<host, posSnap, cached, starting, enclave, pubKey, calls, fresh,
                 recent, seen, changes, lost>>

KeepBudgets == UNCHANGED budStore   \* mutant
ReplaceBudgets == budStore' = budSnap

SendBudgets ==
  /\ proxy = "send_budgets" /\ proxy' = IF starting THEN "refresh" ELSE "wait"
  /\ UNCHANGED <<host, posSnap, cached, starting, up, key, posStore, pubKey, calls,
                 fresh, changes>>
  /\ \/ up /\ ReplaceBudgets /\ UNCHANGED lost
        /\ Witness((recent \ Keys) \cup (since \cap Keys))
     \/ Fails /\ CountLoss /\ UNCHANGED <<budStore, history>>
  /\ budSnap' = Unknown

(* refreshAttestation: on an error the cache stays as it is.               *)
Refresh ==
  /\ proxy \in {"refresh", "wait"} /\ proxy' = "wait"
  /\ starting' = FALSE
  /\ \/ up /\ cached' = key /\ UNCHANGED lost
     \/ Fails /\ CountLoss /\ UNCHANGED cached
  /\ UNCHANGED <<host, posSnap, budSnap, enclave, pubKey, calls, fresh, history, changes>>

Tick ==
  /\ proxy = "wait" /\ proxy' = "read_positions"
  /\ UNCHANGED <<host, posSnap, budSnap, cached, starting, enclave, pubKey, calls, fresh,
                 history, changes, lost>>

Proxy == ReadPositions \/ SendPositions \/ ReadBudgets \/ SendBudgets

-----------------------------------------------------------------------------
(* The enclave stops, and starts anew; what it was working on is lost.     *)
Throw(S) ==
  /\ call' = [c \in Calls |-> IF c \in S THEN "idle" ELSE call[c]]
  /\ answer' = [c \in Calls |-> IF c \in S THEN "throws" ELSE answer[c]]
  /\ toRead' = [c \in Calls |-> IF c \in S THEN {} ELSE toRead[c]]
  /\ bids' = [c \in Calls |-> IF c \in S THEN {} ELSE bids[c]]
  /\ keyOf' = [c \in Calls |-> IF c \in S THEN NoKey ELSE keyOf[c]]

EnclaveStops ==
  /\ up /\ key < MaxKey
  /\ up' = FALSE
  /\ posStore' = {} /\ budStore' = Unknown
  /\ Throw({c \in Calls : call[c] = "bidding"})
  /\ UNCHANGED <<host, proxied, key, pubKey, fresh, history, changes, lost>>

EnclaveStarts ==
  /\ ~up
  /\ up' = TRUE /\ key' = key + 1
  /\ fresh' = FALSE
  /\ UNCHANGED <<host, proxied, posStore, budStore, pubKey, calls, history,
                 changes, lost>>

(* The server restarts: the registry is reloaded, the attestation is not.  *)
HostRestarts ==
  /\ changes < MaxChanges /\ changes' = changes + 1
  /\ proxy' = "read_positions" /\ starting' = TRUE
  /\ posSnap' = {} /\ budSnap' = Unknown /\ cached' = NoKey
  /\ Throw({c \in Calls : call[c] \in {"attest", "sealed", "bidding"}})
  /\ UNCHANGED <<host, enclave, pubKey, fresh, history, lost>>

-----------------------------------------------------------------------------
(* requestAdTEE of the SDK.  What else can fail (the embedding, a message) *)
(* is a Throw, too.                                                        *)
Step(c, next) == call' = [call EXCEPT ![c] = next]
CallsOnly == UNCHANGED <<host, proxied, enclave, fresh, recent, since, changes>>

KeepKey == UNCHANGED pubKey   \* mutant
ForgetKey == pubKey' = NoKey

(* A page is loaded: a TEEClient without a key.                            *)
LoadPage ==
  /\ call = Idle
  /\ ForgetKey /\ answer' = [c \in Calls |-> "none"]
  /\ fresh' = (cached \in {NoKey, key})
  /\ UNCHANGED <<host, proxied, enclave, call, keyOf, toRead, bids, history,
                 changes, lost>>

(* Only a page without a key fetches the attestation; two calls may both.  *)
Request(c) ==
  /\ call[c] = "idle"
  /\ Step(c, IF pubKey = NoKey THEN "attest" ELSE "embed")
  /\ answer' = [answer EXCEPT ![c] = "none"]
  /\ CallsOnly /\ UNCHANGED <<pubKey, keyOf, toRead, bids, seen, lost>>

(* 503 as long as the proxy has none.                                      *)
ServeAttestation(c) ==
  /\ call[c] = "attest"
  /\ \/ cached # NoKey /\ Step(c, "import") /\ keyOf' = [keyOf EXCEPT ![c] = cached]
        /\ UNCHANGED <<toRead, bids, answer>>
     \/ cached = NoKey /\ Throw({c})
  /\ CallsOnly /\ UNCHANGED <<pubKey, seen, lost>>

ImportKey(c) ==
  /\ call[c] = "import" /\ Step(c, "embed")
  /\ pubKey' = keyOf[c]
  /\ CallsOnly /\ UNCHANGED <<keyOf, toRead, bids, answer, seen, lost>>

(* Sealed with the key the page has when the embedding arrives.            *)
Seal(c) ==
  /\ call[c] = "embed" /\ Step(c, "sealed")
  /\ keyOf' = [keyOf EXCEPT ![c] = pubKey]
  /\ CallsOnly /\ UNCHANGED <<pubKey, toRead, bids, answer, seen, lost>>

CallFails(c) ==
  /\ call[c] # "idle" /\ lost < MaxLost /\ lost' = lost + 1
  /\ Throw({c})
  /\ CallsOnly /\ UNCHANGED <<pubKey, seen>>

(* ProcessPrivateAuction: open, load the positions, look up one budget     *)
(* after the other, filter by tau, and pick the winner.                    *)
Opens(c) == up /\ keyOf[c] = key

Open(c) ==
  /\ call[c] = "sealed"
  /\ \/ Opens(c) /\ posStore # {}
        /\ Step(c, "bidding") /\ toRead' = [toRead EXCEPT ![c] = posStore]
        /\ seen' = [seen EXCEPT ![c] = recent]
        /\ UNCHANGED <<keyOf, bids, answer>>
     \/ ~(Opens(c) /\ posStore # {}) /\ Throw({c}) /\ UNCHANGED seen
  /\ CallsOnly /\ UNCHANGED <<pubKey, lost>>

UnknownCovers(k) == budStore[k] = NoBudget \/ Covers(budStore[k])   \* mutant
CanAfford(k) == Covers(budStore[k])

ReadBudget(c) ==
  /\ call[c] = "bidding"
  /\ \E p \in toRead[c] :
       /\ toRead' = [toRead EXCEPT ![c] = @ \ {p}]
       /\ bids' = IF CanAfford(BudgetKey[p]) THEN [bids EXCEPT ![c] = @ \cup {p}]
                  ELSE bids
  /\ CallsOnly /\ UNCHANGED <<pubKey, call, keyOf, answer, seen, lost>>

Answer(c, a) ==
  /\ Step(c, "idle") /\ answer' = [answer EXCEPT ![c] = a]
  /\ bids' = [bids EXCEPT ![c] = {}] /\ keyOf' = [keyOf EXCEPT ![c] = NoKey]
  /\ UNCHANGED toRead

Decide(c) ==
  /\ call[c] = "bidding" /\ toRead[c] = {}
  /\ \/ bids[c] = {} /\ Throw({c})
     \/ bids[c] # {} /\ \E a \in bids[c] \cup {"null"} : Answer(c, a)
  /\ CallsOnly /\ UNCHANGED <<pubKey, seen, lost>>

Next ==
  \/ Change \/ Proxy \/ Refresh \/ Tick
  \/ EnclaveStops \/ EnclaveStarts \/ HostRestarts
  \/ LoadPage
  \/ \E c \in Calls :
       \/ Request(c) \/ ServeAttestation(c) \/ ImportKey(c) \/ Seal(c)
       \/ CallFails(c) \/ Open(c) \/ ReadBudget(c) \/ Decide(c)

(***************************************************************************)
(* The proxy's goroutine is scheduled, a stopped enclave is started, and   *)
(* the select of the goroutine takes either ticker again and again.        *)
(***************************************************************************)
TeeSpec == Init /\ [][Next]_vars
Spec == /\ TeeSpec
        /\ WF_vars(Proxy) /\ SF_vars(Tick) /\ SF_vars(Refresh)
        /\ WF_vars(EnclaveStarts)

-----------------------------------------------------------------------------
(***************************************************************************)
(* A winner was registered, and its budget covered its bid, at some time   *)
(* since the platform's state was read for the last push that was acked    *)
(* before the enclave began: a position deleted, or a budget spent, before *)
(* that push cannot win, whatever was lost or restarted since.             *)
(***************************************************************************)
WinnerWasGood ==
  [][\A c \in Calls :
       answer'[c] \in Positions /\ call[c] = "bidding" /\ call'[c] = "idle"
         => {answer'[c], BudgetKey[answer'[c]]} \subseteq seen[c]]_vars

(***************************************************************************)
(* The enclave cannot open what a page sealed only if it started after the *)
(* page was loaded, or the page was loaded while the proxy still handed    *)
(* out the key of the enclave before.  (Such a page fails for ever: it     *)
(* never asks for another key.)                                            *)
(***************************************************************************)
StaleOnlyAfterRestart ==
  \A c \in Calls : call[c] = "sealed" /\ up /\ ~Opens(c) => ~fresh

(***************************************************************************)
(* When changes and faults cease, the enclave ends with the bidders of the *)
(* platform, and the proxy with the enclave's key.                         *)
(***************************************************************************)
Bidders == {p \in registered : Covers(left[BudgetKey[p]])}
EnclaveBidders == {p \in posStore : CanAfford(BudgetKey[p])}
Converges == <>[](EnclaveBidders = Bidders /\ cached = key)
=============================================================================
