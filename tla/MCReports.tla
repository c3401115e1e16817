----------------------------- MODULE MCReports -----------------------------
(* What clients report: an ad's viewability, its impressions, and the       *)
(* attestations of the trust exchange.  The three share no variable, so     *)
(* interleaving them shows nothing new: a behaviour is one of the observer, *)
(* one of the cap or one of the ledger.                                     *)
EXTENDS Viewability, FrequencyCap, TrustLedger

CONSTANTS ann, bob, eve

(* Two attestations claim one id; one is by a subject about itself.         *)
MCClaims ==
  {[id |-> 1, type |-> "vendor_relationship", sender |-> ann, subject |-> bob],
   [id |-> 1, type |-> "platform_rating", sender |-> bob, subject |-> eve],
   [id |-> 2, type |-> "platform_rating", sender |-> eve, subject |-> bob],
   [id |-> 2, type |-> "license", sender |-> bob, subject |-> bob]}

vars == <<viewVars, capVars, ledgerVars>>
Init == ViewInit /\ CapInit /\ LedgerInit
Observer(A) == A /\ CapInit /\ LedgerInit /\ UNCHANGED <<capVars, ledgerVars>>
Next == \/ Observer(ViewNext)
        \/ ViewInit /\ LedgerInit /\ CapNext /\ UNCHANGED <<viewVars, ledgerVars>>
        \/ ViewInit /\ CapInit /\ LedgerNext /\ UNCHANGED <<viewVars, capVars>>

(* Time passes, and the browser runs the tasks it has queued.               *)
Spec == /\ Init /\ [][Next]_vars
        /\ WF_vars(Observer(Tick))
        /\ WF_vars(Observer(Callback)) /\ WF_vars(Observer(Timeout))
=============================================================================
