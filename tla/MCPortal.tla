------------------------------ MODULE MCPortal ------------------------------
(* The pages of the portal, and the accounts the admin makes.  They share   *)
(* no state, so a behaviour is one of a single page: interleaving them      *)
(* shows nothing new.                                                       *)
EXTENDS ProfilePage, CreativesPage, ConsoleList, PublisherSession, AdminSession,
        Accounts

pageVars == <<profileVars, creativesVars, listVars, publisherVars>>
vars == <<pageVars, sessionVars, accountVars>>
Untouched == ProfileInit /\ CreativesInit /\ ListInit /\ PublisherInit
Init == Untouched /\ SessionInit /\ AccountsInit

Page(A) == SessionInit /\ AccountsInit /\ A /\ UNCHANGED <<sessionVars, accountVars>>
Session(A) == A /\ Untouched /\ AccountsInit /\ UNCHANGED <<pageVars, accountVars>>

Next ==
  \/ /\ CreativesInit /\ ListInit /\ PublisherInit
     /\ Page(ProfileNext) /\ UNCHANGED <<creativesVars, listVars, publisherVars>>
  \/ /\ ProfileInit /\ ListInit /\ PublisherInit
     /\ Page(CreativesNext) /\ UNCHANGED <<profileVars, listVars, publisherVars>>
  \/ /\ ProfileInit /\ CreativesInit /\ PublisherInit
     /\ Page(ListNext) /\ UNCHANGED <<profileVars, creativesVars, publisherVars>>
  \/ /\ ProfileInit /\ CreativesInit /\ ListInit
     /\ Page(PublisherNext) /\ UNCHANGED <<profileVars, creativesVars, listVars>>
  \/ Session(SessionNext)
  \/ /\ Untouched /\ SessionInit
     /\ AccountsNext /\ UNCHANGED <<pageVars, sessionVars>>

(* Someone works with the console of each tab, and requests are answered.   *)
Spec ==
  /\ Init /\ [][Next]_vars
  /\ \A t \in Tabs : WF_vars(Session(Fetch(t))) /\ SF_vars(Session(FetchAnswered(t)))
=============================================================================
