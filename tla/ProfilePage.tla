---------------------------- MODULE ProfilePage ----------------------------
(***************************************************************************)
(* The profile of the advertiser's dashboard over /portal/me: the page     *)
(* reads the profile once, and Save sends the form and reads it again.     *)
(* Save is never disabled, so saves may overlap; clicks are settled all    *)
(* the while.  The profile is a name, which the registry keeps, a budget   *)
(* and what is spent of it, which the tracker keeps.                       *)
(***************************************************************************)
EXTENDS Integers

CONSTANTS
  Names,        \* what the advertiser may call itself
  Amounts,      \* what may be typed as budget; 0 is none
  Saves,        \* bound: saves under way
  MaxVersion    \* bound: changes of name and budget

ASSUME ProfileBounds == 0 \in Amounts /\ Amounts \subseteq Nat /\ MaxVersion \in Nat

VARIABLES
  account,       \* the registry's name, the tracker's total and spent
  version,      \* history: changes of name and budget
  page,         \* "loading", "error" or "open"
  profile,      \* what the page shows, and the version it was read at
  form,         \* editName, editBudget
  save,         \* the saves under way; at: the version of its last change,
                \* readAt: the version when its reading began
  heard,        \* history: the latest version that a save showed, or wrote
                \* before it failed
  behind          \* history: what is shown is older than that

profileVars == <<account, version, page, profile, form, save, heard, behind>>

FirstProfile == [name |-> CHOOSE n \in Names : TRUE, total |-> 1, spent |-> 0]
NoSave == [step |-> "idle", name |-> FirstProfile.name, budget |-> 0, at |-> 0,
           read |-> FirstProfile, readAt |-> 0]

ProfileInit ==
  /\ account = FirstProfile
  /\ version = 0 /\ page = "loading"
  /\ profile = [shown |-> account, at |-> 0]
  /\ form = [name |-> account.name, budget |-> 0]
  /\ save = [s \in Saves |-> NoSave] /\ heard = 0 /\ behind = FALSE

Saving(s) == save[s].step # "idle"
PageOnly == UNCHANGED <<account, version, heard, behind>>
ServerOnly == UNCHANGED <<page, profile, form>>

(* A click of the advertiser's ad is settled.                              *)
ClickSettled ==
  /\ account.spent < account.total /\ account' = [account EXCEPT !.spent = @ + 1]
  /\ UNCHANGED <<version, save, heard, behind>> /\ ServerOnly

(* The effect of the page: profile and form are set, or the error.         *)
OpenProfile ==
  /\ page = "loading"
  /\ \/ /\ page' = "open" /\ profile' = [shown |-> account, at |-> version]
        /\ form' = [name |-> account.name, budget |-> 0]
     \/ page' = "error" /\ UNCHANGED <<profile, form>>
  /\ UNCHANGED save /\ PageOnly

FormShown == page = "open"   \* neither "Loading..." nor an error instead

Fill ==
  /\ FormShown
  /\ \/ \E n \in Names : form' = [form EXCEPT !.name = n]
     \/ \E b \in Amounts : form' = [form EXCEPT !.budget = b]
  /\ UNCHANGED <<page, profile, save>> /\ PageOnly

(* handleSave.  The form keeps its budget, which every later save sends.   *)
Save(s) ==
  /\ FormShown /\ ~Saving(s)
  /\ save' = [save EXCEPT ![s] = [NoSave EXCEPT !.step = "put", !.name = form.name,
                                                !.budget = form.budget]]
  /\ UNCHANGED <<page, profile, form>> /\ PageOnly

(* A save fails and shows nothing; what it wrote stays.                    *)
Latest(a, b) == IF a > b THEN a ELSE b
Throws(s, at) ==
  /\ save' = [save EXCEPT ![s] = NoSave]
  /\ heard' = Latest(heard, at) /\ behind' = (behind \/ heard < at)

(* handlePortalMeUpdate.  Registry.Update changes the name in memory, and  *)
(* answers 404 when the row cannot be written then.                        *)
Changes == version < MaxVersion /\ version' = version + 1

PutName(s) ==
  /\ save[s].step = "put" /\ Changes
  /\ account' = [account EXCEPT !.name = save[s].name]
  /\ \/ /\ save' = [save EXCEPT ![s].at = version',
                               ![s].step = IF save[s].budget > 0 THEN "budget" ELSE "get"]
        /\ UNCHANGED <<heard, behind>>
     \/ Throws(s, version')
  /\ ServerOnly

(* The tracker's budget is set when the row's is, and starts anew.         *)
PutBudget(s) ==
  /\ save[s].step = "budget" /\ Changes
  /\ account' = [account EXCEPT !.total = save[s].budget, !.spent = 0]
  /\ save' = [save EXCEPT ![s].at = version', ![s].step = "get"]
  /\ UNCHANGED <<heard, behind>> /\ ServerOnly

(* handlePortalMeGet: the name from the registry, then the tracker's part. *)
GetName(s) ==
  /\ save[s].step = "get"
  /\ save' = [save EXCEPT ![s].step = "info", ![s].read = account,
                          ![s].readAt = version]
  /\ ServerOnly /\ PageOnly

GetInfo(s) ==
  /\ save[s].step = "info"
  /\ save' = [save EXCEPT ![s].step = "show",
                          ![s].read = [account EXCEPT !.name = save[s].read.name]]
  /\ ServerOnly /\ PageOnly

KeepShown(s) == UNCHANGED profile   \* mutant
SetProfile(s) == profile' = [shown |-> save[s].read, at |-> save[s].readAt]

ShowProfile(s) ==
  /\ save[s].step = "show" /\ SetProfile(s)
  /\ save' = [save EXCEPT ![s] = NoSave]
  /\ heard' = Latest(heard, save[s].readAt) /\ behind' = (save[s].readAt < heard)
  /\ UNCHANGED <<account, version, page, form>>

SaveThrows(s) ==
  /\ save[s].step \in {"put", "budget", "get", "info"}
  /\ Throws(s, save[s].at)
  /\ UNCHANGED <<account, version>> /\ ServerOnly

ProfileNext ==
  \/ ClickSettled \/ OpenProfile \/ Fill
  \/ \E s \in Saves :
       \/ Save(s) \/ PutName(s) \/ PutBudget(s) \/ GetName(s) \/ GetInfo(s)
       \/ ShowProfile(s) \/ SaveThrows(s)
ProfileSpec == ProfileInit /\ [][ProfileNext]_profileVars

-----------------------------------------------------------------------------
(***************************************************************************)
(* However saves overlap: when none is under way, the name and the budget  *)
(* on the page are the ones the server has, unless a save failed after it  *)
(* had changed one, or an older reading was shown after a later one.       *)
(***************************************************************************)
ShowsStoredProfile ==
  (\A s \in Saves : ~Saving(s)) /\ ~behind /\ page = "open"
    => profile.shown.name = account.name /\ profile.shown.total = account.total
=============================================================================
