---------------------------- MODULE Portal_proofs ----------------------------
(***************************************************************************)
(* Proofs about the pages of the portal and the accounts it works with,    *)
(* for any number of requests, tabs and creations under way at a time.     *)
(***************************************************************************)
EXTENDS ProfilePage, CreativesPage, ConsoleList, PublisherSession, Accounts,
        WellFoundedInduction, SequenceTheorems, TLAPS

(***************************************************************************)
(* The requests of a page are a function to records.  What a step writes,  *)
(* a record or some fields of one, it alone changes.                       *)
(***************************************************************************)
LEMMA OneRecord ==
  ASSUME NEW S, NEW f, DOMAIN f = S, NEW s \in S, NEW r, NEW g, g = [f EXCEPT ![s] = r]
  PROVE  /\ DOMAIN g = S /\ g[s] = r
         /\ \A t \in S : t # s => g[t] = f[t]
OBVIOUS

LEMMA OneField ==
  ASSUME NEW S, NEW f, DOMAIN f = S, NEW s \in S, NEW x \in DOMAIN f[s], NEW v,
         NEW g, g = [f EXCEPT ![s][x] = v]
  PROVE  /\ DOMAIN g = S /\ DOMAIN g[s] = DOMAIN f[s] /\ g[s][x] = v
         /\ \A k \in DOMAIN f[s] : k # x => g[s][k] = f[s][k]
         /\ \A t \in S : t # s => g[t] = f[t]
OBVIOUS

LEMMA TwoFields ==
  ASSUME NEW S, NEW f, DOMAIN f = S, NEW s \in S, NEW x \in DOMAIN f[s],
         NEW y \in DOMAIN f[s], x # y, NEW v, NEW w,
         NEW g, g = [f EXCEPT ![s][x] = v, ![s][y] = w]
  PROVE  /\ DOMAIN g = S /\ DOMAIN g[s] = DOMAIN f[s] /\ g[s][x] = v /\ g[s][y] = w
         /\ \A k \in DOMAIN f[s] : k \notin {x, y} => g[s][k] = f[s][k]
         /\ \A t \in S : t # s => g[t] = f[t]
OBVIOUS

LEMMA ThreeFields ==
  ASSUME NEW S, NEW f, DOMAIN f = S, NEW s \in S, NEW x \in DOMAIN f[s],
         NEW y \in DOMAIN f[s], NEW z \in DOMAIN f[s], x # y, z # x, z # y,
         NEW u, NEW v, NEW w,
         NEW g, g = [f EXCEPT ![s][x] = u, ![s][y] = v, ![s][z] = w]
  PROVE  /\ DOMAIN g = S /\ DOMAIN g[s] = DOMAIN f[s]
         /\ g[s][x] = u /\ g[s][y] = v /\ g[s][z] = w
         /\ \A k \in DOMAIN f[s] : k \notin {x, y, z} => g[s][k] = f[s][k]
         /\ \A t \in S : t # s => g[t] = f[t]
OBVIOUS

-----------------------------------------------------------------------------
(***************************************************************************)
(* The profile.  A reading that began at the last version is of the name   *)
(* and the budget that are stored, for every change of either is a new     *)
(* version.  A version that no save has shown, and none that failed wrote, *)
(* is that of a save under way, which will show it or fail.  And the page  *)
(* is no older than those, unless it is known to be behind.                *)
(***************************************************************************)
Reads == {"info", "show"}
SaveSteps == {"idle", "put", "budget", "get"} \cup Reads
AccountFields == {"name", "total", "spent"}
ProfileTypes ==
  /\ version \in Nat /\ heard \in 0 .. version /\ profile.at \in 0 .. version
  /\ DOMAIN account = AccountFields /\ DOMAIN save = Saves
  /\ \A s \in Saves : /\ save[s].step \in SaveSteps /\ DOMAIN save[s] = DOMAIN NoSave
                      /\ save[s].at \in 0 .. version /\ save[s].readAt \in 0 .. version
                      /\ save[s].step \in Reads => save[s].readAt >= save[s].at

ReadIsStored ==
  \A s \in Saves : save[s].readAt = version =>
    /\ save[s].step \in Reads => save[s].read.name = account.name
    /\ save[s].step = "show" => save[s].read.total = account.total
ShownIsStored ==
  profile.at = version =>
    profile.shown.name = account.name /\ profile.shown.total = account.total
IsAwaited ==
  version > heard =>
    \E s \in Saves : save[s].step \notin {"idle", "put"} /\ save[s].at = version
ShownIsHeard == ~behind => profile.at >= heard
ProfileInv == ProfileTypes /\ ReadIsStored /\ ShownIsStored /\ IsAwaited /\ ShownIsHeard

LEMMA NoSaveIsIdle ==
  NoSave.step = "idle" /\ NoSave.at = 0 /\ NoSave.readAt = 0
BY DEF NoSave

LEMMA SaveFields ==
  ASSUME ProfileTypes, NEW s \in Saves
  PROVE  /\ "step" \in DOMAIN save[s] /\ "at" \in DOMAIN save[s]
         /\ "read" \in DOMAIN save[s] /\ "readAt" \in DOMAIN save[s]
BY DEF ProfileTypes, NoSave

LEMMA ProfileInitHolds == ProfileInit => ProfileInv
<1> SUFFICES ASSUME ProfileInit PROVE ProfileInv
  OBVIOUS
<1>1. /\ DOMAIN save = Saves /\ profile.at = 0 /\ heard = 0 /\ version = 0
      /\ account = FirstProfile /\ profile.shown = account
      /\ \A s \in Saves : save[s] = NoSave
  BY DEF ProfileInit
<1>2. \A s \in Saves : /\ save[s].step = "idle" /\ save[s].at = 0 /\ save[s].readAt = 0
                       /\ DOMAIN save[s] = DOMAIN NoSave
  BY <1>1, NoSaveIsIdle
<1>3. ProfileTypes
  BY <1>1, <1>2 DEF ProfileTypes, SaveSteps, Reads, FirstProfile, AccountFields
<1>4. ReadIsStored /\ ShownIsStored /\ IsAwaited /\ ShownIsHeard
  BY <1>1, <1>2 DEF ReadIsStored, ShownIsStored, IsAwaited, ShownIsHeard, Reads
<1>5. QED BY <1>3, <1>4 DEF ProfileInv

LEMMA SaveHolds ==
  ASSUME ProfileInv, NEW s \in Saves, Save(s)
  PROVE  ProfileInv'
<1> DEFINE new == [NoSave EXCEPT !.step = "put", !.name = form.name, !.budget = form.budget]
<1>1. new.step = "put" /\ new.at = 0 /\ new.readAt = 0 /\ DOMAIN new = DOMAIN NoSave
  BY DEF NoSave
<1>2. /\ save' = [save EXCEPT ![s] = new] /\ UNCHANGED <<account, version, profile, heard>>
      /\ behind' = behind /\ save[s].step = "idle"
  BY DEF Save, PageOnly, Saving
<1> HIDE DEF new
<1>3. /\ DOMAIN save' = Saves /\ save'[s] = new
      /\ \A t \in Saves : t # s => save'[t] = save[t]
  BY <1>2, OneRecord DEF ProfileInv, ProfileTypes
<1>4. ProfileTypes'
  BY <1>1, <1>2, <1>3 DEF ProfileInv, ProfileTypes, SaveSteps, Reads
<1>5. ReadIsStored'
  BY <1>1, <1>2, <1>3 DEF ProfileInv, ReadIsStored, Reads
<1>6. (ShownIsStored /\ IsAwaited)'
  BY <1>1, <1>2, <1>3 DEF ProfileInv, ShownIsStored, IsAwaited
<1>7. ShownIsHeard'
  BY <1>2 DEF ProfileInv, ShownIsHeard
<1>8. QED BY <1>4, <1>5, <1>6, <1>7 DEF ProfileInv

(* The name or the budget is written: whatever was read before is older.   *)
LEMMA Written ==
  ASSUME ProfileInv, version' = version + 1, DOMAIN account' = AccountFields,
         profile' = profile, DOMAIN save' = Saves,
         NEW s \in Saves, \A t \in Saves : t # s => save'[t] = save[t],
         save'[s].step \in SaveSteps \ Reads, DOMAIN save'[s] = DOMAIN NoSave,
         save'[s].at \in 0 .. version', save'[s].readAt \in 0 .. version
  PROVE  /\ heard' \in 0 .. version' => ProfileTypes'
         /\ ReadIsStored' /\ ShownIsStored'
<1>1. /\ version \in Nat /\ profile.at \in 0 .. version
      /\ \A t \in Saves : save[t].readAt \in 0 .. version /\ save[t].at \in 0 .. version
  BY DEF ProfileInv, ProfileTypes
<1>2. \A t \in Saves : save'[t].readAt \in 0 .. version
  BY <1>1
<1>3. \A t \in Saves : save'[t].readAt # version' /\ save'[t].readAt \in 0 .. version'
  BY <1>1, <1>2
<1>4. profile'.at # version' /\ profile'.at \in 0 .. version'
  BY <1>1
<1>5. \A t \in Saves : save'[t].at \in 0 .. version'
  BY <1>1
<1>6. \A t \in Saves : /\ save'[t].step \in SaveSteps /\ DOMAIN save'[t] = DOMAIN NoSave
                       /\ save'[t].step \in Reads => save'[t].readAt >= save'[t].at
  BY DEF ProfileInv, ProfileTypes
<1>7. ReadIsStored' /\ ShownIsStored'
  BY <1>3, <1>4 DEF ReadIsStored, ShownIsStored
<1>8. ASSUME heard' \in 0 .. version' PROVE ProfileTypes'
  <2>1. version' \in Nat
    BY <1>1
  <2>2. \A t \in Saves : /\ save'[t].step \in SaveSteps /\ DOMAIN save'[t] = DOMAIN NoSave
                         /\ save'[t].at \in 0 .. version' /\ save'[t].readAt \in 0 .. version'
                         /\ save'[t].step \in Reads => save'[t].readAt >= save'[t].at
    BY <1>3, <1>5, <1>6, Zenon
  <2>3. profile'.at \in 0 .. version'
    BY <1>4, Zenon
  <2>4. QED BY ONLY <1>8, <2>1, <2>2, <2>3, DOMAIN account' = AccountFields, DOMAIN save' = Saves
            DEF ProfileTypes
<1>9. QED BY <1>7, <1>8

(* A save ends without showing anything: what it wrote counts as heard.    *)
LEMMA Ends ==
  ASSUME ProfileTypes, ShownIsHeard, NEW s \in Saves, NEW at \in Nat, Throws(s, at),
         profile' = profile
  PROVE  /\ DOMAIN save' = Saves /\ save'[s] = NoSave
         /\ \A t \in Saves : t # s => save'[t] = save[t]
         /\ heard' \in Nat /\ heard' >= heard /\ heard' >= at
         /\ heard' = heard \/ heard' = at
         /\ ShownIsHeard'
<1>1. /\ save' = [save EXCEPT ![s] = NoSave] /\ DOMAIN save = Saves
      /\ heard' = Latest(heard, at) /\ heard \in Nat
  BY DEF Throws, ProfileTypes
<1>2. /\ DOMAIN save' = Saves /\ save'[s] = NoSave
      /\ \A t \in Saves : t # s => save'[t] = save[t]
  BY <1>1, OneRecord
<1>3. /\ heard' \in Nat /\ heard' >= heard /\ heard' >= at /\ (heard' = heard \/ heard' = at)
      /\ ~(heard < at) => heard' = heard
  BY <1>1 DEF Latest
<1>4. ~behind' => ~behind /\ ~(heard < at)
  BY Zenon DEF Throws
<1>5. ShownIsHeard'
  <2>1. ASSUME ~behind' PROVE profile'.at >= heard'
    BY <1>3, <1>4, <2>1 DEF ShownIsHeard
  <2>2. QED BY <2>1, Zenon DEF ShownIsHeard
<1>6. QED BY <1>2, <1>3, <1>5

LEMMA PutNameHolds ==
  ASSUME ProfileInv, NEW s \in Saves, PutName(s)
  PROVE  ProfileInv'
<1>1. /\ version' = version + 1 /\ profile' = profile /\ version \in Nat
      /\ account' = [account EXCEPT !.name = save[s].name]
      /\ heard \in 0 .. version /\ heard \in 0 .. version'
      /\ save[s].step = "put" /\ save[s].readAt \in 0 .. version
  BY DEF PutName, Changes, ServerOnly, ProfileInv, ProfileTypes
<1>2. DOMAIN account' = AccountFields
  BY <1>1 DEF ProfileInv, ProfileTypes
<1>3. CASE Throws(s, version')
  <2>1. /\ DOMAIN save' = Saves /\ save'[s] = NoSave
        /\ \A t \in Saves : t # s => save'[t] = save[t]
        /\ heard' = version' /\ ShownIsHeard'
    BY <1>1, <1>3, Ends DEF ProfileInv
  <2>2. (ProfileTypes /\ ReadIsStored /\ ShownIsStored)'
    BY <1>1, <1>2, <2>1, Written, NoSaveIsIdle DEF SaveSteps, Reads
  <2>3. IsAwaited'
    BY <1>1, <2>1 DEF IsAwaited
  <2>4. QED BY <2>1, <2>2, <2>3 DEF ProfileInv
<1>4. CASE /\ save' = [save EXCEPT ![s].at = version',
                                   ![s].step = IF save[s].budget > 0 THEN "budget" ELSE "get"]
           /\ UNCHANGED <<heard, behind>>
  <2> DEFINE next == IF save[s].budget > 0 THEN "budget" ELSE "get"
  <2>1. next \in {"budget", "get"} /\ save' = [save EXCEPT ![s].at = version', ![s].step = next]
    BY <1>4
  <2> HIDE DEF next
  <2>2. /\ DOMAIN save' = Saves /\ DOMAIN save'[s] = DOMAIN save[s]
        /\ save'[s].step = next /\ save'[s].at = version'
        /\ save'[s].readAt = save[s].readAt
        /\ \A t \in Saves : t # s => save'[t] = save[t]
    BY <2>1, TwoFields, SaveFields DEF ProfileInv, ProfileTypes
  <2>3. DOMAIN save'[s] = DOMAIN NoSave
    BY <2>2 DEF ProfileInv, ProfileTypes
  <2>4. save'[s].step \in SaveSteps \ Reads /\ heard' \in 0 .. version'
    BY <1>1, <1>4, <2>1, <2>2 DEF SaveSteps, Reads
  <2>5. (ProfileTypes /\ ReadIsStored /\ ShownIsStored)'
    BY <1>1, <1>2, <2>2, <2>3, <2>4, Written
  <2>6. IsAwaited'
    BY <2>1, <2>2 DEF IsAwaited
  <2>7. ShownIsHeard'
    BY <1>1, <1>4 DEF ProfileInv, ShownIsHeard
  <2>8. QED BY <2>5, <2>6, <2>7 DEF ProfileInv
<1>5. QED BY <1>3, <1>4 DEF PutName

LEMMA PutBudgetHolds ==
  ASSUME ProfileInv, NEW s \in Saves, PutBudget(s)
  PROVE  ProfileInv'
<1>1. /\ version' = version + 1 /\ profile' = profile /\ version \in Nat
      /\ account' = [account EXCEPT !.total = save[s].budget, !.spent = 0]
      /\ heard' = heard /\ behind' = behind /\ heard \in 0 .. version'
      /\ save' = [save EXCEPT ![s].at = version', ![s].step = "get"]
      /\ save[s].readAt \in 0 .. version
  BY DEF PutBudget, Changes, ServerOnly, ProfileInv, ProfileTypes
<1>2. DOMAIN account' = AccountFields
  BY <1>1 DEF ProfileInv, ProfileTypes
<1>3. /\ DOMAIN save' = Saves /\ DOMAIN save'[s] = DOMAIN save[s]
      /\ save'[s].step = "get" /\ save'[s].at = version'
      /\ save'[s].readAt = save[s].readAt
      /\ \A t \in Saves : t # s => save'[t] = save[t]
  BY <1>1, TwoFields, SaveFields DEF ProfileInv, ProfileTypes
<1>4. DOMAIN save'[s] = DOMAIN NoSave
  BY <1>3 DEF ProfileInv, ProfileTypes
<1>5. save'[s].step \in SaveSteps \ Reads
  BY <1>3 DEF SaveSteps, Reads
<1>6. (ProfileTypes /\ ReadIsStored /\ ShownIsStored)'
  BY <1>1, <1>2, <1>3, <1>4, <1>5, Written
<1>7. IsAwaited'
  BY <1>3 DEF IsAwaited
<1>8. ShownIsHeard'
  BY <1>1 DEF ProfileInv, ShownIsHeard
<1>9. QED BY <1>6, <1>7, <1>8 DEF ProfileInv

(* A save reads on.                                                        *)
LEMMA ReadHolds ==
  ASSUME ProfileInv, UNCHANGED <<account, version, profile, heard>>, behind' = behind,
         DOMAIN save' = Saves, NEW s \in Saves, DOMAIN save'[s] = DOMAIN save[s],
         \A t \in Saves : t # s => save'[t] = save[t],
         save'[s].step \in Reads, save'[s].at = save[s].at,
         save'[s].readAt \in save[s].at .. version,
         save'[s].readAt = version =>
           /\ save'[s].read.name = account.name
           /\ save'[s].step = "show" => save'[s].read.total = account.total
  PROVE  ProfileInv'
<1>1. version \in Nat /\ save[s].at \in 0 .. version
  BY DEF ProfileInv, ProfileTypes
<1>2. save'[s].readAt \in 0 .. version /\ save'[s].readAt >= save'[s].at
  BY <1>1
<1>3. ProfileTypes'
  BY <1>1, <1>2 DEF ProfileInv, ProfileTypes, SaveSteps
<1>4. ReadIsStored'
  BY DEF ProfileInv, ReadIsStored
<1>5. (ShownIsStored /\ ShownIsHeard)'
  BY DEF ProfileInv, ShownIsStored, ShownIsHeard
<1>6. IsAwaited'
  <2>1. \A t \in Saves : /\ save'[t].at = save[t].at
                         /\ save[t].step \notin {"idle", "put"} => save'[t].step \notin {"idle", "put"}
    BY DEF Reads
  <2>2. QED BY <2>1 DEF ProfileInv, IsAwaited
<1>7. QED BY <1>3, <1>4, <1>5, <1>6 DEF ProfileInv

LEMMA GetNameHolds ==
  ASSUME ProfileInv, NEW s \in Saves, GetName(s)
  PROVE  ProfileInv'
<1>1. /\ UNCHANGED <<account, version, profile, heard>> /\ behind' = behind
      /\ save' = [save EXCEPT ![s].step = "info", ![s].read = account, ![s].readAt = version]
  BY DEF GetName, ServerOnly, PageOnly
<1>2. /\ DOMAIN save' = Saves /\ DOMAIN save'[s] = DOMAIN save[s]
      /\ save'[s].step = "info" /\ save'[s].read = account
      /\ save'[s].readAt = version /\ save'[s].at = save[s].at
      /\ \A t \in Saves : t # s => save'[t] = save[t]
  BY <1>1, ThreeFields, SaveFields DEF ProfileInv, ProfileTypes
<1>3. save'[s].readAt \in save[s].at .. version
  BY <1>2 DEF ProfileInv, ProfileTypes
<1>4. QED BY <1>1, <1>2, <1>3, ReadHolds DEF Reads

LEMMA GetInfoHolds ==
  ASSUME ProfileInv, NEW s \in Saves, GetInfo(s)
  PROVE  ProfileInv'
<1> DEFINE got == [account EXCEPT !.name = save[s].read.name]
<1>1. /\ UNCHANGED <<account, version, profile, heard>> /\ behind' = behind
      /\ save' = [save EXCEPT ![s].step = "show", ![s].read = got]
      /\ save[s].step = "info"
  BY DEF GetInfo, ServerOnly, PageOnly
<1>2. got.name = save[s].read.name /\ got.total = account.total
  BY DEF ProfileInv, ProfileTypes, AccountFields
<1> HIDE DEF got
<1>3. /\ DOMAIN save' = Saves /\ DOMAIN save'[s] = DOMAIN save[s]
      /\ save'[s].step = "show" /\ save'[s].read = got
      /\ save'[s].readAt = save[s].readAt /\ save'[s].at = save[s].at
      /\ \A t \in Saves : t # s => save'[t] = save[t]
  BY <1>1, TwoFields, SaveFields DEF ProfileInv, ProfileTypes
<1>4. save'[s].readAt \in save[s].at .. version
  BY <1>1, <1>3 DEF ProfileInv, ProfileTypes, Reads
<1>5. save'[s].readAt = version => save'[s].read.name = account.name
  BY <1>1, <1>2, <1>3 DEF ProfileInv, ReadIsStored, Reads
<1>6. QED BY <1>1, <1>2, <1>3, <1>4, <1>5, ReadHolds DEF Reads

LEMMA ShowHolds ==
  ASSUME ProfileInv, NEW s \in Saves, ShowProfile(s)
  PROVE  ProfileInv'
<1>1. /\ UNCHANGED <<account, version>> /\ save[s].step = "show"
      /\ profile'.at = save[s].readAt /\ profile'.shown = save[s].read
      /\ heard' = Latest(heard, save[s].readAt)
      /\ save' = [save EXCEPT ![s] = NoSave]
  BY DEF ShowProfile, SetProfile
<1>2. /\ DOMAIN save' = Saves /\ save'[s] = NoSave
      /\ \A t \in Saves : t # s => save'[t] = save[t]
  BY <1>1, OneRecord DEF ProfileInv, ProfileTypes
<1>3. /\ heard' \in 0 .. version /\ heard' >= heard /\ heard' >= save[s].at
      /\ ~(save[s].readAt < heard) => profile'.at >= heard'
  BY <1>1 DEF ProfileInv, ProfileTypes, Latest, Reads
<1>4. ProfileTypes'
  BY <1>1, <1>2, <1>3, NoSaveIsIdle DEF ProfileInv, ProfileTypes, SaveSteps, Reads
<1>5. ReadIsStored'
  BY <1>1, <1>2, NoSaveIsIdle DEF ProfileInv, ReadIsStored, Reads
<1>6. ShownIsStored'
  BY <1>1 DEF ProfileInv, ReadIsStored, ShownIsStored, Reads
<1>7. IsAwaited'
  <2>1. version \in Nat /\ heard \in Nat
    BY DEF ProfileInv, ProfileTypes
  <2>2. QED BY <1>1, <1>2, <1>3, <2>1 DEF ProfileInv, ProfileTypes, IsAwaited
<1>8. ShownIsHeard'
  <2>1. ~behind' => ~(save[s].readAt < heard)
    BY Zenon DEF ShowProfile
  <2>2. QED BY <1>3, <2>1 DEF ShownIsHeard
<1>9. QED BY <1>4, <1>5, <1>6, <1>7, <1>8 DEF ProfileInv

LEMMA SaveThrowsHolds ==
  ASSUME ProfileInv, NEW s \in Saves, SaveThrows(s)
  PROVE  ProfileInv'
<1>1. /\ UNCHANGED <<account, version, profile>> /\ Throws(s, save[s].at)
      /\ version \in Nat /\ save[s].at \in 0 .. version /\ heard \in 0 .. version
  BY DEF SaveThrows, ServerOnly, ProfileInv, ProfileTypes
<1>2. /\ DOMAIN save' = Saves /\ save'[s] = NoSave
      /\ \A t \in Saves : t # s => save'[t] = save[t]
      /\ heard' \in 0 .. version /\ heard' >= heard /\ heard' >= save[s].at
      /\ ShownIsHeard'
  BY <1>1, Ends DEF ProfileInv
<1>3. ProfileTypes'
  BY <1>1, <1>2, NoSaveIsIdle DEF ProfileInv, ProfileTypes, SaveSteps, Reads
<1>4. ReadIsStored'
  BY <1>1, <1>2, NoSaveIsIdle DEF ProfileInv, ReadIsStored, Reads
<1>5. ShownIsStored'
  BY <1>1 DEF ProfileInv, ShownIsStored
<1>6. IsAwaited'
  BY <1>1, <1>2 DEF ProfileInv, ProfileTypes, IsAwaited
<1>7. QED BY <1>2, <1>3, <1>4, <1>5, <1>6 DEF ProfileInv

LEMMA ProfileStep == ProfileInv /\ [ProfileNext]_profileVars => ProfileInv'
<1> SUFFICES ASSUME ProfileInv, [ProfileNext]_profileVars PROVE ProfileInv'
  OBVIOUS
<1>1. CASE ClickSettled
  <2>1. /\ UNCHANGED <<version, save, heard, profile>> /\ behind' = behind
        /\ account' = [account EXCEPT !.spent = @ + 1]
    BY <1>1 DEF ClickSettled, ServerOnly
  <2>2. /\ DOMAIN account' = AccountFields /\ account'.name = account.name
        /\ account'.total = account.total
    BY <2>1 DEF ProfileInv, ProfileTypes, AccountFields
  <2>3. (ProfileTypes /\ ReadIsStored /\ ShownIsStored)'
    BY <2>1, <2>2 DEF ProfileInv, ProfileTypes, ReadIsStored, ShownIsStored
  <2>4. (IsAwaited /\ ShownIsHeard)'
    BY <2>1 DEF ProfileInv, IsAwaited, ShownIsHeard
  <2>5. QED BY <2>3, <2>4 DEF ProfileInv
<1>2. CASE OpenProfile
  <2>1. UNCHANGED <<account, version, heard, save>> /\ behind' = behind
    BY <1>2 DEF OpenProfile, PageOnly
  <2>2. \/ profile' = profile
        \/ profile'.at = version /\ profile'.shown = account
    BY <1>2 DEF OpenProfile
  <2>3. (ProfileTypes /\ ReadIsStored /\ IsAwaited)'
    BY <2>1, <2>2 DEF ProfileInv, ProfileTypes, ReadIsStored, IsAwaited
  <2>4. (ShownIsStored /\ ShownIsHeard)'
    BY <2>1, <2>2 DEF ProfileInv, ProfileTypes, ShownIsStored, ShownIsHeard
  <2>5. QED BY <2>3, <2>4 DEF ProfileInv
<1>3. CASE Fill \/ UNCHANGED profileVars
  <2>1. UNCHANGED <<account, version, heard, save, profile>> /\ behind' = behind
    BY <1>3 DEF Fill, PageOnly, profileVars
  <2>2. QED
    BY <2>1 DEF ProfileInv, ProfileTypes, ReadIsStored, ShownIsStored, IsAwaited, ShownIsHeard
<1>4. QED
  BY <1>1, <1>2, <1>3, SaveHolds, PutNameHolds, PutBudgetHolds, GetNameHolds, GetInfoHolds,
     ShowHolds, SaveThrowsHolds
     DEF ProfileNext

(***************************************************************************)
(* handleSave sends the form and reads the profile again, and nothing      *)
(* keeps a second Save back.  Any number of saves may overlap in the       *)
(* server and on the way: the page ends with the name and the budget that  *)
(* are stored, unless a save failed after it had changed one, or an older  *)
(* reading was shown after a later one.                                    *)
(***************************************************************************)
THEOREM StoredProfileIsShown == ProfileSpec => []ShowsStoredProfile
<1>1. ASSUME ProfileInv PROVE ShowsStoredProfile
  <2>1. ASSUME \A s \in Saves : ~Saving(s), ~behind PROVE profile.at = version
    BY <1>1, <2>1 DEF ProfileInv, ProfileTypes, IsAwaited, ShownIsHeard, Saving
  <2>2. QED BY <1>1, <2>1 DEF ProfileInv, ShownIsStored, ShowsStoredProfile
<1>2. QED BY <1>1, ProfileInitHolds, ProfileStep, PTL DEF ProfileSpec

-----------------------------------------------------------------------------
(***************************************************************************)
(* The creatives.  What was read after the last change is the table.  A    *)
(* change that no list shown was read after is that of a request under     *)
(* way, which reads the list or fails; and the list is the table when it   *)
(* has caught up with the last change, unless that was missed.             *)
(***************************************************************************)
OpSteps == {"idle", "send", "served", "reload", "show"}
OpTypes ==
  /\ changes \in Nat /\ reached \in 0 .. changes /\ DOMAIN op = Ops
  /\ \A o \in Ops : /\ op[o].step \in OpSteps /\ DOMAIN op[o] = DOMAIN NoOp
                    /\ op[o].at \in 0 .. changes /\ op[o].readAt \in 0 .. changes
                    /\ op[o].step = "show" => op[o].readAt >= op[o].at
ReadIsTable ==
  \A o \in Ops : op[o].step = "show" /\ op[o].readAt = changes => op[o].read = creatives
CaughtUp == ~missed => (reached = changes => list = creatives)
ChangeAwaited ==
  changes > reached =>
    \E o \in Ops : op[o].step \notin {"idle", "send"} /\ op[o].at = changes
CreativesInv == OpTypes /\ ReadIsTable /\ CaughtUp /\ ChangeAwaited

LEMMA NoOpIsIdle ==
  NoOp.step = "idle" /\ NoOp.at = 0 /\ NoOp.readAt = 0
BY DEF NoOp

LEMMA OpFields ==
  ASSUME OpTypes, NEW o \in Ops
  PROVE  /\ "step" \in DOMAIN op[o] /\ "at" \in DOMAIN op[o]
         /\ "read" \in DOMAIN op[o] /\ "readAt" \in DOMAIN op[o] /\ DOMAIN op = Ops
BY DEF OpTypes, NoOp

LEMMA CreativesInitHolds == CreativesInit => CreativesInv
<1> SUFFICES ASSUME CreativesInit PROVE CreativesInv
  OBVIOUS
<1> DEFINE first == [NoOp EXCEPT !.step = "reload", !.at = changes]
<1>1. /\ changes = 1 /\ reached = 0 /\ DOMAIN op = Ops
      /\ \A o \in Ops : op[o] = IF o = FirstLoad THEN first ELSE NoOp
  BY DEF CreativesInit
<1>2. /\ first.step = "reload" /\ first.at = 1 /\ first.readAt = 0
      /\ DOMAIN first = DOMAIN NoOp
  BY <1>1 DEF NoOp
<1> HIDE DEF first
<1>3. FirstLoad \in Ops
  BY CreativesBounds DEF FirstLoad
<1>4. OpTypes
  BY <1>1, <1>2, NoOpIsIdle DEF OpTypes, OpSteps
<1>5. ReadIsTable /\ CaughtUp
  BY <1>1, <1>2, NoOpIsIdle DEF ReadIsTable, CaughtUp
<1>6. ChangeAwaited
  BY <1>1, <1>2, <1>3 DEF ChangeAwaited
<1>7. QED BY <1>4, <1>5, <1>6 DEF CreativesInv

(* The lists that were shown stay as they are.                             *)
LEMMA ListStays ==
  ASSUME CreativesInv, ListKept, creatives' = creatives, changes' = changes
  PROVE  CaughtUp' /\ reached' = reached
<1>1. reached' = reached /\ list' = list /\ missed' = missed
  BY DEF ListKept
<1>2. QED BY <1>1 DEF CreativesInv, CaughtUp

LEMMA BeginHolds ==
  ASSUME CreativesInv, NEW o \in Ops, NEW kind, NEW id, NEW title, Begin(o, kind, id, title)
  PROVE  CreativesInv'
<1> DEFINE new == [NoOp EXCEPT !.step = "send", !.kind = kind, !.id = id, !.title = title]
<1>1. /\ new.step = "send" /\ new.at = 0 /\ new.readAt = 0 /\ DOMAIN new = DOMAIN NoOp
  BY DEF NoOp
<1>2. /\ op' = [op EXCEPT ![o] = new] /\ op[o].step = "idle"
      /\ creatives' = creatives /\ changes' = changes
  BY DEF Begin, TableOnly, Pending
<1>3. CaughtUp' /\ reached' = reached
  BY <1>2, ListStays DEF Begin
<1> HIDE DEF new
<1>4. DOMAIN op' = Ops /\ op'[o] = new /\ \A p \in Ops : p # o => op'[p] = op[p]
  BY <1>2, OneRecord DEF CreativesInv, OpTypes
<1>5. OpTypes'
  BY <1>1, <1>2, <1>3, <1>4 DEF CreativesInv, OpTypes, OpSteps
<1>6. (ReadIsTable /\ ChangeAwaited)'
  BY <1>1, <1>2, <1>3, <1>4 DEF CreativesInv, ReadIsTable, ChangeAwaited
<1>7. QED BY <1>3, <1>5, <1>6 DEF CreativesInv

(* The table changes: every list that was read before is older.            *)
LEMMA TableWritten ==
  ASSUME CreativesInv, Changed
  PROVE  /\ changes' = changes + 1 /\ changes \in Nat /\ reached \in 0 .. changes
         /\ \A o \in Ops : op[o].readAt \in 0 .. changes /\ op[o].readAt # changes'
BY DEF CreativesInv, OpTypes, Changed

LEMMA ServeHolds ==
  ASSUME CreativesInv, NEW o \in Ops, Serve(o)
  PROVE  CreativesInv'
<1>1. /\ Changed /\ op[o].step = "send"
      /\ op' = [op EXCEPT ![o].step = "served", ![o].at = changes']
      /\ reached' = reached
  BY DEF Serve, ListKept
<1>2. /\ changes' = changes + 1 /\ changes \in Nat /\ reached' \in 0 .. changes
      /\ \A p \in Ops : op[p].readAt \in 0 .. changes /\ op[p].readAt # changes'
  BY <1>1, TableWritten
<1>3. /\ DOMAIN op' = Ops /\ DOMAIN op'[o] = DOMAIN op[o]
      /\ op'[o].step = "served" /\ op'[o].at = changes' /\ op'[o].readAt = op[o].readAt
      /\ \A p \in Ops : p # o => op'[p] = op[p]
  BY <1>1, TwoFields, OpFields DEF CreativesInv
<1>4. OpTypes'
  BY <1>2, <1>3 DEF CreativesInv, OpTypes, OpSteps
<1>5. (ReadIsTable /\ CaughtUp)'
  BY <1>2, <1>3 DEF ReadIsTable, CaughtUp
<1>6. ChangeAwaited'
  BY <1>3 DEF ChangeAwaited
<1>7. QED BY <1>4, <1>5, <1>6 DEF CreativesInv

LEMMA DeletedElsewhereHolds ==
  ASSUME CreativesInv, DeletedElsewhere
  PROVE  CreativesInv'
<1>1. Changed /\ reached' = changes' /\ op' = op /\ missed'
  BY DEF DeletedElsewhere
<1>2. /\ changes' = changes + 1 /\ changes \in Nat /\ reached \in 0 .. changes
      /\ \A p \in Ops : op[p].readAt \in 0 .. changes /\ op[p].readAt # changes'
  BY <1>1, TableWritten
<1>3. OpTypes'
  BY <1>1, <1>2 DEF CreativesInv, OpTypes
<1>4. (ReadIsTable /\ ChangeAwaited)'
  BY <1>1, <1>2 DEF ReadIsTable, ChangeAwaited
<1>5. CaughtUp'
  BY <1>1, Zenon DEF CaughtUp
<1>6. QED BY <1>3, <1>4, <1>5 DEF CreativesInv

(* A request goes on, and perhaps reads the list.                          *)
LEMMA OpAnsweredHolds ==
  ASSUME CreativesInv, NEW o \in Ops, OpAnswered(o)
  PROVE  CreativesInv'
<1>1. /\ op[o].step = "served" /\ op' = [op EXCEPT ![o].step = "reload"]
      /\ creatives' = creatives /\ changes' = changes
  BY DEF OpAnswered, TableOnly
<1>2. CaughtUp' /\ reached' = reached
  BY <1>1, ListStays DEF OpAnswered
<1>3. /\ DOMAIN op' = Ops /\ DOMAIN op'[o] = DOMAIN op[o] /\ op'[o].step = "reload"
      /\ op'[o].at = op[o].at /\ op'[o].readAt = op[o].readAt
      /\ \A p \in Ops : p # o => op'[p] = op[p]
  BY <1>1, OneField, OpFields DEF CreativesInv
<1>4. OpTypes'
  BY <1>1, <1>2, <1>3 DEF CreativesInv, OpTypes, OpSteps
<1>5. (ReadIsTable /\ ChangeAwaited)'
  BY <1>1, <1>2, <1>3 DEF CreativesInv, ReadIsTable, ChangeAwaited
<1>6. QED BY <1>2, <1>4, <1>5 DEF CreativesInv

LEMMA ReadListHolds ==
  ASSUME CreativesInv, NEW o \in Ops, ReadList(o)
  PROVE  CreativesInv'
<1>1. /\ op[o].step = "reload" /\ creatives' = creatives /\ changes' = changes
      /\ op' = [op EXCEPT ![o].step = "show", ![o].read = creatives, ![o].readAt = changes]
  BY DEF ReadList, TableOnly
<1>2. CaughtUp' /\ reached' = reached
  BY <1>1, ListStays DEF ReadList
<1>3. /\ DOMAIN op' = Ops /\ DOMAIN op'[o] = DOMAIN op[o] /\ op'[o].step = "show"
      /\ op'[o].read = creatives /\ op'[o].readAt = changes /\ op'[o].at = op[o].at
      /\ \A p \in Ops : p # o => op'[p] = op[p]
  BY <1>1, ThreeFields, OpFields DEF CreativesInv
<1>4. OpTypes'
  BY <1>1, <1>2, <1>3 DEF CreativesInv, OpTypes, OpSteps
<1>5. (ReadIsTable /\ ChangeAwaited)'
  BY <1>1, <1>2, <1>3 DEF CreativesInv, ReadIsTable, ChangeAwaited
<1>6. QED BY <1>2, <1>4, <1>5 DEF CreativesInv

(* The request is over, and the list is shown or the handler threw.        *)
LEMMA ShowListHolds ==
  ASSUME CreativesInv, NEW o \in Ops, ShowList(o)
  PROVE  CreativesInv'
<1>1. /\ op[o].step = "show" /\ list' = op[o].read
      /\ op' = [op EXCEPT ![o] = NoOp] /\ creatives' = creatives /\ changes' = changes
      /\ reached' = IF op[o].readAt > reached THEN op[o].readAt ELSE reached
  BY DEF ShowList, SetCreatives, Reaches, TableOnly
<1>2. DOMAIN op' = Ops /\ op'[o] = NoOp /\ \A p \in Ops : p # o => op'[p] = op[p]
  BY <1>1, OneRecord DEF CreativesInv, OpTypes
<1>3. /\ reached' \in 0 .. changes /\ reached' >= reached /\ reached' >= op[o].at
      /\ ~(op[o].readAt < reached) => reached' = op[o].readAt
  BY <1>1 DEF CreativesInv, OpTypes
<1>4. OpTypes'
  BY <1>1, <1>2, <1>3, NoOpIsIdle DEF CreativesInv, OpTypes, OpSteps
<1>5. ReadIsTable'
  BY <1>1, <1>2, NoOpIsIdle DEF CreativesInv, ReadIsTable
<1>6. CaughtUp'
  <2>1. ~missed' => ~(op[o].readAt < reached)
    BY Zenon DEF ShowList
  <2>2. reached' = op[o].readAt /\ reached' = changes' => list' = creatives'
    BY <1>1 DEF CreativesInv, ReadIsTable
  <2>3. QED BY <1>3, <2>1, <2>2, Zenon DEF CaughtUp
<1>7. ChangeAwaited'
  BY <1>1, <1>2, <1>3 DEF CreativesInv, OpTypes, ChangeAwaited
<1>8. QED BY <1>4, <1>5, <1>6, <1>7 DEF CreativesInv

LEMMA OpThrowsHolds ==
  ASSUME CreativesInv, NEW o \in Ops, OpThrows(o)
  PROVE  CreativesInv'
<1>1. /\ op' = [op EXCEPT ![o] = NoOp] /\ creatives' = creatives /\ changes' = changes
      /\ list' = list
      /\ reached' = IF op[o].at > reached THEN op[o].at ELSE reached
  BY DEF OpThrows, Reaches, TableOnly
<1>2. DOMAIN op' = Ops /\ op'[o] = NoOp /\ \A p \in Ops : p # o => op'[p] = op[p]
  BY <1>1, OneRecord DEF CreativesInv, OpTypes
<1>3. /\ reached' \in 0 .. changes /\ reached' >= reached /\ reached' >= op[o].at
      /\ ~(reached < op[o].at) => reached' = reached
  BY <1>1 DEF CreativesInv, OpTypes
<1>4. OpTypes'
  BY <1>1, <1>2, <1>3, NoOpIsIdle DEF CreativesInv, OpTypes, OpSteps
<1>5. ReadIsTable'
  BY <1>1, <1>2, NoOpIsIdle DEF CreativesInv, ReadIsTable
<1>6. CaughtUp'
  <2>1. ~missed' => ~missed /\ ~(reached < op[o].at)
    BY Zenon DEF OpThrows
  <2>2. QED BY <1>1, <1>3, <2>1, Zenon DEF CreativesInv, CaughtUp
<1>7. ChangeAwaited'
  BY <1>1, <1>2, <1>3 DEF CreativesInv, OpTypes, ChangeAwaited
<1>8. QED BY <1>4, <1>5, <1>6, <1>7 DEF CreativesInv

LEMMA CreativesStep == CreativesInv /\ [CreativesNext]_creativesVars => CreativesInv'
<1> SUFFICES ASSUME CreativesInv, [CreativesNext]_creativesVars PROVE CreativesInv'
  OBVIOUS
<1>1. CASE Edit \/ TypeTitle \/ Cancel \/ UNCHANGED creativesVars
  <2>1. op' = op /\ creatives' = creatives /\ changes' = changes /\ ListKept
    BY <1>1 DEF Edit, TypeTitle, Cancel, EditorOnly, TableOnly, ListKept, creativesVars
  <2>2. CaughtUp' /\ reached' = reached
    BY <2>1, ListStays
  <2>3. QED
    BY <2>1, <2>2 DEF CreativesInv, OpTypes, ReadIsTable, ChangeAwaited
<1>2. ASSUME NEW o \in Ops, SaveTitle(o) \/ Delete(o) \/ Add(o) PROVE CreativesInv'
  BY <1>2, BeginHolds DEF SaveTitle, Delete, Add
<1>3. QED
  BY <1>1, <1>2, DeletedElsewhereHolds, ServeHolds, OpAnsweredHolds, ReadListHolds,
     ShowListHolds, OpThrowsHolds DEF CreativesNext

(***************************************************************************)
(* Dashboard.tsx reads the list again after each of its requests, and when *)
(* it is opened: any number of them may overlap, in the server and on the  *)
(* way, and the page ends with the table, unless a list was shown after    *)
(* one that was read later, a request failed after it was served, or       *)
(* another tab deleted and no list was read since.                         *)
(***************************************************************************)
THEOREM ListFollowsTable == CreativesSpec => []ListIsTable
<1>1. ASSUME CreativesInv PROVE ListIsTable
  <2>1. ASSUME \A o \in Ops : ~Pending(o) PROVE reached = changes
    BY <1>1, <2>1 DEF CreativesInv, OpTypes, ChangeAwaited, Pending
  <2>2. QED BY <1>1, <2>1, Zenon DEF CreativesInv, CaughtUp, ListIsTable
<1>2. QED BY <1>1, CreativesInitHolds, CreativesStep, PTL DEF CreativesSpec

-----------------------------------------------------------------------------
(***************************************************************************)
(* The lists.  The requests that the last change sent are for the filter   *)
(* and the page that are set.  While one of them is under way its answer   *)
(* is still to come; when none is, and the last to end was one of theirs   *)
(* that was answered, what it brought is what is shown.                    *)
(***************************************************************************)
AskSteps == {"idle", "sent", "answered"}
ListTypes ==
  /\ rows \in [Filters -> Nat] /\ filter \in Filters /\ offset \in Nat
  /\ shown.filter \in Filters /\ shown.total \in Nat
  /\ newest \subseteq Asks /\ DOMAIN ask = Asks
  /\ \A r \in Asks : /\ ask[r].step \in AskSteps /\ DOMAIN ask[r] = DOMAIN NoAsk
                     /\ ask[r].filter \in Filters /\ ask[r].total \in Nat
NewestAsSet ==
  \A r \in newest : Asking(r) => ask[r].filter = filter /\ ask[r].offset = offset
NewestComes == (\E r \in newest : Asking(r)) \/ IsShown
ListInv == ListTypes /\ NewestAsSet /\ (~late => NewestComes)

LEMMA NoAskIsIdle ==
  /\ NoAsk.step = "idle" /\ NoAsk.filter \in Filters /\ NoAsk.total = 0
  /\ NoAsk.offset = 0
  /\ \A f, o : LET new == [NoAsk EXCEPT !.step = "sent", !.filter = f, !.offset = o]
               IN  /\ new.step = "sent" /\ new.filter = f /\ new.offset = o
                   /\ new.total = 0 /\ DOMAIN new = DOMAIN NoAsk
  /\ LET new == [NoAsk EXCEPT !.step = "sent"]
     IN  /\ new.step = "sent" /\ new.filter = NoAsk.filter /\ new.offset = 0
         /\ new.total = 0 /\ DOMAIN new = DOMAIN NoAsk
BY ListBounds DEF NoAsk

LEMMA AskFields ==
  ASSUME ListTypes, NEW r \in Asks
  PROVE  /\ "step" \in DOMAIN ask[r] /\ "total" \in DOMAIN ask[r]
         /\ "filter" \in DOMAIN ask[r] /\ "offset" \in DOMAIN ask[r] /\ DOMAIN ask = Asks
BY DEF ListTypes, NoAsk

LEMMA ListInitHolds == ListInit => ListInv
<1> SUFFICES ASSUME ListInit PROVE ListInv
  OBVIOUS
<1>1. /\ rows = [f \in Filters |-> 0] /\ filter = NoAsk.filter /\ offset = 0
      /\ shown.filter = filter /\ shown.offset = 0 /\ shown.total = 0 /\ newest = {}
      /\ DOMAIN ask = Asks /\ \A r \in Asks : ask[r] = NoAsk
  BY DEF ListInit
<1>2. ListTypes
  BY <1>1, NoAskIsIdle DEF ListTypes, AskSteps
<1>3. NewestAsSet /\ NewestComes
  BY <1>1 DEF NewestAsSet, NewestComes, IsShown
<1>4. QED BY <1>2, <1>3 DEF ListInv

LEMMA MountHolds ==
  ASSUME ListInv, Mount
  PROVE  ListInv'
<1>1. /\ filter' = NoAsk.filter /\ offset' = 0 /\ rows' = rows
      /\ shown'.filter = filter' /\ shown'.offset = 0 /\ shown'.total = 0
  BY DEF Mount
<1>2. PICK asking \in (SUBSET Asks) \ {{}} :
        /\ ask' = [r \in Asks |-> IF r \in asking THEN [NoAsk EXCEPT !.step = "sent"] ELSE NoAsk]
        /\ newest' = asking
  BY DEF Mount
<1>3. /\ DOMAIN ask' = Asks
      /\ \A r \in Asks : /\ ask'[r].step = IF r \in asking THEN "sent" ELSE "idle"
                         /\ ask'[r].filter = filter' /\ ask'[r].offset = 0
                         /\ ask'[r].total = 0 /\ DOMAIN ask'[r] = DOMAIN NoAsk
  BY <1>1, <1>2, NoAskIsIdle
<1>4. ListTypes'
  BY <1>1, <1>2, <1>3, NoAskIsIdle DEF ListInv, ListTypes, AskSteps
<1>5. (NewestAsSet /\ NewestComes)'
  BY <1>1, <1>2, <1>3 DEF NewestAsSet, NewestComes, IsShown
<1>6. QED BY <1>4, <1>5 DEF ListInv

(* What is logged or deleted in the table changes no page.                 *)
LEMMA TableChanges ==
  ASSUME ListInv, Logged \/ ResetStats
  PROVE  ListInv'
<1>1. UNCHANGED ListPage
  BY DEF Logged, ResetStats
<1>2. rows' \in [Filters -> Nat]
  BY DEF Logged, ResetStats, ListInv, ListTypes
<1>3. QED
  BY <1>1, <1>2
     DEF ListPage, ListInv, ListTypes, NewestAsSet, NewestComes, IsShown, Asking

(* The effect asks for what is set, when that has changed.                 *)
LEMMA EffectAsks ==
  ASSUME ListInv, Effect, filter' \in Filters, offset' \in Nat,
         rows' = rows, shown' = shown
  PROVE  ListInv'
<1>1. CASE ~ParamsChanged
  <2>1. /\ ask' = ask /\ newest' = newest /\ late' = late
        /\ filter' = filter /\ offset' = offset
    BY <1>1 DEF Effect, ParamsChanged
  <2>2. QED
    BY <2>1 DEF ListInv, ListTypes, NewestAsSet, NewestComes, IsShown, Asking
<1>2. CASE ParamsChanged
  <2> DEFINE new == [NoAsk EXCEPT !.step = "sent", !.filter = filter', !.offset = offset']
  <2>1. PICK r \in Asks : ask' = [ask EXCEPT ![r] = new] /\ newest' = {r}
    BY <1>2 DEF Effect, AskFor
  <2>2. /\ new.step = "sent" /\ new.filter = filter' /\ new.offset = offset'
        /\ new.total = 0 /\ DOMAIN new = DOMAIN NoAsk
    BY NoAskIsIdle
  <2> HIDE DEF new
  <2>3. DOMAIN ask' = Asks /\ ask'[r] = new /\ \A q \in Asks : q # r => ask'[q] = ask[q]
    BY <2>1, OneRecord DEF ListInv, ListTypes
  <2>4. ListTypes'
    BY <2>1, <2>2, <2>3 DEF ListInv, ListTypes, AskSteps
  <2>5. NewestAsSet' /\ NewestComes'
    BY <2>1, <2>2, <2>3 DEF NewestAsSet, NewestComes, Asking
  <2>6. QED BY <2>4, <2>5 DEF ListInv
<1>3. QED BY <1>1, <1>2

LEMMA SetFilterHolds ==
  ASSUME ListInv, SetFilter
  PROVE  ListInv'
<1>1. filter' \in Filters /\ offset' = 0 /\ rows' = rows /\ shown' = shown /\ Effect
  BY DEF SetFilter
<1>2. QED BY <1>1, EffectAsks

LEMMA TurnHolds ==
  ASSUME ListInv, NEW o \in Nat, Turn(o)
  PROVE  ListInv'
<1>1. offset' = o /\ filter' = filter /\ rows' = rows /\ shown' = shown /\ Effect
  BY DEF Turn
<1>2. QED BY <1>1, EffectAsks DEF ListInv, ListTypes

LEMMA PagerHolds ==
  ASSUME ListInv, Prev \/ NextPage
  PROVE  ListInv'
<1>1. offset \in Nat /\ offset + Limit \in Nat
  BY ListBounds DEF ListInv, ListTypes
<1>2. CASE Prev
  <2> DEFINE o == IF offset < Limit THEN 0 ELSE offset - Limit
  <2>1. o \in Nat /\ Turn(o)
    BY <1>1, <1>2, ListBounds DEF Prev
  <2> HIDE DEF o
  <2>2. QED BY <2>1, TurnHolds
<1>3. CASE NextPage
  BY <1>1, <1>3, TurnHolds DEF NextPage
<1>4. QED BY <1>2, <1>3

LEMMA ServeListHolds ==
  ASSUME ListInv, NEW r \in Asks, ServeList(r)
  PROVE  ListInv'
<1>1. /\ ask' = [ask EXCEPT ![r].step = "answered", ![r].total = rows[ask[r].filter]]
      /\ ask[r].step = "sent"
      /\ rows' = rows /\ filter' = filter /\ offset' = offset /\ shown' = shown
      /\ newest' = newest /\ late' = late
  BY DEF ServeList
<1>2. /\ DOMAIN ask' = Asks /\ DOMAIN ask'[r] = DOMAIN ask[r]
      /\ ask'[r].step = "answered" /\ ask'[r].total = rows[ask[r].filter]
      /\ ask'[r].filter = ask[r].filter /\ ask'[r].offset = ask[r].offset
      /\ \A q \in Asks : q # r => ask'[q] = ask[q]
  BY <1>1, TwoFields, AskFields DEF ListInv
<1>3. ListTypes'
  BY <1>1, <1>2 DEF ListInv, ListTypes, AskSteps
<1>4. NewestAsSet'
  BY <1>1, <1>2 DEF ListInv, ListTypes, NewestAsSet, Asking
<1>5. NewestComes => NewestComes'
  BY <1>1, <1>2 DEF ListInv, ListTypes, NewestComes, IsShown, Asking
<1>6. QED BY <1>1, <1>3, <1>4, <1>5 DEF ListInv

LEMMA AskEndHolds ==
  ASSUME ListInv, NEW r \in Asks, ShowRows(r) \/ AskFails(r)
  PROVE  ListInv'
<1>1. /\ ask' = [ask EXCEPT ![r] = NoAsk] /\ Asking(r)
      /\ rows' = rows /\ filter' = filter /\ offset' = offset /\ newest' = newest
  BY DEF ShowRows, AskFails, Asking
<1>2. \/ /\ shown' = shown
         /\ ~late' => r \notin newest /\ ~late
      \/ /\ shown'.filter = ask[r].filter /\ shown'.offset = ask[r].offset
         /\ shown'.total = ask[r].total
         /\ ~late' => r \in newest
  <2>1. CASE ShowRows(r)
    <3>1. /\ shown'.filter = ask[r].filter /\ shown'.offset = ask[r].offset
          /\ shown'.total = ask[r].total
      BY <2>1 DEF ShowRows
    <3>2. ~late' => r \in newest
      BY <2>1, Zenon DEF ShowRows
    <3>3. QED BY <3>1, <3>2, Zenon
  <2>2. CASE AskFails(r)
    <3>1. shown' = shown
      BY <2>2 DEF AskFails
    <3>2. ~late' => r \notin newest /\ ~late
      BY <2>2, Zenon DEF AskFails
    <3>3. QED BY <3>1, <3>2, Zenon
  <2>3. QED BY <2>1, <2>2, Zenon
<1>3. DOMAIN ask' = Asks /\ ask'[r] = NoAsk /\ \A q \in Asks : q # r => ask'[q] = ask[q]
  BY <1>1, OneRecord DEF ListInv, ListTypes
<1>4. ListTypes'
  <2>1. shown'.filter \in Filters /\ shown'.total \in Nat
    BY <1>2 DEF ListInv, ListTypes
  <2>2. \A q \in Asks : /\ ask'[q].step \in AskSteps /\ DOMAIN ask'[q] = DOMAIN NoAsk
                        /\ ask'[q].filter \in Filters /\ ask'[q].total \in Nat
    BY <1>3, NoAskIsIdle DEF ListInv, ListTypes, AskSteps
  <2>3. QED BY <1>1, <1>3, <2>1, <2>2 DEF ListInv, ListTypes
<1>5. NewestAsSet'
  BY <1>1, <1>3, NoAskIsIdle DEF ListInv, ListTypes, NewestAsSet, Asking
<1>6. ASSUME ~late' PROVE NewestComes'
  <2>1. CASE shown' = shown /\ r \notin newest /\ ~late
    BY <1>1, <1>3, <2>1 DEF ListInv, ListTypes, NewestComes, IsShown, Asking
  <2>2. CASE r \in newest /\ shown'.filter = ask[r].filter /\ shown'.offset = ask[r].offset
    BY <1>1, <2>2 DEF ListInv, NewestAsSet, NewestComes, IsShown
  <2>3. QED BY <1>2, <1>6, <2>1, <2>2
<1>7. QED BY <1>4, <1>5, <1>6 DEF ListInv

LEMMA ListStep == ListInv /\ [ListNext]_listVars => ListInv'
<1> SUFFICES ASSUME ListInv, [ListNext]_listVars PROVE ListInv'
  OBVIOUS
<1>1. CASE UNCHANGED listVars
  BY <1>1
     DEF listVars, ListInv, ListTypes, NewestAsSet, NewestComes, IsShown, Asking
<1>2. QED
  BY <1>1, MountHolds, TableChanges, SetFilterHolds, PagerHolds, ServeListHolds,
     AskEndHolds DEF ListNext

(***************************************************************************)
(* fetchData of the lists asks for the filter and the offset of its        *)
(* render; the answers carry neither, and the last one wins.  Any number   *)
(* of changes, overlaps and failures later the rows are those that are     *)
(* set, unless the request for them failed, or an older one came after it. *)
(***************************************************************************)
THEOREM ListShowsWhatIsSet == ListSpec => []ShowsWhatIsSet
<1>1. ListInv => ShowsWhatIsSet
  BY DEF ListInv, ListTypes, NewestComes, Quiet, ShowsWhatIsSet
<1>2. QED BY <1>1, ListInitHolds, ListStep, PTL DEF ListSpec

-----------------------------------------------------------------------------
(***************************************************************************)
(* The publisher's dashboard.  Unless its token changed under way or a     *)
(* request failed, all it awaits is for the publisher of its last render,  *)
(* and each part either shows that publisher or is awaited.                *)
(***************************************************************************)
Who == Publishers \cup {Nobody}
PartNames == {"profile", "numbers"}
Requests == [part : PartNames, of : Who]
PublisherTypes ==
  /\ token \in Who /\ url \in [Windows -> Who] /\ entering \in [Windows -> Who]
  /\ view \in [Windows -> {"login", "dashboard"}] /\ seen \in [Windows -> Who]
  /\ parts \in [Windows -> [profile : Who, numbers : Who]]
  /\ pending \in [Windows -> SUBSET Requests]
  /\ blurred \in [Windows -> BOOLEAN]

Request(part, p) == [part |-> part, of |-> p]
OfSeen(w) ==
  /\ \A r \in pending[w] : r.of = seen[w]
  /\ \A part \in PartNames :
       parts[w][part] = seen[w] \/ Request(part, seen[w]) \in pending[w]
Clear(w) == view[w] = "dashboard" /\ ~blurred[w]
PublisherInv == PublisherTypes /\ \A w \in Windows : Clear(w) => OfSeen(w)

LEMMA AllAsked ==
  ASSUME NEW p \in Who
  PROVE  /\ AskAll(p) \in SUBSET Requests
         /\ \A r \in AskAll(p) : r.of = p
         /\ \A part \in PartNames : Request(part, p) \in AskAll(p)
BY DEF AskAll, Requests, PartNames, Request

LEMMA PublisherInitHolds == PublisherInit => PublisherInv
<1> SUFFICES ASSUME PublisherInit PROVE PublisherInv
  OBVIOUS
<1>1. PublisherTypes
  BY DEF PublisherInit, PublisherTypes, Who, Nothing
<1>2. \A w \in Windows : ~Clear(w)
  BY DEF PublisherInit, Clear
<1>3. QED BY <1>1, <1>2 DEF PublisherInv

(* A tab's step is its own.                                                *)
Elsewhere(w) ==
  \A v \in Windows : v # w => /\ view'[v] = view[v] /\ seen'[v] = seen[v]
                              /\ parts'[v] = parts[v] /\ pending'[v] = pending[v]
                              /\ blurred'[v] = blurred[v]

LEMMA OneWindow ==
  ASSUME PublisherInv, NEW w \in Windows, PublisherTypes', Elsewhere(w),
         Clear(w)' => OfSeen(w)'
  PROVE  PublisherInv'
<1>1. \A v \in Windows : v # w => (Clear(v)' => Clear(v)) /\ (OfSeen(v) => OfSeen(v)')
  BY DEF Elsewhere, Clear, OfSeen
<1>2. \A v \in Windows : v # w => (Clear(v) => OfSeen(v))
  BY DEF PublisherInv
<1>3. \A v \in Windows : Clear(v)' => OfSeen(v)'
  BY <1>1, <1>2
<1>4. QED BY <1>3 DEF PublisherInv

LEMMA LoginShown ==
  ASSUME PublisherInv, NEW w \in Windows, ToLogin(w),
         token' \in Who, url' \in [Windows -> Who], entering' \in [Windows -> Who]
  PROVE  PublisherInv'
<1>1. PublisherTypes'
  BY DEF PublisherInv, PublisherTypes, ToLogin
<1>2. Elsewhere(w) /\ ~Clear(w)'
  BY DEF PublisherInv, PublisherTypes, ToLogin, Elsewhere, Clear
<1>3. QED BY <1>1, <1>2, OneWindow

LEMMA DashboardShown ==
  ASSUME PublisherInv, NEW w \in Windows, NEW p \in Who, OpenAs(w, p),
         token' \in Who, url' \in [Windows -> Who], entering' \in [Windows -> Who]
  PROVE  PublisherInv'
<1>1. Nothing \in [profile : Who, numbers : Who]
  BY DEF Nothing, Who
<1>2. PublisherTypes'
  BY <1>1, AllAsked DEF PublisherInv, PublisherTypes, OpenAs
<1>3. Elsewhere(w)
  BY DEF PublisherInv, PublisherTypes, OpenAs, Elsewhere
<1>4. seen'[w] = p /\ pending'[w] = AskAll(p)
  BY DEF PublisherInv, PublisherTypes, OpenAs
<1>5. OfSeen(w)'
  BY <1>4, AllAsked DEF OfSeen
<1>6. QED BY <1>2, <1>3, <1>5, OneWindow

(***************************************************************************)
(* A render, after an answer that took its request from those that are     *)
(* awaited, and that was shown, or after a press.                          *)
(***************************************************************************)
LEMMA RenderedHolds ==
  ASSUME PublisherInv, NEW w \in Windows, NEW waiting \in SUBSET pending[w],
         NEW failed \in BOOLEAN, Rendered(w, waiting, failed),
         token' = token, url' = url, entering' = entering,
         parts' \in [Windows -> [profile : Who, numbers : Who]],
         \A v \in Windows : v # w => parts'[v] = parts[v],
         \A part \in PartNames :
           OfSeen(w) /\ ~failed => \/ parts'[w][part] = seen[w]
                                   \/ Request(part, seen[w]) \in waiting
  PROVE  PublisherInv'
<1> DEFINE K == Key(w)
<1>1. K \in Who /\ AskAll(K) \in SUBSET Requests
  BY AllAsked DEF Key, PublisherInv, PublisherTypes
<1>2. /\ view' = [view EXCEPT ![w] = IF K = Nobody THEN "login" ELSE @]
      /\ seen' = [seen EXCEPT ![w] = IF K = Nobody THEN @ ELSE K]
      /\ blurred' = [blurred EXCEPT ![w] =
           \/ @ /\ (waiting # {} \/ K = seen[w])
           \/ failed
           \/ K # seen[w] /\ waiting # {}]
  BY DEF Rendered
<1>3. pending' = [pending EXCEPT ![w] =
                    IF K = Nobody THEN {}
                    ELSE waiting \cup IF K = seen[w] THEN {} ELSE AskAll(K)]
  BY DEF Rendered
<1> HIDE DEF K
<1>4. view' \in [Windows -> {"login", "dashboard"}] /\ seen' \in [Windows -> Who]
  BY <1>1, <1>2 DEF PublisherInv, PublisherTypes
<1>5. pending' \in [Windows -> SUBSET Requests]
  BY <1>1, <1>3 DEF PublisherInv, PublisherTypes
<1>6. blurred' \in [Windows -> BOOLEAN]
  BY <1>2 DEF PublisherInv, PublisherTypes
<1>7. PublisherTypes'
  BY <1>4, <1>5, <1>6 DEF PublisherInv, PublisherTypes
<1>8. Elsewhere(w)
  BY <1>2, <1>3 DEF PublisherInv, PublisherTypes, Elsewhere
<1>9. ASSUME Clear(w)' PROVE OfSeen(w)'
  <2>1. K # Nobody /\ view[w] = "dashboard" /\ seen'[w] = K
    BY <1>2, <1>9 DEF Clear, PublisherInv, PublisherTypes
  <2>2. ~(\/ blurred[w] /\ (waiting # {} \/ K = seen[w])
          \/ failed
          \/ K # seen[w] /\ waiting # {})
    BY <1>2, <1>9 DEF Clear, PublisherInv, PublisherTypes
  <2>3. CASE K = seen[w]
    <3>1. Clear(w) /\ OfSeen(w) /\ ~failed
      BY <2>1, <2>2, <2>3 DEF Clear, PublisherInv
    <3>2. pending'[w] = waiting
      BY <1>3, <2>1, <2>3 DEF PublisherInv, PublisherTypes
    <3>3. QED BY <2>1, <2>3, <3>1, <3>2 DEF OfSeen
  <2>4. CASE K # seen[w]
    <3>1. pending'[w] = AskAll(K)
      BY <1>3, <2>1, <2>2, <2>4 DEF PublisherInv, PublisherTypes
    <3>2. QED BY <1>1, <2>1, <3>1, AllAsked DEF OfSeen
  <2>5. QED BY <2>3, <2>4
<1>10. QED BY <1>7, <1>8, <1>9, OneWindow

LEMMA PublisherStep == PublisherInv /\ [PublisherNext]_publisherVars => PublisherInv'
<1> SUFFICES ASSUME PublisherInv, [PublisherNext]_publisherVars PROVE PublisherInv'
  OBVIOUS
<1>1. ASSUME NEW w \in Windows, OpenDashboard(w) PROVE PublisherInv'
  <2>1. PICK p \in Links \cup {Nobody} :
          /\ url' = [url EXCEPT ![w] = p]
          /\ LET key == IF p # Nobody THEN p ELSE token
             IN  IF key = Nobody THEN ToLogin(w) ELSE OpenAs(w, key)
    BY <1>1 DEF OpenDashboard
  <2>2. p \in Who
    BY PublisherBounds DEF Who
  <2>3. url' \in [Windows -> Who] /\ token' \in Who /\ entering' \in [Windows -> Who]
    BY <1>1, <2>1, <2>2 DEF OpenDashboard, PublisherInv, PublisherTypes
  <2>4. ToLogin(w) \/ \E k \in Who : OpenAs(w, k)
    BY <2>1, <2>2 DEF PublisherInv, PublisherTypes
  <2>5. QED BY <2>3, <2>4, LoginShown, DashboardShown
<1>2. ASSUME NEW w \in Windows, EnterAnswered(w) PROVE PublisherInv'
  <2>1. entering' \in [Windows -> Who] /\ entering[w] \in Who
    BY <1>2 DEF EnterAnswered, PublisherInv, PublisherTypes, Who
  <2>2. CASE /\ token' = entering[w] /\ url' = [url EXCEPT ![w] = Nobody]
             /\ OpenAs(w, entering[w])
    <3>1. token' \in Who /\ url' \in [Windows -> Who]
      BY <2>1, <2>2 DEF PublisherInv, PublisherTypes, Who
    <3>2. QED BY <2>1, <2>2, <3>1, DashboardShown
  <2>3. CASE UNCHANGED <<token, url, view, seen, parts, error, pending, blurred>>
    BY <2>1, <2>3 DEF PublisherInv, PublisherTypes, Clear, OfSeen
  <2>4. QED BY <1>2, <2>2, <2>3 DEF EnterAnswered
<1>3. ASSUME NEW w \in Windows, Press(w) PROVE PublisherInv'
  <2>1. /\ Rendered(w, pending[w], FALSE)
        /\ token' = token /\ url' = url /\ entering' = entering /\ parts' = parts
    BY <1>3 DEF Press
  <2>2. \A part \in PartNames :
          OfSeen(w) => \/ parts'[w][part] = seen[w]
                       \/ Request(part, seen[w]) \in pending[w]
    BY <2>1 DEF OfSeen
  <2>3. parts' \in [Windows -> [profile : Who, numbers : Who]]
    BY <2>1 DEF PublisherInv, PublisherTypes
  <2>4. QED BY <2>1, <2>2, <2>3, RenderedHolds
<1>4. ASSUME NEW w \in Windows, ShowPart(w) PROVE PublisherInv'
  <2>1. PICK r \in pending[w] : /\ parts' = [parts EXCEPT ![w][r.part] = r.of]
                                /\ Rendered(w, pending[w] \ {r}, FALSE)
    BY <1>4 DEF ShowPart
  <2>2. token' = token /\ url' = url /\ entering' = entering
    BY <1>4 DEF ShowPart
  <2>3. /\ r.part \in PartNames /\ r.of \in Who /\ r = Request(r.part, r.of)
        /\ DOMAIN parts = Windows /\ parts[w] \in [profile : Who, numbers : Who]
        /\ DOMAIN parts[w] = PartNames
    BY DEF PublisherInv, PublisherTypes, Requests, Request, PartNames
  <2>4. /\ DOMAIN parts' = Windows /\ DOMAIN parts'[w] = PartNames
        /\ parts'[w][r.part] = r.of
        /\ \A k \in PartNames : k # r.part => parts'[w][k] = parts[w][k]
        /\ \A v \in Windows : v # w => parts'[v] = parts[v]
    BY <2>1, <2>3, OneField
  <2>5. parts' \in [Windows -> [profile : Who, numbers : Who]]
    <3>1. CASE r.part = "profile"
      BY <2>1, <2>3, <3>1 DEF PublisherInv, PublisherTypes
    <3>2. CASE r.part = "numbers"
      BY <2>1, <2>3, <3>2 DEF PublisherInv, PublisherTypes
    <3>3. QED BY <2>3, <3>1, <3>2 DEF PartNames
  <2>6. ASSUME OfSeen(w), NEW part \in PartNames
        PROVE  \/ parts'[w][part] = seen[w]
               \/ Request(part, seen[w]) \in pending[w] \ {r}
    <3>1. r.of = seen[w]
      BY <2>6 DEF OfSeen
    <3>2. CASE part = r.part
      BY <2>4, <3>1, <3>2
    <3>3. CASE part # r.part
      <4>1. Request(part, seen[w]) # r
        BY <3>3 DEF Request
      <4>2. QED BY <2>4, <2>6, <3>3, <4>1 DEF OfSeen
    <3>4. QED BY <3>2, <3>3
  <2>7. pending[w] \ {r} \in SUBSET pending[w]
    OBVIOUS
  <2>8. \A part \in PartNames :
          OfSeen(w) /\ ~FALSE => \/ parts'[w][part] = seen[w]
                                 \/ Request(part, seen[w]) \in pending[w] \ {r}
    BY <2>6
  <2>9. \A v \in Windows : v # w => parts'[v] = parts[v]
    BY <2>4
  <2>10. QED BY <2>1, <2>2, <2>5, <2>7, <2>8, <2>9, RenderedHolds
<1>5. ASSUME NEW w \in Windows, PartFails(w) PROVE PublisherInv'
  <2>1. token' = token /\ url' = url /\ entering' = entering /\ parts' = parts
    BY <1>5 DEF PartFails
  <2>2. PICK r \in pending[w] :
          \/ Rendered(w, pending[w] \ {r}, TRUE)
          \/ /\ pending' = [pending EXCEPT ![w] = @ \ {r}]
             /\ blurred' = [blurred EXCEPT ![w] = TRUE]
             /\ UNCHANGED <<view, seen, error>>
    BY <1>5 DEF PartFails
  <2>3. CASE Rendered(w, pending[w] \ {r}, TRUE)
    <3>1. pending[w] \ {r} \in SUBSET pending[w]
      OBVIOUS
    <3>2. parts' \in [Windows -> [profile : Who, numbers : Who]]
      BY <2>1 DEF PublisherInv, PublisherTypes
    <3>3. QED BY <2>1, <2>3, <3>1, <3>2, RenderedHolds
  <2>4. CASE /\ pending' = [pending EXCEPT ![w] = @ \ {r}]
             /\ blurred' = [blurred EXCEPT ![w] = TRUE]
             /\ UNCHANGED <<view, seen, error>>
    <3>1. PublisherTypes'
      BY <2>1, <2>4 DEF PublisherInv, PublisherTypes
    <3>2. Elsewhere(w) /\ ~Clear(w)'
      BY <2>1, <2>4 DEF PublisherInv, PublisherTypes, Elsewhere, Clear
    <3>3. QED BY <3>1, <3>2, OneWindow
  <2>5. QED BY <2>2, <2>3, <2>4
<1>6. ASSUME NEW w \in Windows, LogOut(w) PROVE PublisherInv'
  <2>1. token' \in Who /\ url' \in [Windows -> Who] /\ entering' \in [Windows -> Who]
    BY <1>6 DEF LogOut, PublisherInv, PublisherTypes, Who
  <2>2. QED BY <1>6, <2>1, LoginShown DEF LogOut
<1>7. ASSUME NEW w \in Windows, EnterPassword(w) PROVE PublisherInv'
  BY <1>7 DEF EnterPassword, PublisherInv, PublisherTypes, Who, Clear, OfSeen
<1>8. CASE UNCHANGED publisherVars
  BY <1>8 DEF publisherVars, PublisherInv, PublisherTypes, Clear, OfSeen
<1>9. QED
  BY <1>1, <1>2, <1>3, <1>4, <1>5, <1>6, <1>7, <1>8 DEF PublisherNext

(***************************************************************************)
(* Dashboard.tsx of the publishers asks again when the token of a render   *)
(* is another one, and localStorage is shared: two tabs that log in and    *)
(* out as different publishers still show one each, once all is answered.  *)
(***************************************************************************)
THEOREM EachShowsOne == PublisherSpec => []OnePublisher
<1>1. PublisherInv => OnePublisher
  BY DEF PublisherInv, Clear, OfSeen, PartNames, OnePublisher
<1>2. QED BY <1>1, PublisherInitHolds, PublisherStep, PTL DEF PublisherSpec

-----------------------------------------------------------------------------
(***************************************************************************)
(* The accounts.  An id is given to one creation at a time that inserts    *)
(* it, for the others fail: until it has answered, the id is its alone,    *)
(* with no token before the one it inserts, no credentials and no answer.  *)
(***************************************************************************)
Inserted == {"token", "credentials"}
Ids == 1 .. MaxPublishers
Account == [id : Ids, email : Emails \cup {NoEmail}, token : Nat]
AccountTypes ==
  /\ publishers \in SUBSET Ids /\ tokens \in Seq(Ids)
  /\ credentials \in [Emails -> Ids \cup {0}]
  /\ creation \in [Creators -> [at : Inserted \cup {"idle", "publisher"},
                                email : Emails \cup {NoEmail},
                                id : Ids \cup {0}, token : Nat]]
  /\ created \in SUBSET Account
  /\ \A c \in Creators :
       /\ creation[c].at # "idle" => creation[c].id \in Ids
       /\ creation[c].at = "credentials" => creation[c].email \in Emails

Inserts(c, id) == creation[c].at \in Inserted /\ creation[c].id = id
TokensIn == \A t \in DOMAIN tokens : tokens[t] \in publishers
OwnToken == \A c \in Creators :
  /\ creation[c].at = "token" => TokensOf(creation[c].id) = {}
  /\ creation[c].at = "credentials" => TokensOf(creation[c].id) = {creation[c].token}
OwnId == \A c \in Creators : creation[c].at \in Inserted =>
  /\ creation[c].id \in publishers
  /\ \A d \in Creators : Inserts(d, creation[c].id) => d = c
  /\ \A a \in created : a.id # creation[c].id
  /\ \A e \in Emails : credentials[e] # creation[c].id
Answers == \A a \in created :
  /\ a.id \in publishers /\ TokensOf(a.id) = {a.token}
  /\ a.email # NoEmail => credentials[a.email] = a.id
OneAnswer == \A a, b \in created : a.id = b.id => a = b
Logins == \A e \in Emails : credentials[e] # 0 =>
  credentials[e] \in publishers /\ TokensOf(credentials[e]) # {}
AccountsInv ==
  AccountTypes /\ TokensIn /\ OwnToken /\ OwnId /\ Answers /\ OneAnswer /\ Logins

LEMMA IdleIsIdle ==
  /\ Idle.at = "idle" /\ Idle.id = 0
  /\ Idle \in [at : Inserted \cup {"idle", "publisher"}, email : Emails \cup {NoEmail},
               id : Ids \cup {0}, token : Nat]
BY DEF Idle

(* The ids are bounded, and natural numbers are well ordered: the largest  *)
(* id that is given out is a number.                                       *)
LEMMA Least ==
  ASSUME NEW T, T \subseteq Nat, T # {}
  PROVE  \E x \in T : \A y \in T : x <= y
<1> DEFINE R == {pair \in Nat \X Nat : pair[1] < pair[2]}
<1>1. IsWellFoundedOn(R, Nat)
  BY NatLessThanWellFounded, Zenon DEF OpToRel
<1>2. PICK x \in T : \A y \in T : ~(<<y, x>> \in R)
  <2> HIDE DEF R
  <2> QED BY <1>1, WFMin
<1>3. ASSUME NEW y \in T PROVE x <= y
  <2>1. x \in Nat /\ y \in Nat /\ ~(<<y, x>> \in R)
    BY <1>2
  <2>2. <<y, x>> \in R <=> y < x
    BY <2>1
  <2>3. QED BY <2>1, <2>2
<1>4. QED BY <1>3

LEMMA NextIdIsId ==
  ASSUME publishers \in SUBSET Ids
  PROVE  NextPublisherID \subseteq Nat \ {0}
<1> DEFINE S == publishers \cup {0}
           Gaps == {n \in Nat : \E x \in S : n = MaxPublishers - x}
<1>1. S \in SUBSET (0 .. MaxPublishers) /\ 0 \in S
  BY AccountBounds DEF Ids
<1>2. Gaps \in SUBSET Nat /\ Gaps # {}
  <2>1. MaxPublishers \in Gaps
    BY <1>1, AccountBounds
  <2>2. QED BY <2>1
<1>3. PICK n \in Gaps : \A m \in Gaps : n <= m
  BY <1>2, Least
<1>4. PICK x \in S : n = MaxPublishers - x
  BY <1>3
<1>5. \A y \in S : MaxPublishers - y \in Gaps
  BY <1>1, AccountBounds
<1>6. \A y \in S : x >= y
  BY <1>1, <1>3, <1>4, <1>5, AccountBounds
<1> HIDE DEF S, Gaps
<1>7. Max(S) \in S
  BY <1>6, Zenon DEF Max
<1>8. 1 \in Nat \ {0} /\ Max(S) + 1 \in Nat \ {0}
  <2> DEFINE m == Max(S)
  <2>1. m \in 0 .. MaxPublishers
    BY <1>1, <1>7, Zenon
  <2> HIDE DEF m
  <2>2. m + 1 \in Nat \ {0}
    BY <2>1, AccountBounds
  <2>3. QED BY <2>2 DEF m
<1>9. QED BY <1>8 DEF NextPublisherID, S

(* A token more is a token of the id it is for, and of no other.           *)
LEMMA TokenAdded ==
  ASSUME tokens \in Seq(Ids), NEW id \in Ids, tokens' = Append(tokens, id)
  PROVE  /\ tokens' \in Seq(Ids) /\ Len(tokens') \in Nat
         /\ TokensOf(id)' = TokensOf(id) \cup {Len(tokens')}
         /\ \A o : o # id => TokensOf(o)' = TokensOf(o)
         /\ \A t \in DOMAIN tokens' : \/ tokens'[t] = id
                                 \/ (t \in DOMAIN tokens /\ tokens'[t] = tokens[t])
<1>1. /\ tokens' \in Seq(Ids) /\ Len(tokens') = Len(tokens) + 1 /\ Len(tokens) \in Nat
      /\ DOMAIN tokens = 1 .. Len(tokens) /\ DOMAIN tokens' = 1 .. Len(tokens) + 1
      /\ tokens'[Len(tokens) + 1] = id
      /\ \A t \in 1 .. Len(tokens) : tokens'[t] = tokens[t]
  OBVIOUS
<1>2. QED BY <1>1 DEF TokensOf

LEMMA AccountsInitHolds == AccountsInit => AccountsInv
<1> SUFFICES ASSUME AccountsInit PROVE AccountsInv
  OBVIOUS
<1>1. \A c \in Creators : creation[c] = Idle
  BY DEF AccountsInit
<1>2. AccountTypes
  BY <1>1, IdleIsIdle, EmptySeq DEF AccountsInit, AccountTypes
<1>3. OwnToken /\ OwnId
  BY <1>1, IdleIsIdle DEF OwnToken, OwnId, Inserted
<1>4. TokensIn /\ Answers /\ OneAnswer /\ Logins
  BY DEF AccountsInit, TokensIn, Answers, OneAnswer, Logins
<1>5. QED BY <1>2, <1>3, <1>4 DEF AccountsInv

(* A creation that begins, or is over, takes nothing and leaves nothing.   *)
LEMMA CreationKept ==
  ASSUME AccountsInv, NEW c \in Creators, NEW r, creation' = [creation EXCEPT ![c] = r],
         r \in [at : {"idle", "publisher"}, email : Emails \cup {NoEmail},
                id : Ids \cup {0}, token : Nat],
         r.at = "publisher" => r.id \in Ids,
         UNCHANGED accountTables, created' = created
  PROVE  AccountsInv'
<1>1. /\ publishers' = publishers /\ tokens' = tokens /\ credentials' = credentials
      /\ creation'[c] = r /\ \A d \in Creators : d # c => creation'[d] = creation[d]
  BY DEF accountTables, AccountsInv, AccountTypes
<1>2. AccountTypes'
  BY <1>1 DEF AccountsInv, AccountTypes, Inserted
<1>3. OwnToken'
  BY <1>1 DEF AccountsInv, OwnToken, TokensOf
<1>4. OwnId'
  BY <1>1 DEF AccountsInv, OwnId, Inserts, Inserted
<1>5. (TokensIn /\ Answers /\ OneAnswer /\ Logins)'
  BY <1>1 DEF AccountsInv, TokensIn, Answers, OneAnswer, Logins, TokensOf
<1>6. QED BY <1>2, <1>3, <1>4, <1>5 DEF AccountsInv

LEMMA CreateHolds ==
  ASSUME AccountsInv, NEW c \in Creators, Create(c)
  PROVE  AccountsInv'
<1>1. PICK e \in Emails \cup {NoEmail}, id \in NextPublisherID :
        /\ id <= MaxPublishers
        /\ creation' = [creation EXCEPT ![c] =
             [at |-> "publisher", email |-> e, id |-> id, token |-> 0]]
  BY DEF Create
<1>2. id \in Ids
  BY <1>1, NextIdIsId, AccountBounds DEF AccountsInv, AccountTypes, Ids
<1> DEFINE r == [at |-> "publisher", email |-> e, id |-> id, token |-> 0]
<1>3. /\ r \in [at : {"idle", "publisher"}, email : Emails \cup {NoEmail},
                id : Ids \cup {0}, token : Nat]
      /\ r.at = "publisher" => r.id \in Ids
  BY <1>2
<1>4. UNCHANGED accountTables /\ created' = created /\ creation' = [creation EXCEPT ![c] = r]
  BY <1>1 DEF Create
<1> HIDE DEF r
<1>5. QED BY <1>3, <1>4, CreationKept

LEMMA CreationFailsHolds ==
  ASSUME AccountsInv, NEW c \in Creators, CreationFails(c)
  PROVE  AccountsInv'
<1>1. /\ Idle \in [at : {"idle", "publisher"}, email : Emails \cup {NoEmail},
                   id : Ids \cup {0}, token : Nat]
      /\ Idle.at = "publisher" => Idle.id \in Ids
  BY DEF Idle
<1>2. UNCHANGED accountTables /\ created' = created /\ creation' = [creation EXCEPT ![c] = Idle]
  BY DEF CreationFails
<1>3. QED BY <1>1, <1>2, CreationKept

(* The id that is inserted is known nowhere yet.                           *)
LEMMA InsertPublisherHolds ==
  ASSUME AccountsInv, NEW c \in Creators, InsertPublisher(c)
  PROVE  AccountsInv'
<1> DEFINE id == creation[c].id
<1>1. /\ publishers' = publishers \cup {id} /\ id \notin publishers /\ id \in Ids
      /\ tokens' = tokens /\ credentials' = credentials /\ created' = created
      /\ creation[c].at = "publisher"
      /\ creation' = [creation EXCEPT ![c].at = "token"]
  BY DEF InsertPublisher, IdIsFree, AccountsInv, AccountTypes
<1>2. /\ creation'[c].at = "token" /\ creation'[c].id = id
      /\ \A d \in Creators : d # c => creation'[d] = creation[d]
  BY <1>1 DEF AccountsInv, AccountTypes
<1>3. creation' \in [Creators -> [at : Inserted \cup {"idle", "publisher"},
                                  email : Emails \cup {NoEmail},
                                  id : Ids \cup {0}, token : Nat]]
  BY ZenonT(40), <1>1 DEF AccountsInv, AccountTypes, Inserted
<1>4. AccountTypes'
  BY <1>1, <1>2, <1>3 DEF AccountsInv, AccountTypes
<1>5. TokensOf(id) = {}
  BY <1>1 DEF AccountsInv, TokensIn, TokensOf
<1>6. \A o : TokensOf(o)' = TokensOf(o)
  BY <1>1 DEF TokensOf
<1>7. OwnToken'
  BY <1>2, <1>5, <1>6 DEF AccountsInv, OwnToken
<1>8. OwnId'
  <2>1. /\ \A d \in Creators : ~Inserts(d, id)
        /\ \A a \in created : a.id # id
        /\ \A e \in Emails : credentials[e] # id
    BY <1>1 DEF AccountsInv, OwnId, Inserts, Answers, Logins, Ids
  <2>2. QED BY <1>1, <1>2, <2>1 DEF AccountsInv, OwnId, Inserts, Inserted
<1>9. (TokensIn /\ Answers /\ OneAnswer /\ Logins)'
  BY <1>1, <1>6 DEF AccountsInv, TokensIn, Answers, OneAnswer, Logins
<1>10. QED BY <1>4, <1>7, <1>8, <1>9 DEF AccountsInv

LEMMA CreationAt ==
  ASSUME AccountTypes, NEW c \in Creators
  PROVE  /\ "at" \in DOMAIN creation[c] /\ "token" \in DOMAIN creation[c]
         /\ "id" \in DOMAIN creation[c] /\ "email" \in DOMAIN creation[c]
         /\ DOMAIN creation = Creators
BY DEF AccountTypes

(* The token: the first of its id, which the creation keeps to itself.     *)
LEMMA TokenHolds ==
  ASSUME AccountsInv, NEW c \in Creators, GeneratePublisherToken(c)
  PROVE  AccountsInv'
<1>0. PICK id \in Ids : creation[c].id = id
  BY DEF GeneratePublisherToken, AccountsInv, AccountTypes
<1>1. /\ creation[c].at = "token" /\ id \in publishers
      /\ tokens' = Append(tokens, id)
      /\ publishers' = publishers /\ credentials' = credentials
  BY <1>0 DEF GeneratePublisherToken, AccountsInv, OwnId, Inserted
<1>a. PICK new \in Nat : new = Len(tokens')
  BY <1>1, TokenAdded DEF AccountsInv, AccountTypes
<1>2. /\ tokens' \in Seq(Ids)
      /\ TokensOf(id)' = TokensOf(id) \cup {new}
      /\ \A o : o # id => TokensOf(o)' = TokensOf(o)
      /\ \A t \in DOMAIN tokens' : \/ tokens'[t] = id
                                   \/ (t \in DOMAIN tokens /\ tokens'[t] = tokens[t])
  BY <1>1, <1>a, TokenAdded DEF AccountsInv, AccountTypes
<1>3. TokensOf(id)' = {new}
  BY <1>0, <1>1, <1>2 DEF AccountsInv, OwnToken
<1>4. /\ \A a \in created : a.id # id
      /\ \A e \in Emails : credentials[e] # id
      /\ \A d \in Creators : Inserts(d, id) => d = c
  BY <1>0, <1>1 DEF AccountsInv, OwnId, Inserted
<1>5. (TokensIn /\ Logins)'
  BY <1>1, <1>2, <1>4 DEF AccountsInv, TokensIn, Logins
<1>6. CASE creation[c].email = NoEmail /\ Answer(c, new)
  <2> DEFINE a == [id |-> id, email |-> creation[c].email, token |-> new]
  <2>1. /\ created' = created \cup {a} /\ creation'[c] = Idle
        /\ creation' = [creation EXCEPT ![c] = Idle]
        /\ \A d \in Creators : d # c => creation'[d] = creation[d]
    BY <1>0, <1>6 DEF Answer, AccountsInv, AccountTypes
  <2>2. a \in Account /\ a.id = id /\ a.token = new /\ a.email = NoEmail
    BY <1>1, <1>2, <1>6 DEF Account
  <2> HIDE DEF a
  <2>3. AccountTypes'
    BY <1>1, <1>2, <2>1, <2>2, IdleIsIdle DEF AccountsInv, AccountTypes
  <2>4. (Answers /\ OneAnswer)'
    <3>1. \A b \in created : TokensOf(b.id)' = TokensOf(b.id)
      BY <1>2, <1>4
    <3>2. Answers'
      BY <1>1, <1>3, <2>1, <2>2, <3>1 DEF AccountsInv, Answers
    <3>3. OneAnswer'
      BY <1>4, <2>1, <2>2 DEF AccountsInv, OneAnswer
    <3>4. QED BY <3>2, <3>3
  <2>5. \A d \in Creators : creation'[d].at \in Inserted =>
          d # c /\ creation'[d] = creation[d] /\ creation[d].id # id
    BY <1>4, <2>1, IdleIsIdle DEF Inserts, Inserted
  <2>6. OwnToken'
    BY <1>2, <2>5 DEF AccountsInv, OwnToken, Inserted
  <2>7. OwnId'
    BY <1>1, <2>1, <2>2, <2>5 DEF AccountsInv, OwnId, Inserts
  <2>8. QED BY <1>5, <2>3, <2>4, <2>6, <2>7 DEF AccountsInv
<1>7. CASE /\ creation[c].email # NoEmail /\ created' = created
           /\ creation' = [creation EXCEPT ![c].at = "credentials", ![c].token = new]
  <2>1. /\ creation'[c].at = "credentials" /\ creation'[c].token = new
        /\ creation'[c].id = id /\ creation'[c].email = creation[c].email
        /\ \A d \in Creators : d # c => creation'[d] = creation[d]
    BY <1>0, <1>7, CreationAt, TwoFields DEF AccountsInv
  <2>2. creation' \in [Creators -> [at : Inserted \cup {"idle", "publisher"},
                                    email : Emails \cup {NoEmail},
                                    id : Ids \cup {0}, token : Nat]]
    <3> DEFINE r == [[creation[c] EXCEPT !.at = "credentials"] EXCEPT !.token = new]
               C == [at : Inserted \cup {"idle", "publisher"},
                     email : Emails \cup {NoEmail}, id : Ids \cup {0}, token : Nat]
    <3>1. creation \in [Creators -> C]
      BY DEF AccountsInv, AccountTypes
    <3>2. [creation[c] EXCEPT !.at = "credentials"] \in C
      BY <3>1 DEF Inserted
    <3>3. r \in C
      BY <3>2, <1>a
    <3>4. creation' = [creation EXCEPT ![c] = r]
      BY <1>7, <3>1
    <3> HIDE DEF r, C
    <3>5. creation' \in [Creators -> C]
      BY <3>1, <3>3, <3>4
    <3>6. QED BY <3>5 DEF C
  <2>3. creation[c].email \in Emails
    BY <1>7 DEF AccountsInv, AccountTypes
  <2>4. AccountTypes'
    BY <1>1, <1>2, <1>7, <2>1, <2>2, <2>3 DEF AccountsInv, AccountTypes
  <2>5. (Answers /\ OneAnswer)'
    BY <1>1, <1>2, <1>4, <1>7 DEF AccountsInv, Answers, OneAnswer
  <2>6. \A d \in Creators : creation[d].at \in Inserted /\ d # c => creation[d].id # id
    BY <1>4 DEF Inserts
  <2>7. OwnToken'
    BY <1>2, <1>3, <2>1, <2>6 DEF AccountsInv, OwnToken, Inserted
  <2>8. OwnId'
    <3>1. \A d \in Creators : \/ (d = c /\ creation'[d].id = id)
                              \/ (d # c /\ creation'[d] = creation[d])
      BY <2>1
    <3>2. \A d \in Creators : creation'[d].at \in Inserted =>
            /\ creation[d].at \in Inserted /\ creation'[d].id = creation[d].id
            /\ \A b \in Creators : Inserts(b, creation[d].id)' => Inserts(b, creation[d].id)
      BY <1>0, <1>1, <3>1 DEF Inserts, Inserted
    <3>3. ASSUME NEW d \in Creators, creation'[d].at \in Inserted
          PROVE  /\ creation'[d].id \in publishers'
                 /\ \A b \in Creators : Inserts(b, creation[d].id)' => b = d
                 /\ \A b \in created' : b.id # creation'[d].id
                 /\ \A e \in Emails : credentials'[e] # creation'[d].id
      <4>1. /\ creation[d].at \in Inserted /\ creation'[d].id = creation[d].id
            /\ \A b \in Creators : Inserts(b, creation[d].id)' => Inserts(b, creation[d].id)
        BY <3>2, <3>3
      <4>2. /\ creation[d].id \in publishers
            /\ \A b \in Creators : Inserts(b, creation[d].id) => b = d
            /\ \A b \in created : b.id # creation[d].id
            /\ \A e \in Emails : credentials[e] # creation[d].id
        BY <4>1 DEF AccountsInv, OwnId
      <4>3. \A b \in Creators : Inserts(b, creation[d].id)' => b = d
        BY <4>1, <4>2
      <4>4. created' = created /\ publishers' = publishers /\ credentials' = credentials
        BY <1>1, <1>7
      <4>5. /\ creation'[d].id \in publishers'
            /\ \A b \in created' : b.id # creation'[d].id
            /\ \A e \in Emails : credentials'[e] # creation'[d].id
        BY <4>1, <4>2, <4>4
      <4>6. QED BY <4>3, <4>5
    <3>4. QED BY <3>3 DEF OwnId
  <2>9. QED BY <1>5, <2>4, <2>5, <2>7, <2>8 DEF AccountsInv
<1>8. QED BY <1>a, <1>6, <1>7 DEF GeneratePublisherToken

(* The credentials: the email was nobody's, and the id has no other.       *)
LEMMA CredentialsHolds ==
  ASSUME AccountsInv, NEW c \in Creators, InsertPublisherCredentials(c)
  PROVE  AccountsInv'
<1> DEFINE id == creation[c].id
           e == creation[c].email
           a == [id |-> id, email |-> e, token |-> creation[c].token]
<1>1. /\ creation[c].at = "credentials" /\ id \in Ids /\ id \in publishers /\ e \in Emails
      /\ credentials[e] = 0 /\ TokensOf(id) = {creation[c].token}
  BY DEF InsertPublisherCredentials, AccountsInv, AccountTypes, OwnId, OwnToken, Inserted
<1>2. /\ credentials' = [credentials EXCEPT ![e] = id] /\ publishers' = publishers
      /\ tokens' = tokens /\ created' = created \cup {a}
      /\ creation' = [creation EXCEPT ![c] = Idle]
  BY DEF InsertPublisherCredentials, Answer
<1>3. a \in Account /\ a.id = id /\ a.email = e /\ a.token = creation[c].token
  BY <1>1 DEF Account, AccountsInv, AccountTypes
<1>4. /\ \A b \in created : b.id # id
      /\ \A f \in Emails : credentials[f] # id
      /\ \A d \in Creators : Inserts(d, id) => d = c
  BY <1>1 DEF AccountsInv, OwnId, Inserted
<1> HIDE DEF id, e, a
<1>5. /\ credentials'[e] = id /\ \A f \in Emails : f # e => credentials'[f] = credentials[f]
      /\ credentials' \in [Emails -> Ids \cup {0}]
  BY <1>1, <1>2 DEF AccountsInv, AccountTypes
<1>6. creation'[c] = Idle /\ \A d \in Creators : d # c => creation'[d] = creation[d]
  BY <1>2 DEF AccountsInv, AccountTypes
<1>7. \A o : TokensOf(o)' = TokensOf(o)
  BY <1>2 DEF TokensOf
<1>8. AccountTypes'
  BY <1>2, <1>3, <1>5, <1>6, IdleIsIdle DEF AccountsInv, AccountTypes
<1>9. (TokensIn /\ Logins)'
  BY <1>1, <1>2, <1>5, <1>7 DEF AccountsInv, TokensIn, Logins
<1>10. \A b \in created : b.email # e
  <2>1. e # NoEmail
    BY <1>1, AccountBounds
  <2>2. 0 \notin Ids
    BY DEF Ids
  <2>3. \A b \in created : b.id \in Ids
    BY DEF AccountsInv, AccountTypes, Account
  <2>4. QED BY <1>1, <2>1, <2>2, <2>3 DEF AccountsInv, Answers
<1>11. Answers'
  <2>1. \A b \in created : b.email # NoEmail => b.email \in Emails
    BY DEF AccountsInv, AccountTypes, Account
  <2>2. QED BY <1>1, <1>2, <1>3, <1>5, <1>7, <1>10, <2>1 DEF AccountsInv, Answers
<1>12. OneAnswer'
  BY <1>2, <1>3, <1>4 DEF AccountsInv, OneAnswer
<1>13. \A d \in Creators : creation'[d].at \in Inserted =>
         d # c /\ creation'[d] = creation[d] /\ creation[d].id # id
  BY <1>4, <1>6, IdleIsIdle DEF Inserts, Inserted
<1>14. OwnToken'
  BY <1>7, <1>13 DEF AccountsInv, OwnToken, Inserted
<1>15. OwnId'
  BY <1>2, <1>3, <1>5, <1>13 DEF AccountsInv, OwnId, Inserts
<1>16. QED BY <1>8, <1>9, <1>11, <1>12, <1>14, <1>15 DEF AccountsInv

LEMMA AccountsStep == AccountsInv /\ [AccountsNext]_accountVars => AccountsInv'
<1> SUFFICES ASSUME AccountsInv, [AccountsNext]_accountVars PROVE AccountsInv'
  OBVIOUS
<1>1. CASE UNCHANGED accountVars
  BY <1>1
     DEF accountVars, AccountsInv, AccountTypes, TokensIn, OwnToken, OwnId, Answers,
         OneAnswer, Logins, Inserts, TokensOf
<1>2. QED
  BY <1>1, CreateHolds, InsertPublisherHolds, TokenHolds, CredentialsHolds,
     CreationFailsHolds DEF AccountsNext

(* A login is answered with the account that was answered for.             *)
LEMMA LoginIsAnswer ==
  ASSUME AccountsInv, NEW a \in created, a.email # NoEmail
  PROVE  LoginAnswer(a.email) = {a}
<1>1. /\ a.id # 0 /\ credentials[a.email] = a.id /\ TokensOf(a.id) = {a.token}
      /\ a = [id |-> a.id, email |-> a.email, token |-> a.token]
  <2>1. a \in Account
    BY DEF AccountsInv, AccountTypes
  <2>2. a = [id |-> a.id, email |-> a.email, token |-> a.token] /\ a.id # 0
    BY <2>1 DEF Account, Ids
  <2>3. QED BY <2>2 DEF AccountsInv, Answers
<1>2. LoginAnswer(a.email) = [id : {a.id}, email : {a.email}, token : {a.token}]
  BY <1>1 DEF LoginAnswer
<1>3. [id : {a.id}, email : {a.email}, token : {a.token}]
        = {[id |-> a.id, email |-> a.email, token |-> a.token]}
  <2> DEFINE S == [id : {a.id}, email : {a.email}, token : {a.token}]
             b == [id |-> a.id, email |-> a.email, token |-> a.token]
  <2>1. b \in S
    OBVIOUS
  <2>2. ASSUME NEW r \in S PROVE r = b
    OBVIOUS
  <2>3. QED BY <2>1, <2>2
<1>4. QED BY <1>1, <1>2, <1>3

(***************************************************************************)
(* db.go reads the next id and inserts the publisher, its token and its    *)
(* credentials in four statements without a transaction.  Whatever races   *)
(* and fails, an account that was answered for has its own token and       *)
(* login, and a login never lacks a token.                                 *)
(***************************************************************************)
THEOREM AnsweredAccountsWork == AccountsSpec => []AccountsWork
<1>1. ASSUME AccountsInv PROVE AccountsWork
  <2>1. \A a \in created : /\ TokensOf(a.id) = {a.token}
                           /\ a.email # NoEmail => LoginAnswer(a.email) = {a}
    BY <1>1, LoginIsAnswer DEF AccountsInv, Answers
  <2>2. ASSUME NEW e \in Emails, credentials[e] # 0 PROVE LoginAnswer(e) # {}
    <3>1. PICK t \in TokensOf(credentials[e]) : TRUE
      BY <1>1, <2>2 DEF AccountsInv, Logins
    <3>2. [id |-> credentials[e], email |-> e, token |-> t] \in LoginAnswer(e)
      BY <2>2, <3>1 DEF LoginAnswer
    <3>3. QED BY <3>2
  <2>3. \A a, b \in created : a.id = b.id => a = b
    BY <1>1 DEF AccountsInv, OneAnswer
  <2>4. QED BY <2>1, <2>2, <2>3 DEF AccountsWork
<1>2. QED BY <1>1, AccountsInitHolds, AccountsStep, PTL DEF AccountsSpec
=============================================================================
