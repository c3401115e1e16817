--------------------------- MODULE DemoPage_proofs ---------------------------
(***************************************************************************)
(* Proofs about the chat demo, for any topics, any number of publishers    *)
(* and messages, and any number of calls of processMessages under way.     *)
(***************************************************************************)
EXTENDS DemoPage, TLAPS

Roles == {"none", "user", "assistant"}
Conversation == [length : Nat, role : Roles, about : Topics]
Call == [step : {Idle, "extract", "embed"}, about : Topics]

PageTypeOK ==
  /\ chat \in Conversation /\ processed \in Topics
  /\ reply \in Topics \cup {Nothing}
  /\ calls \in [Slots -> Call] /\ intent \in Topics /\ newest \in Slots

(***************************************************************************)
(* The newest call is of the conversation that was processed last, and it  *)
(* sets first the intent and then the dot.  From its extraction on the     *)
(* intent is that conversation's, and when it has ended a dot that is lit  *)
(* is too, unless an older call had the last word: a call without an       *)
(* intent, or one that throws, turns the dot off.                          *)
(***************************************************************************)
NewestIsOfLast == Running(newest) => calls[newest].about = processed
OnlyIntents == \A s \in Slots : calls[s].step = "embed" => calls[s].about # "NONE"
IntentIsOfLast == calls[newest].step = "embed" => intent = processed
DotIsOfLast ==
  ~Running(newest) /\ dot # Nothing
    => dot = intent /\ intent = processed /\ intent # "NONE"
DotInv ==
  /\ PageTypeOK /\ NewestIsOfLast /\ OnlyIntents
  /\ ~overtaken => IntentIsOfLast /\ DotIsOfLast

LEMMA FreshTypes ==
  /\ Empty \in Conversation /\ NoCalls \in [Slots -> Call] /\ "NONE" \in Topics
  /\ FirstSlot \in Slots
  /\ \A s \in Slots : NoCalls[s].step = Idle
BY DemoBounds DEF Empty, Conversation, Roles, NoCalls, Call, Idle, FirstSlot

(* A page that has just been mounted.                                      *)
FreshState ==
  /\ chat = Empty /\ processed = "NONE" /\ reply = Nothing
  /\ calls = NoCalls /\ intent = "NONE" /\ dot = Nothing /\ newest = FirstSlot

LEMMA FreshHolds == FreshState => DotInv
<1> SUFFICES ASSUME FreshState PROVE DotInv
  OBVIOUS
<1>1. PageTypeOK
  BY FreshTypes DEF FreshState, PageTypeOK
<1>2. \A s \in Slots : calls[s].step = Idle
  BY FreshTypes DEF FreshState
<1>3. NewestIsOfLast /\ OnlyIntents /\ IntentIsOfLast
  BY <1>1, <1>2 DEF PageTypeOK, NewestIsOfLast, OnlyIntents, IntentIsOfLast, Running, Idle
<1>4. DotIsOfLast
  BY DEF FreshState, DotIsOfLast
<1>5. QED BY <1>1, <1>3, <1>4 DEF DotInv

(* Nothing that the invariant is about has changed.                        *)
LEMMA NothingProcessed ==
  ASSUME DotInv, UNCHANGED proximity, chat' \in Conversation,
         reply' \in Topics \cup {Nothing}
  PROVE  DotInv'
<1>1. /\ calls' = calls /\ intent' = intent /\ dot' = dot /\ processed' = processed
      /\ newest' = newest /\ overtaken' = overtaken
  BY DEF proximity
<1>2. (PageTypeOK /\ NewestIsOfLast /\ OnlyIntents)'
  BY <1>1 DEF DotInv, PageTypeOK, NewestIsOfLast, OnlyIntents, Running
<1>3. IntentIsOfLast => IntentIsOfLast'
  BY <1>1 DEF IntentIsOfLast
<1>4. DotIsOfLast => DotIsOfLast'
  BY <1>1 DEF DotIsOfLast, Running
<1>5. ~overtaken' => ~overtaken
  BY <1>1, Zenon
<1>6. QED BY <1>2, <1>3, <1>4, <1>5 DEF DotInv

(* What a change of the conversation does to the calls.                    *)
LEMMA Processes ==
  ASSUME DotInv, ProcessMessages, chat' \in Conversation, FreeSlot \/ ~IsNewReply,
         reply' \in Topics \cup {Nothing}
  PROVE  DotInv'
<1>1. CASE ~IsNewReply
  BY <1>1, NothingProcessed DEF ProcessMessages
<1>2. CASE IsNewReply
  <2> DEFINE new == [step |-> "extract", about |-> chat'.about]
  <2>1. newest' \in Slots
    BY <1>2 DEF ProcessMessages, FreeSlot
  <2>2. /\ processed' = chat'.about /\ UNCHANGED <<intent, dot>>
        /\ calls' = [calls EXCEPT ![newest'] = new]
    BY <1>2 DEF ProcessMessages
  <2>3. new \in Call /\ new.step = "extract" /\ new.about = processed'
    BY <2>2 DEF Call, Conversation
  <2> HIDE DEF new
  <2>4. /\ calls'[newest'] = new
        /\ \A x \in Slots : x # newest' => calls'[x] = calls[x]
    BY <2>1, <2>2 DEF DotInv, PageTypeOK
  <2>5. PageTypeOK'
    BY <2>1, <2>2, <2>3 DEF DotInv, PageTypeOK, Conversation
  <2>6. (NewestIsOfLast /\ OnlyIntents)'
    BY <2>3, <2>4 DEF DotInv, NewestIsOfLast, OnlyIntents
  <2>7. (IntentIsOfLast /\ DotIsOfLast)'
    BY <2>3, <2>4 DEF IntentIsOfLast, DotIsOfLast, Running, Idle
  <2>8. QED BY <2>5, <2>6, <2>7 DEF DotInv
<1>3. QED BY <1>1, <1>2

(* A call is at its next step; the others are where they were.             *)
LEMMA Becomes ==
  ASSUME PageTypeOK, NEW s \in Slots, NEW step \in {Idle, "extract", "embed"},
         Become(s, step)
  PROVE  /\ calls' \in [Slots -> Call]
         /\ calls'[s].step = step /\ calls'[s].about = calls[s].about
         /\ \A t \in Slots : t # s => calls'[t] = calls[t]
<1>1. calls' = [calls EXCEPT ![s].step = step] /\ calls \in [Slots -> Call]
  BY DEF Become, PageTypeOK
<1>2. [calls[s] EXCEPT !.step = step] \in Call
  BY <1>1 DEF Call
<1>3. calls'[s] = [calls[s] EXCEPT !.step = step]
  BY <1>1
<1>4. calls[s] \in Call
  BY <1>1
<1>5. QED BY <1>1, <1>2, <1>3, <1>4 DEF Call

LEMMA ExtractedHolds ==
  ASSUME DotInv, NEW s \in Slots, Extracted(s)
  PROVE  DotInv'
<1> DEFINE next == IF calls[s].about = "NONE" THEN Idle ELSE "embed"
<1>1. /\ calls[s].step = "extract" /\ intent' = calls[s].about /\ Become(s, next)
      /\ calls[s].about = "NONE" => dot' = Nothing
      /\ processed' = processed /\ newest' = newest /\ chat' = chat /\ reply' = reply
  BY DEF Extracted, ReadIntent, ProximityOnly, chatting
<1>2. next \in {Idle, "extract", "embed"}
  OBVIOUS
<1>3. /\ calls' \in [Slots -> Call] /\ calls'[s].step = next
      /\ calls'[s].about = calls[s].about
      /\ \A t \in Slots : t # s => calls'[t] = calls[t]
  BY <1>1, <1>2, Becomes DEF DotInv
<1>4. newest \in Slots /\ calls[s].about \in Topics
  BY DEF DotInv, PageTypeOK, Call
<1>5. PageTypeOK'
  BY <1>1, <1>3, <1>4 DEF DotInv, PageTypeOK
<1>6. NewestIsOfLast'
  <2>1. CASE s = newest
    BY <1>1, <1>3, <2>1 DEF DotInv, NewestIsOfLast, Running, Idle
  <2>2. CASE s # newest
    BY <1>1, <1>3, <1>4, <2>2 DEF DotInv, NewestIsOfLast, Running
  <2>3. QED BY <2>1, <2>2
<1>7. OnlyIntents'
  BY <1>1, <1>3 DEF DotInv, OnlyIntents, Idle
<1>8. ~overtaken' => ~overtaken /\ (s = newest \/ calls[newest].step = "extract")
  BY Zenon DEF Extracted, Overtakes
<1>9. ASSUME ~overtaken' PROVE (IntentIsOfLast /\ DotIsOfLast)'
  <2>1. CASE s = newest
    <3>1. intent' = processed'
      BY <1>1, <2>1 DEF DotInv, NewestIsOfLast, Running, Idle
    <3>2. ~Running(newest)' => dot' = Nothing
      BY <1>1, <1>3, <2>1 DEF Running, Idle
    <3>3. QED BY <3>1, <3>2 DEF IntentIsOfLast, DotIsOfLast
  <2>2. CASE s # newest
    <3>1. calls[newest].step = "extract"
      BY <1>8, <1>9, <2>2
    <3>2. calls'[newest'].step = "extract"
      BY <1>1, <1>3, <1>4, <2>2, <3>1
    <3>3. QED BY <3>2 DEF IntentIsOfLast, DotIsOfLast, Running, Idle
  <2>3. QED BY <2>1, <2>2
<1>10. QED BY <1>5, <1>6, <1>7, <1>9 DEF DotInv

(* A call ends without another intent.                                     *)
LEMMA CallEnds ==
  ASSUME DotInv, NEW s \in Slots, Running(s), Become(s, Idle), ProximityOnly, intent' = intent
  PROVE  /\ (PageTypeOK /\ NewestIsOfLast /\ OnlyIntents)'
         /\ IntentIsOfLast => IntentIsOfLast'
         /\ s # newest /\ Running(newest) => Running(newest)'
         /\ dot' = Nothing => DotIsOfLast'
<1>1. processed' = processed /\ newest' = newest /\ chat' = chat /\ reply' = reply
  BY DEF ProximityOnly, chatting
<1>2. /\ calls' \in [Slots -> Call] /\ calls'[s].step = Idle
      /\ \A t \in Slots : t # s => calls'[t] = calls[t]
  BY Becomes DEF DotInv
<1>3. newest \in Slots
  BY DEF DotInv, PageTypeOK
<1>4. PageTypeOK'
  BY <1>1, <1>2 DEF DotInv, PageTypeOK
<1>5. (NewestIsOfLast /\ OnlyIntents)'
  BY <1>1, <1>2, <1>3 DEF DotInv, NewestIsOfLast, OnlyIntents, Running, Idle
<1>6. IntentIsOfLast => IntentIsOfLast'
  BY <1>1, <1>2, <1>3 DEF IntentIsOfLast, Idle
<1>7. s # newest /\ Running(newest) => Running(newest)'
  BY <1>1, <1>2, <1>3 DEF Running
<1>8. dot' = Nothing => DotIsOfLast'
  BY DEF DotIsOfLast
<1>9. QED BY <1>4, <1>5, <1>6, <1>7, <1>8

LEMMA EmbeddedHolds ==
  ASSUME DotInv, NEW s \in Slots, Embedded(s)
  PROVE  DotInv'
<1>1. /\ calls[s].step = "embed" /\ Running(s) /\ Become(s, Idle) /\ ProximityOnly
      /\ intent' = intent
  BY DEF Embedded, Running, Idle
<1>2. /\ (PageTypeOK /\ NewestIsOfLast /\ OnlyIntents)'
      /\ IntentIsOfLast => IntentIsOfLast'
      /\ s # newest /\ Running(newest) => Running(newest)'
      /\ dot' = Nothing => DotIsOfLast'
  BY <1>1, CallEnds
<1>3. CASE dot' = Nothing /\ UNCHANGED overtaken
  <2>1. ~overtaken' => ~overtaken
    BY <1>3, Zenon
  <2>2. QED BY <1>2, <1>3, <2>1 DEF DotInv
<1>4. CASE dot' = calls[s].about /\ Overtakes(s, ~Running(newest))
  <2>1. ~overtaken' => ~overtaken /\ (s = newest \/ Running(newest))
    BY <1>4, Zenon DEF Overtakes
  <2>2. ASSUME ~overtaken' PROVE DotIsOfLast'
    <3>1. CASE s = newest
      <4>1. /\ intent = processed /\ calls[s].about = processed
            /\ calls[s].about # "NONE"
        BY <1>1, <2>1, <2>2, <3>1
           DEF DotInv, IntentIsOfLast, NewestIsOfLast, OnlyIntents
      <4>2. processed' = processed
        BY <1>1 DEF ProximityOnly
      <4>3. QED BY <1>1, <1>4, <4>1, <4>2 DEF DotIsOfLast
    <3>2. CASE s # newest
      BY <1>2, <2>1, <2>2, <3>2 DEF DotIsOfLast
    <3>3. QED BY <3>1, <3>2
  <2>3. QED BY <1>2, <2>1, <2>2 DEF DotInv
<1>5. QED BY <1>3, <1>4 DEF Embedded

LEMMA ProcessThrowsHolds ==
  ASSUME DotInv, NEW s \in Slots, ProcessThrows(s)
  PROVE  DotInv'
<1>1. /\ Running(s) /\ Become(s, Idle) /\ ProximityOnly
      /\ intent' = intent /\ dot' = Nothing
  BY DEF ProcessThrows
<1>2. /\ (PageTypeOK /\ NewestIsOfLast /\ OnlyIntents)'
      /\ IntentIsOfLast => IntentIsOfLast'
      /\ DotIsOfLast'
  BY <1>1, CallEnds
<1>3. ~overtaken' => ~overtaken
  BY Zenon DEF ProcessThrows
<1>4. QED BY <1>2, <1>3 DEF DotInv

LEMMA DotStep == DotInv /\ [Next]_vars => DotInv'
<1> SUFFICES ASSUME DotInv, [Next]_vars PROVE DotInv'
  OBVIOUS
<1>1. CASE Pick
  <2>1. PICK c \in Prebuilt : Load(c)
    BY <1>1 DEF Pick
  <2>2. c \in Conversation
    BY DemoBounds DEF Prebuilt, Conversation, Roles
  <2>3. QED BY <2>1, <2>2, Processes DEF Load, DotInv, PageTypeOK
<1>2. ASSUME NEW t \in Topics, Send(t) PROVE DotInv'
  <2>1. chat' = [length |-> chat.length + 1, role |-> "user", about |-> t]
    BY <1>2 DEF Send, Append1
  <2>2. chat' \in Conversation /\ ~IsNewReply
    BY <2>1 DEF Conversation, Roles, DotInv, PageTypeOK, IsNewReply
  <2>3. QED BY <1>2, <2>2, Processes DEF Send
<1>3. CASE Reply
  <2>1. chat' \in Conversation
    BY <1>3 DEF Reply, Append1, Conversation, Roles, DotInv, PageTypeOK
  <2>2. QED BY <1>3, <2>1, Processes DEF Reply
<1>4. CASE Reset
  <2>1. chat' \in Conversation /\ ~IsNewReply
    BY <1>4, FreshTypes DEF Reset, Empty, IsNewReply
  <2>2. QED BY <1>4, <2>1, Processes DEF Reset, DotInv, PageTypeOK
<1>5. ASSUME NEW s \in Slots, Extracted(s) \/ Embedded(s) \/ ProcessThrows(s)
      PROVE  DotInv'
  BY <1>5, ExtractedHolds, EmbeddedHolds, ProcessThrowsHolds
<1>6. CASE SwitchTheme
  <2>1. FreshState'
    BY <1>6 DEF SwitchTheme, Remount, FreshPage, FreshState
  <2>2. QED BY <2>1, FreshHolds, PTL
<1>7. CASE \/ ReplyThrows \/ Sync \/ ClickDot \/ Answered \/ Reported \/ ClickAd
           \/ DismissAd \/ UNCHANGED vars
  <2>1. UNCHANGED <<chat, proximity>> /\ reply' \in {reply, Nothing}
    BY <1>7 DEF ReplyThrows, Sync, ClickDot, Answered, Reported, ClickAd, DismissAd,
                AdsOnly, chatting, vars
  <2>2. chat' \in Conversation /\ reply' \in Topics \cup {Nothing}
    BY <2>1 DEF DotInv, PageTypeOK
  <2>3. QED BY <2>1, <2>2, NothingProcessed
<1>8. QED
  BY <1>1, <1>2, <1>3, <1>4, <1>5, <1>6, <1>7 DEF Next

(***************************************************************************)
(* useProximity.ts sets the intent and the dot after awaits, in any order  *)
(* of any number of calls.  Once the last call that was begun is over, a   *)
(* dot that is lit is of the conversation it was begun for and so is the   *)
(* intent a click asks for, unless an older call answered after it.        *)
(***************************************************************************)
THEOREM DotFollowsConversation == Spec => []DotIsOfConversation
<1>1. DotInv => DotIsOfConversation
  BY DEF DotInv, DotIsOfLast, DotIsOfConversation
<1>2. Init => DotInv
  BY FreshHolds DEF Init, FreshState
<1>3. QED BY <1>1, <1>2, DotStep, PTL DEF Spec

(***************************************************************************)
(* An auction that is under way was asked for by the page that awaits it.  *)
(* The key that App.tsx gives the page makes it so: a switch leaves the    *)
(* auction behind with the page, whatever is answered later.               *)
(***************************************************************************)
AskerInv == /\ ClickCreditsTheAsker /\ DOMAIN auction = {"step", "by"}
            /\ auction.step = "asking" => auction.by = publisher

(***************************************************************************)
(* No click on an ad is credited to another publisher than the one whose   *)
(* SDK asked for it, however often the theme is switched and whenever the  *)
(* auction is answered.                                                    *)
(***************************************************************************)
THEOREM ClicksCreditAsker == Spec => []ClickCreditsTheAsker
<1>1. Init => AskerInv
  BY DEF Init, AskerInv, ClickCreditsTheAsker, NoAuction, Idle
<1>2. AskerInv /\ [Next]_vars => AskerInv'
  <2> SUFFICES ASSUME AskerInv, [Next]_vars PROVE AskerInv'
    OBVIOUS
  <2>1. CASE SwitchTheme
    BY <2>1 DEF SwitchTheme, Remount, AskerInv, ClickCreditsTheAsker, NoAuction, Idle
  <2>2. CASE ClickDot
    BY <2>2 DEF ClickDot, AdsOnly, AskerInv, ClickCreditsTheAsker
  <2>3. CASE Answered
    <3>1. /\ publisher' = publisher /\ auction.by = publisher
          /\ ad' \in {auction.by, Nothing, ad}
          /\ auction' \in {NoAuction, [auction EXCEPT !.step = "refused"],
                           [auction EXCEPT !.step = "reporting"]}
      BY <2>3 DEF Answered, AdsOnly, AskerInv
    <3>2. auction'.step # "asking" /\ DOMAIN auction' = {"step", "by"}
      BY <3>1 DEF NoAuction, Idle, AskerInv
    <3>3. QED BY <3>1, <3>2 DEF AskerInv, ClickCreditsTheAsker
  <2>4. CASE Pick \/ Reset \/ DismissAd
    BY <2>4 DEF Pick, Load, Reset, DismissAd, AdsOnly, AskerInv, ClickCreditsTheAsker
  <2>5. CASE Reported
    BY <2>5 DEF Reported, EndAuction, AdsOnly, AskerInv, ClickCreditsTheAsker, NoAuction, Idle
  <2>6. CASE \/ \E t \in Topics : Send(t)
             \/ Reply \/ ReplyThrows \/ Sync
             \/ \E s \in Slots : Extracted(s) \/ Embedded(s) \/ ProcessThrows(s)
             \/ ClickAd \/ UNCHANGED vars
    BY <2>6 DEF Send, Reply, ReplyThrows, Sync, Extracted, Embedded, ProcessThrows,
                ProximityOnly, ClickAd, ads, vars, AskerInv, ClickCreditsTheAsker
  <2>7. QED BY <2>1, <2>2, <2>3, <2>4, <2>5, <2>6 DEF Next
<1>3. AskerInv => ClickCreditsTheAsker
  BY DEF AskerInv
<1>4. QED BY <1>1, <1>2, <1>3, PTL DEF Spec
=============================================================================
