------------------------------ MODULE DemoPage ------------------------------
(***************************************************************************)
(* The chat demo and the calls of the web SDK it makes: a conversation,    *)
(* the intent read from it, the dot that says how near an advertiser is,   *)
(* and the ad a click on the dot asks for.  Every await lets the reader    *)
(* act and other answers come in between.                                  *)
(*                                                                         *)
(* A conversation is its length, the role of its last message and what it  *)
(* is about: a topic that a professional could help with, or NONE.  The    *)
(* prebuilt ones all have the same length.                                 *)
(***************************************************************************)
EXTENDS Integers, FiniteSets

CONSTANTS
  Topics,          \* what conversations are about, with "NONE"
  Publishers,      \* pub-1 and pub-2
  LoadedLength,    \* messages of each prebuilt conversation
  PrivateOnly,     \* the exchange takes sealed embeddings only, as the server
                   \* of this repository does
  Slots,           \* bound: calls of processMessages under way
  MaxLength        \* bound: messages of a conversation

ASSUME DemoBounds == /\ "NONE" \in Topics /\ LoadedLength \in 2 .. MaxLength
                     /\ MaxLength \in Nat /\ PrivateOnly \in BOOLEAN
                     /\ Slots # {} /\ "nothing" \notin Topics \cup Publishers

VARIABLES
  publisher,       \* App.publisherId
  chat,            \* useChat.messages
  loading, reply,  \* useChat.loading; what the pending reply is about
  lastProcessed,   \* the ref of DemoInner
  synced,          \* the SDK has embeddings
  calls,           \* calls[s]: a call of processMessages
  intent, dot,     \* useProximity.intent; what the brightness is of, if any
  auction,         \* the request of requestAuction that is under way, and the
                   \* publisher whose SDK sent it
  ad,              \* useProximity.ad: the publisher that asked for it
  processed,       \* history: what the last call is about,
  newest,          \* the slot of that call,
  overtaken        \* and whether an older call had the last word after it

chatting  == <<chat, loading, reply>>
proximity == <<lastProcessed, calls, intent, dot, processed, newest, overtaken>>
ads       == <<auction, ad>>
vars      == <<publisher, chatting, synced, proximity, ads>>

Idle == "idle"
Nothing == "nothing"
Empty == [length |-> 0, role |-> "none", about |-> "NONE"]
NoCalls == [s \in Slots |-> [step |-> Idle, about |-> "NONE"]]
FirstSlot == CHOOSE s \in Slots : TRUE
NoAuction == [step |-> Idle, by |-> Nothing]

FreshPage ==
  /\ chat' = Empty /\ loading' = FALSE /\ reply' = Nothing
  /\ lastProcessed' = 0 /\ synced' = FALSE /\ calls' = NoCalls
  /\ intent' = "NONE" /\ dot' = Nothing
  /\ processed' = "NONE" /\ newest' = FirstSlot /\ overtaken' = FALSE

Init ==
  /\ publisher \in Publishers
  /\ chat = Empty /\ loading = FALSE /\ reply = Nothing
  /\ lastProcessed = 0 /\ synced = FALSE /\ calls = NoCalls
  /\ intent = "NONE" /\ dot = Nothing
  /\ processed = "NONE" /\ newest = FirstSlot /\ overtaken = FALSE
  /\ auction = NoAuction /\ ad = Nothing

-----------------------------------------------------------------------------
(***************************************************************************)
(* The effect of DemoInner, after every change of the number of messages.  *)
(***************************************************************************)
Running(s) == calls[s].step # Idle

IsNewReply ==
  /\ chat'.length # chat.length /\ chat'.length >= 2
  /\ chat'.length > lastProcessed /\ chat'.role = "assistant"

ProcessMessages ==
  \/ /\ IsNewReply
     /\ lastProcessed' = chat'.length /\ processed' = chat'.about
     /\ newest' = (CHOOSE s \in Slots : ~Running(s)) /\ overtaken' = FALSE
     /\ calls' = [calls EXCEPT ![newest'] = [step |-> "extract", about |-> chat'.about]]
     /\ UNCHANGED <<intent, dot>>
  \/ ~IsNewReply /\ UNCHANGED proximity

FreeSlot == \E s \in Slots : ~Running(s)

Append1(from, role, about) ==
  chat' = [length |-> from.length + 1, role |-> role, about |-> about]

(* ChatPanel and sendMessage: no message while a reply is awaited.         *)
InputEnabled == ~loading

Send(about) ==
  /\ InputEnabled /\ chat.length < MaxLength
  /\ Append1(chat, "user", about)
  /\ loading' = TRUE /\ reply' = about
  /\ ProcessMessages
  /\ UNCHANGED <<publisher, synced, ads>>

(* The reply goes to the conversation that is there when it comes; in the  *)
(* end, whether chatReply throws or not, loading is over.                  *)
Finally == loading' = FALSE

Reply ==
  /\ reply # Nothing /\ chat.length < MaxLength /\ FreeSlot
  /\ Append1(chat, "assistant", reply)
  /\ reply' = Nothing /\ loading' = FALSE
  /\ ProcessMessages
  /\ UNCHANGED <<publisher, synced, ads>>

ReplyThrows ==
  /\ reply # Nothing
  /\ reply' = Nothing /\ Finally
  /\ UNCHANGED <<publisher, chat, synced, proximity, ads>>

(* The picker: dismissAd, and the messages of a prebuilt conversation.     *)
Prebuilt == {[length |-> LoadedLength, role |-> "assistant", about |-> t] : t \in Topics}

Load(conversation) ==
  /\ FreeSlot
  /\ chat' = conversation /\ ad' = Nothing
  /\ ProcessMessages
  /\ UNCHANGED <<publisher, loading, reply, synced, auction>>

Pick == \E c \in Prebuilt : Load(c)

Reset ==
  /\ chat' = Empty /\ ad' = Nothing
  /\ ProcessMessages
  /\ UNCHANGED <<publisher, loading, reply, synced, auction>>

-----------------------------------------------------------------------------
(* useProximity: syncEmbeddings, and processMessages from await to await.  *)
Sync ==
  /\ ~synced /\ synced' = TRUE
  /\ UNCHANGED <<publisher, chatting, proximity, ads>>

Become(s, step) == calls' = [calls EXCEPT ![s].step = step]
ProximityOnly == UNCHANGED <<publisher, chatting, synced, lastProcessed,
                             processed, newest, ads>>

(* An older call has the last word on the intent when the newest has read  *)
(* its own, and on the dot when the newest is over.                        *)
Overtakes(s, over) == overtaken' = (overtaken \/ (s # newest /\ over))

KeepDot(s) == Become(s, IF calls[s].about = "NONE" THEN Idle ELSE "embed") /\ UNCHANGED dot   \* mutant
ReadIntent(s) ==
  \/ calls[s].about = "NONE" /\ Become(s, Idle) /\ dot' = Nothing
  \/ calls[s].about # "NONE" /\ Become(s, "embed") /\ UNCHANGED dot

Extracted(s) ==
  /\ calls[s].step = "extract"
  /\ intent' = calls[s].about
  /\ ReadIntent(s)
  /\ Overtakes(s, calls[newest].step # "extract")
  /\ ProximityOnly

(* Without embeddings, or with none near, the dot is dark.                 *)
Embedded(s) ==
  /\ calls[s].step = "embed"
  /\ Become(s, Idle)
  /\ \/ dot' = Nothing /\ UNCHANGED overtaken
     \/ synced /\ dot' = calls[s].about /\ Overtakes(s, ~Running(newest))
  /\ UNCHANGED intent
  /\ ProximityOnly

ProcessThrows(s) ==
  /\ Running(s) /\ Become(s, Idle)
  /\ dot' = Nothing
  /\ UNCHANGED <<intent, overtaken>>
  /\ ProximityOnly

(* The dot is after the last message, if that is the assistant's; without  *)
(* messages it is after the greeting.                                      *)
DotShown == dot # Nothing /\ chat.role # "user"
AuctionLoading == auction.step \in {"asking", "reporting"}
DotEnabled == DotShown /\ ~AuctionLoading

AdsOnly == UNCHANGED <<publisher, chatting, synced, proximity>>

ClickDot ==
  /\ DotEnabled /\ intent # "NONE"
  /\ auction' = [step |-> "asking", by |-> publisher]
  /\ AdsOnly /\ UNCHANGED ad

(* requestAd: a winner, whose impression is reported, null, or an error.   *)
NeverEnds == UNCHANGED auction   \* mutant
EndAuction == auction' = NoAuction

Answered ==
  /\ auction.step = "asking"
  /\ IF PrivateOnly THEN auction' = [auction EXCEPT !.step = "refused"] /\ UNCHANGED ad
     ELSE \/ ad' = auction.by /\ auction' = [auction EXCEPT !.step = "reporting"]
          \/ ad' = Nothing /\ auction' = NoAuction
          \/ auction' = NoAuction /\ UNCHANGED ad
  /\ AdsOnly

(* The impression is counted, refused by the cap, or throws.               *)
Reported ==
  /\ auction.step = "reporting" /\ EndAuction
  /\ AdsOnly /\ UNCHANGED ad

(* reportClick names the publisher of the page; the ad stays.              *)
AdShown == ad # Nothing

ClickAd == AdShown /\ UNCHANGED vars

DismissAd ==
  /\ AdShown /\ ad' = Nothing
  /\ AdsOnly /\ UNCHANGED auction

-----------------------------------------------------------------------------
(* The theme is switched: the key makes React mount another page.  An      *)
(* auction of the old one is still answered, and its impression reported   *)
(* by the SDK of that page, but the state it sets is on no screen.         *)
SamePage == UNCHANGED <<chatting, synced, proximity, ads>>   \* mutant
Remount == FreshPage /\ ad' = Nothing /\ auction' = NoAuction

SwitchTheme ==
  /\ \E p \in Publishers \ {publisher} : publisher' = p
  /\ Remount

Next ==
  \/ Pick \/ \E t \in Topics : Send(t)
  \/ Reply \/ ReplyThrows \/ Reset \/ Sync
  \/ \E s \in Slots : Extracted(s) \/ Embedded(s) \/ ProcessThrows(s)
  \/ ClickDot \/ Answered \/ Reported \/ ClickAd \/ DismissAd
  \/ SwitchTheme

(* Every request the page makes is answered, or fails.                     *)
Spec == /\ Init /\ [][Next]_vars
        /\ WF_vars(Reply \/ ReplyThrows) /\ WF_vars(Answered) /\ WF_vars(Reported)

-----------------------------------------------------------------------------
(***************************************************************************)
(* Calls for several conversations may run at once and end in any order:   *)
(* when the last that was begun is over, a dot that is lit is lit by its   *)
(* conversation, and a click asks for the intent of it, unless an older    *)
(* call answered after it.  That conversation is not always the one on the *)
(* screen: a second prebuilt one is no longer than the first, and so is    *)
(* never processed.                                                        *)
(***************************************************************************)
DotIsOfConversation ==
  dot # Nothing /\ ~Running(newest) /\ ~overtaken
    => dot = intent /\ intent = processed /\ intent # "NONE"

(***************************************************************************)
(* An ad on the screen was asked for by the SDK of the page that shows it, *)
(* which a click on it is reported with: an auction that runs while the    *)
(* theme is switched, any number of times, never shows its ad in a page of *)
(* the other publisher, which would be credited with the click.            *)
(***************************************************************************)
ClickCreditsTheAsker == ad \in {publisher, Nothing}

(***************************************************************************)
(* The input and the dot, disabled while an answer is awaited, are enabled *)
(* again, whatever the answer is.                                          *)
(***************************************************************************)
NeverStuck == []<>~loading /\ []<>~AuctionLoading

(***************************************************************************)
(* "Request ad (server auction)": the request of requestAd, an intent in   *)
(* the clear, is one the exchange takes.                                   *)
(***************************************************************************)
RequestIsTaken == auction.step # "refused"
=============================================================================
