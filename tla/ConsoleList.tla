----------------------------- MODULE ConsoleList -----------------------------
(***************************************************************************)
(* A list of the consoles, by filter and page: the auctions an operator,   *)
(* an advertiser or a publisher looks at, or revenue by day, week or month *)
(* (a list of one page).  A change of the filter or the page asks again,   *)
(* and whichever answer comes last is shown.                               *)
(***************************************************************************)
EXTENDS Integers

CONSTANTS
  Filters,      \* what the list may be restricted to
  Limit,        \* rows of a page
  MaxRows,      \* bound: rows that match a filter
  Asks          \* bound: requests under way

ASSUME ListBounds == Filters # {} /\ Limit \in Nat \ {0} /\ MaxRows \in Nat

VARIABLES
  rows,            \* rows of the table that match each filter
  filter, offset,
  shown,           \* the filter, offset and total of the rows on the screen
  ask,             \* the requests under way
  newest,          \* history: the requests that the last change sent
  late             \* history: since then one of them failed last, or an older
                   \* one was answered last

listVars == <<rows, filter, offset, shown, ask, newest, late>>

NoAsk == [step |-> "idle", filter |-> CHOOSE f \in Filters : TRUE, offset |-> 0, total |-> 0]
Asking(r) == ask[r].step # "idle"
AskFor(r, f, o) == [ask EXCEPT ![r] = [NoAsk EXCEPT !.step = "sent", !.filter = f, !.offset = o]]

ListInit ==
  /\ rows = [f \in Filters |-> 0]
  /\ filter = NoAsk.filter /\ offset = 0
  /\ shown = [filter |-> filter, offset |-> 0, total |-> 0]
  /\ ask = [r \in Asks |-> NoAsk]
  /\ newest = {} /\ late = FALSE

(* The page is opened: one effect asks for the first page, or two do, and  *)
(* what an earlier visit still awaits is ignored.                          *)
Mount ==
  /\ filter' = NoAsk.filter /\ offset' = 0
  /\ shown' = [filter |-> filter', offset |-> 0, total |-> 0]
  /\ \E asking \in (SUBSET Asks) \ {{}} :
       /\ ask' = [r \in Asks |-> IF r \in asking THEN [NoAsk EXCEPT !.step = "sent"] ELSE NoAsk]
       /\ newest' = asking
  /\ late' = FALSE
  /\ UNCHANGED rows

(* An auction is logged, which a filter matches or not; DELETE /stats       *)
(* empties the table, whoever has a page of it open.                       *)
ListPage == <<filter, offset, shown, ask, newest, late>>

Logged ==
  /\ \E f \in Filters : rows[f] < MaxRows /\ rows' = [rows EXCEPT ![f] = @ + 1]
  /\ UNCHANGED ListPage

ResetStats == rows' = [f \in Filters |-> 0] /\ UNCHANGED ListPage

(* The effect of the list depends on filter and offset.                    *)
OffsetOnly == offset' # offset   \* mutant
ParamsChanged == filter' # filter \/ offset' # offset

Effect ==
  \/ /\ ParamsChanged
     /\ \E r \in Asks : /\ ~Asking(r) /\ ask' = AskFor(r, filter', offset')
                        /\ newest' = {r}
     /\ late' = FALSE
  \/ ~ParamsChanged /\ UNCHANGED <<ask, newest, late>>

SetFilter ==
  /\ \E f \in Filters \ {filter} : filter' = f
  /\ offset' = 0
  /\ Effect
  /\ UNCHANGED <<rows, shown>>

(* Pagination: nothing for a single page, and the two buttons.  They go by *)
(* the total that is shown, also when it is another filter's or an old one *)
(* by now: the page they lead to may have no rows and no buttons.          *)
Pages == (shown.total + Limit - 1) \div Limit
PagerShown == Pages > 1

Turn(o) ==
  /\ PagerShown
  /\ offset' = o /\ UNCHANGED filter
  /\ Effect
  /\ UNCHANGED <<rows, shown>>

Prev == offset # 0 /\ Turn(IF offset < Limit THEN 0 ELSE offset - Limit)
NextPage == offset + Limit < shown.total /\ Turn(offset + Limit)

ServeList(r) ==
  /\ ask[r].step = "sent"
  /\ ask' = [ask EXCEPT ![r].step = "answered", ![r].total = rows[ask[r].filter]]
  /\ UNCHANGED <<rows, filter, offset, shown, newest, late>>

ShowRows(r) ==
  /\ ask[r].step = "answered"
  /\ shown' = [filter |-> ask[r].filter, offset |-> ask[r].offset, total |-> ask[r].total]
  /\ ask' = [ask EXCEPT ![r] = NoAsk]
  /\ late' = (r \notin newest)
  /\ UNCHANGED <<rows, filter, offset, newest>>

(* An error is dropped; the old rows stay.                                 *)
AskFails(r) ==
  /\ Asking(r) /\ ask' = [ask EXCEPT ![r] = NoAsk]
  /\ late' = (late \/ r \in newest)
  /\ UNCHANGED <<rows, filter, offset, shown, newest>>

ListNext ==
  \/ Mount \/ Logged \/ ResetStats \/ SetFilter \/ Prev \/ NextPage
  \/ \E r \in Asks : ServeList(r) \/ ShowRows(r) \/ AskFails(r)
ListSpec == ListInit /\ [][ListNext]_listVars

-----------------------------------------------------------------------------
Quiet == \A r \in Asks : ~Asking(r)
IsShown == shown.filter = filter /\ shown.offset = offset

(***************************************************************************)
(* Whatever overlaps, fails or is answered out of order on the way: when   *)
(* nothing is awaited any more, the rows on the screen are those of the    *)
(* filter and the page that are set, unless the request for them failed,   *)
(* or an older one was answered after it.                                  *)
(***************************************************************************)
ShowsWhatIsSet == Quiet /\ ~late => IsShown
=============================================================================
