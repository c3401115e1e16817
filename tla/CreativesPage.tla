--------------------------- MODULE CreativesPage ---------------------------
(***************************************************************************)
(* The creatives of the advertiser's dashboard: a list, one editor for all *)
(* its entries, and buttons that send a request, wait, and read the list   *)
(* again.  No button is disabled meanwhile, nor while the page still loads *)
(* the list for the first time.                                            *)
(***************************************************************************)
EXTENDS Integers

CONSTANTS
  Titles,       \* titles; "" is the empty one
  MaxCreative,  \* bound: creatives ever added
  MaxChange,    \* bound: changes of the table
  Ops           \* bound: requests under way

ASSUME CreativesBounds == /\ "" \in Titles /\ Titles # {""} /\ MaxCreative \in Nat
                          /\ MaxChange \in Nat /\ Ops # {}

VARIABLES
  creatives,    \* the table: ids and titles
  nextCreative,
  list,         \* what the page shows
  editing,      \* editingId
  editTitle,    \* the text of the editor
  newTitle,
  op,           \* the requests under way; at: its own change of the table,
                \* readAt: the last change when it read the list
  changes,      \* history: changes of the table
  reached,      \* history: the latest change that a list shown was read
                \* after, or that nobody reads the list for
  missed        \* history: what is shown is older than that

creativesVars ==
  <<creatives, nextCreative, list, editing, editTitle, newTitle, op, changes, reached, missed>>

NoOne == 0
NoOp == [step |-> "idle", kind |-> "add", id |-> NoOne, title |-> "", at |-> 0,
         read |-> {}, readAt |-> 0]
FirstLoad == CHOOSE o \in Ops : TRUE   \* the request of the page's effect

CreativesInit ==
  /\ creatives = {[id |-> 1, title |-> CHOOSE t \in Titles : t # ""]}
  /\ nextCreative = 2 /\ changes = 1
  /\ list = {} /\ editing = NoOne /\ editTitle = "" /\ newTitle = ""
  /\ op = [o \in Ops |-> IF o = FirstLoad
                         THEN [NoOp EXCEPT !.step = "reload", !.at = changes] ELSE NoOp]
  /\ reached = 0 /\ missed = FALSE

Pending(o) == op[o].step # "idle"
TableOnly == UNCHANGED <<creatives, nextCreative, changes>>
ListKept == UNCHANGED <<list, reached, missed>>
EditorOnly == UNCHANGED <<newTitle, op>> /\ ListKept /\ TableOnly

(* Edit takes the entry's title into the editor, which is shown in the     *)
(* place of the entry; Cancel only closes it.                              *)
EditorShown == \E c \in list : c.id = editing

OpenEditor(c) == editing' = c.id /\ editTitle' = c.title

Edit ==
  /\ \E c \in list : editing # c.id /\ OpenEditor(c)
  /\ EditorOnly

TypeTitle ==
  /\ \E t \in Titles : \/ /\ EditorShown /\ editTitle' = t
                          /\ UNCHANGED <<newTitle, editing>>
                       \/ newTitle' = t /\ UNCHANGED <<editing, editTitle>>
  /\ UNCHANGED op /\ ListKept /\ TableOnly

Cancel ==
  /\ EditorShown /\ editing' = NoOne
  /\ UNCHANGED editTitle /\ EditorOnly

(* The buttons Save, Delete and Add.                                       *)
Begin(o, kind, id, title) ==
  /\ ~Pending(o)
  /\ op' = [op EXCEPT ![o] = [NoOp EXCEPT !.step = "send", !.kind = kind, !.id = id,
                                          !.title = title]]
  /\ UNCHANGED <<editing, editTitle, newTitle>> /\ ListKept /\ TableOnly

SaveTitle(o) ==
  /\ EditorShown
  /\ Begin(o, "update", editing, editTitle)

Delete(o) ==
  \E c \in list : editing # c.id /\ Begin(o, "delete", c.id, "")

Add(o) == newTitle # "" /\ Begin(o, "add", NoOne, newTitle)

(***************************************************************************)
(* The server: a creative must be there, and a title not be empty.  That   *)
(* it is the caller's is read first, but what is then written is refused   *)
(* when the row has gone, so both are one step.                            *)
(***************************************************************************)
Others(id) == {c \in creatives : c.id # id}
Accepts(o) ==
  /\ op[o].kind # "delete" => op[o].title # ""
  /\ op[o].kind # "add" => \E c \in creatives : c.id = op[o].id

Changed == changes < MaxChange /\ changes' = changes + 1

Serve(o) ==
  /\ op[o].step = "send" /\ Accepts(o) /\ Changed
  /\ \/ /\ op[o].kind = "add" /\ nextCreative <= MaxCreative
        /\ creatives' = creatives \cup {[id |-> nextCreative, title |-> op[o].title]}
        /\ nextCreative' = nextCreative + 1
     \/ /\ op[o].kind = "update" /\ UNCHANGED nextCreative
        /\ creatives' = Others(op[o].id) \cup {[id |-> op[o].id, title |-> op[o].title]}
     \/ /\ op[o].kind = "delete" /\ UNCHANGED nextCreative
        /\ creatives' = Others(op[o].id)
  /\ op' = [op EXCEPT ![o].step = "served", ![o].at = changes']
  /\ UNCHANGED <<editing, editTitle, newTitle>> /\ ListKept

(* The answer: an update closes whatever editor is open by then, an        *)
(* addition empties the input, and the list is asked for.                  *)
OpAnswered(o) ==
  /\ op[o].step = "served"
  /\ editing' = IF op[o].kind = "update" THEN NoOne ELSE editing
  /\ newTitle' = IF op[o].kind = "add" THEN "" ELSE newTitle
  /\ op' = [op EXCEPT ![o].step = "reload"]
  /\ UNCHANGED editTitle /\ ListKept /\ TableOnly

ReadList(o) ==
  /\ op[o].step = "reload"
  /\ op' = [op EXCEPT ![o].step = "show", ![o].read = creatives, ![o].readAt = changes]
  /\ UNCHANGED <<editing, editTitle, newTitle>> /\ ListKept /\ TableOnly

KeepList(o) == UNCHANGED list   \* mutant
SetCreatives(o) == list' = op[o].read
Reaches(change) == reached' = IF change > reached THEN change ELSE reached

ShowList(o) ==
  /\ op[o].step = "show" /\ SetCreatives(o)
  /\ op' = [op EXCEPT ![o] = NoOp]
  /\ Reaches(op[o].readAt) /\ missed' = (op[o].readAt < reached)
  /\ UNCHANGED <<editing, editTitle, newTitle>> /\ TableOnly

(* A request is refused or lost: the handler throws, and reads no list.    *)
OpThrows(o) ==
  /\ Pending(o)
  /\ op' = [op EXCEPT ![o] = NoOp]
  /\ Reaches(op[o].at) /\ missed' = (missed \/ reached < op[o].at)
  /\ UNCHANGED <<list, editing, editTitle, newTitle>> /\ TableOnly

(* Another tab of the advertiser deletes a creative.                       *)
DeletedElsewhere ==
  /\ \E c \in creatives : creatives' = Others(c.id)
  /\ Changed /\ reached' = changes' /\ missed' = TRUE
  /\ UNCHANGED <<nextCreative, list, editing, editTitle, newTitle, op>>

CreativesNext ==
  \/ Edit \/ TypeTitle \/ Cancel \/ DeletedElsewhere
  \/ \E o \in Ops :
       \/ SaveTitle(o) \/ Delete(o) \/ Add(o) \/ Serve(o)
       \/ OpAnswered(o) \/ ReadList(o) \/ ShowList(o) \/ OpThrows(o)
CreativesSpec == CreativesInit /\ [][CreativesNext]_creativesVars

-----------------------------------------------------------------------------
(***************************************************************************)
(* However requests overlap, also with the first reading of the list: when *)
(* none is under way the page shows the table, unless a list was shown     *)
(* after one that was read later, a request failed that had been served,   *)
(* or another tab deleted and no list was read since.                      *)
(***************************************************************************)
ListIsTable ==
  (\A o \in Ops : ~Pending(o)) /\ ~missed => list = creatives
=============================================================================
