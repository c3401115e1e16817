---------------------------- MODULE FrequencyCap ----------------------------
(***************************************************************************)
(* The frequency cap of impressions, for one user and one advertiser: the  *)
(* row of frequency_caps is read, the impression is logged, and the row is *)
(* read again and written, in four statements with no lock around them.    *)
(* SDK clients call reportImpression, several at a time.                   *)
(***************************************************************************)
EXTENDS Integers, FiniteSets

CONSTANTS
  Callers,      \* requests to POST /event/impression under way at a time
  FreqCapMax,   \* impressions per window
  MaxDropped,   \* bound: impressions whose count is not written
  MaxMisread    \* bound: failing reads of a row that is within its window

ASSUME CapBounds == /\ IsFiniteSet(Callers)
                    /\ FreqCapMax \in Nat \ {0}
                    /\ MaxDropped \in Nat /\ MaxMisread \in Nat

VARIABLES
  count,        \* impression_count, 0 if there is no row
  live,         \* the row's window_start is within the window
  step,         \* what each request does next, or what the last call of
                \* reportImpression gave: "true", "false", "throws"
  shown,        \* impressions logged since the last window ended
  carried,      \* impressions logged before, and then still to be counted
  dropped,      \* counts not written since the last window ended
  misread       \* failing reads of the row since the last window ended

capVars == <<count, live, step, shown, carried, dropped, misread>>

Goto(c, next) == step' = [step EXCEPT ![c] = next]
Counting == {"read", "replace", "update"}
Answered == {"none", "true", "false", "throws"}

CapInit ==
  /\ count = 0 /\ live = FALSE
  /\ step = [c \in Callers |-> "none"]
  /\ shown = 0 /\ carried = 0 /\ dropped = 0 /\ misread = 0

(* CheckFrequencyCap: no row, or a window that is over, is under the cap.   *)
(* An error of its read is answered 500.                                    *)
OffByOne == ~live \/ count <= FreqCapMax   \* mutant
UnderCap == ~live \/ count < FreqCapMax

Report(c) ==
  /\ step[c] \in Answered
  /\ \/ UnderCap /\ Goto(c, "log")
     \/ ~UnderCap /\ Goto(c, "false")
     \/ Goto(c, "throws")
  /\ UNCHANGED <<count, live, shown, carried, dropped, misread>>

LogImpression(c) ==
  /\ step[c] = "log"
  /\ \/ Goto(c, "read") /\ shown' = shown + 1
     \/ Goto(c, "throws") /\ UNCHANGED shown
  /\ UNCHANGED <<count, live, carried, dropped, misread>>

(* IncrementFrequencyCap.  A read that fails leaves windowStart zero, which *)
(* is before any cutoff: the row is replaced, although its window goes on.  *)
ReadWindow(c) ==
  /\ step[c] = "read"
  /\ \/ Goto(c, IF live THEN "update" ELSE "replace") /\ UNCHANGED misread
     \/ /\ live /\ misread < MaxMisread
        /\ Goto(c, "replace") /\ misread' = misread + 1
  /\ UNCHANGED <<count, live, shown, carried, dropped>>

ReplaceAdds == count' = count + 1 /\ live' = TRUE   \* mutant
NewWindow == count' = 1 /\ live' = TRUE
Increment == count' = count + 1 /\ UNCHANGED live

WriteCount(c) ==
  /\ \/ step[c] = "replace" /\ NewWindow
     \/ step[c] = "update" /\ Increment
  /\ Goto(c, "true")
  /\ UNCHANGED <<shown, carried, dropped, misread>>

(* An error of either write is dropped, and the answer is 200.             *)
CountFails(c) ==
  /\ step[c] \in {"replace", "update"} /\ dropped < MaxDropped
  /\ dropped' = dropped + 1
  /\ Goto(c, "true")
  /\ UNCHANGED <<count, live, shown, carried, misread>>

(* The window ends.                                                        *)
Uncounted == {c \in Callers : step[c] \in Counting}
WindowEnds ==
  /\ live
  /\ live' = FALSE
  /\ shown' = 0 /\ carried' = Cardinality(Uncounted)
  /\ dropped' = 0 /\ misread' = 0
  /\ UNCHANGED <<count, step>>

Serve(c) ==
  Report(c) \/ LogImpression(c) \/ ReadWindow(c) \/ WriteCount(c) \/ CountFails(c)
CapNext == WindowEnds \/ \E c \in Callers : Serve(c)
CapSpec == CapInit /\ [][CapNext]_capVars

-----------------------------------------------------------------------------
(***************************************************************************)
(* How far the cap can be overshot ("3 impressions per 60 minutes").  With *)
(* one request at a time and no failing statement it is exact.  With n,    *)
(* each that found the window over sets the count to 1 whenever it gets to *)
(* write, and FreqCapMax + n - 2 more get through before the next does: as *)
(* many as are under the cap, and those that passed the check with them.   *)
(* A count that is not written is one more.  A read of the row that fails  *)
(* lets as many more through as a request that found the window over: the  *)
(* count is 1 again, and the window starts again.                          *)
(***************************************************************************)
Overshoot ==
  LET n == Cardinality(Callers)
  IN  shown <= (n + misread) * (FreqCapMax + n - 2) + 1 + dropped

(***************************************************************************)
(* reportImpression returns false only to a user who was shown the         *)
(* advertiser's full number of impressions.                                *)
(***************************************************************************)
NoEarlyRefusal ==
  [][\A c \in Callers :
       step'[c] = "false" /\ step[c] # "false" => shown + carried >= FreqCapMax]_capVars
=============================================================================
