------------------------- MODULE Impressions_proofs -------------------------
(***************************************************************************)
(* Proofs about impressions: when the viewability observer reports one,    *)
(* for every length of a second, every batch of entries and every way the  *)
(* page is scrolled; and how many of them the frequency cap lets through,  *)
(* for any number of requests at a time, any cap and any number of reads   *)
(* and writes of the count that fail.                                      *)
(***************************************************************************)
EXTENDS Viewability, FrequencyCap, SequenceTheorems, FiniteSetTheorems, TLAPS

(***************************************************************************)
(* The inductive invariant.  A report is the last thing that happens: no   *)
(* timeout is pending after it and none is started again.  After the       *)
(* cleanup there is neither timeout nor entry, unless the browser kept one.*)
(***************************************************************************)
Once == reports = 0 \/ (reports = 1 /\ fired /\ due = NoTimeout)
Quiet == cleaned /\ ~late =>
           due = NoTimeout /\ queue = <<>> /\ observer = "disconnected"
IInv == ViewTypeOK /\ Once /\ Quiet

LEMMA NoTimeoutIsDue == NoTimeout \in NoTimeout .. Second /\ NoTimeout \in Int
BY ViewabilityBounds DEF NoTimeout

LEMMA InitHolds == ViewInit => IInv
<1>1. ViewInit => ViewTypeOK
  <2> SUFFICES ASSUME ViewInit PROVE ViewTypeOK
    OBVIOUS
  <2>1. queue \in Seq(Ratios)
    BY EmptySeq DEF ViewInit
  <2>2. inView \in 0 .. Second /\ due \in NoTimeout .. Second
    BY ViewabilityBounds DEF ViewInit, NoTimeout
  <2>3. QED BY <2>1, <2>2 DEF ViewInit, ViewTypeOK, NoTimeout
<1>2. ViewInit => Once /\ Quiet
  BY DEF ViewInit, Once, Quiet
<1>3. QED BY <1>1, <1>2 DEF IInv

LEMMA StepHolds == IInv /\ [ViewNext]_viewVars => IInv'
<1> SUFFICES ASSUME IInv, [ViewNext]_viewVars PROVE IInv'
  OBVIOUS
<1> USE ViewabilityBounds, EmptySeq DEF IInv, ViewTypeOK, Once, Quiet, NoTimeout,
                              page, widget, viewVars
<1>1. CASE Observe
  BY <1>1 DEF Observe
<1>2. ASSUME NEW r \in Ratios, Scroll(r) PROVE IInv'
  <2>1. queue' \in Seq(Ratios)
    BY <1>2 DEF Scroll
  <2>2. QED BY <1>2, <2>1 DEF Scroll
<1>3. CASE Tick
  BY <1>3 DEF Tick
<1>4. CASE Callback
  <2>1. queue' \in Seq(Ratios)
    BY <1>4 DEF Callback
  <2>2. due' \in NoTimeout .. Second /\ (due' # NoTimeout => timer') /\ timer' \in BOOLEAN
    <3>1. CASE fired /\ UNCHANGED <<timer, due>>
      BY <3>1
    <3>2. CASE StartTimer
      BY <3>2 DEF StartTimer
    <3>3. CASE StopTimer
      <4>1. timer' = FALSE /\ due' = NoTimeout
        BY <3>3 DEF StopTimer
      <4>2. QED BY ONLY <4>1, NoTimeoutIsDue
    <3>4. QED BY <1>4, <3>1, <3>2, <3>3 DEF Callback
  <2>3. Once' /\ Quiet'
    BY <1>4 DEF Callback
  <2>4. QED BY <1>4, <2>1, <2>2, <2>3 DEF Callback
<1>5. CASE Timeout
  <2>1. queue' \in Seq(Ratios)
    BY <1>5 DEF Timeout, Finish, Disconnect
  <2>2. reports = 0
    BY <1>5 DEF Timeout
  <2>3. QED BY <1>5, <2>1, <2>2 DEF Timeout, Finish, Disconnect
<1>6. CASE Cleanup
  <2>1. queue' \in Seq(Ratios)
    BY <1>6 DEF Cleanup, Disconnect
  <2>2. due' = NoTimeout /\ late' = (late \/ queue' # <<>>) /\ observer' = "disconnected"
    BY <1>6 DEF Cleanup, ClearTimeout, Disconnect
  <2>3. late' \in BOOLEAN /\ Quiet' /\ Once'
    BY <1>6, <2>2 DEF Cleanup
  <2>4. QED BY <1>6, <2>1, <2>2, <2>3 DEF Cleanup
<1>7. CASE UNCHANGED viewVars
  BY <1>7
<1>8. QED BY <1>1, <1>2, <1>3, <1>4, <1>5, <1>6, <1>7 DEF ViewNext

(* The invariant holds in every state.                                      *)
LEMMA Invariant == ViewSpec => []IInv
BY InitHolds, StepHolds, PTL DEF ViewSpec

(***************************************************************************)
(* An ad is reported at most once, although the variable timer of          *)
(* observeViewability is not reset by the timeout and entries still come.  *)
(***************************************************************************)
THEOREM ReportedOnce == ViewSpec => []ReportedAtMostOnce
<1>1. IInv => ReportedAtMostOnce
  BY DEF IInv, Once, ReportedAtMostOnce
<1>2. QED BY <1>1, Invariant, PTL

(***************************************************************************)
(* After the cleanup function nothing is reported, unless the browser kept *)
(* an entry over the disconnect.                                           *)
(***************************************************************************)
THEOREM SilentOnceCleaned == ViewSpec => SilentAfterCleanup
<1> DEFINE Silent == cleaned /\ reports' # reports => late
<1>1. IInv /\ [ViewNext]_viewVars => [Silent]_viewVars
  <2> SUFFICES ASSUME IInv, ViewNext, cleaned, ~late PROVE reports' = reports
    OBVIOUS
  <2>1. due = NoTimeout
    BY DEF IInv, Quiet
  <2>2. ~Timeout
    BY <2>1 DEF Timeout, NoTimeout
  <2>3. QED BY <2>2 DEF ViewNext, Observe, Scroll, Tick, Callback, Cleanup, page
<1>2. QED BY <1>1, Invariant, PTL DEF ViewSpec, SilentAfterCleanup

(***************************************************************************)
(* With one entry to a callback, an entry that waits is what is in view,   *)
(* and, until the cleanup, a timeout that is pending is that of an ad that *)
(* is half in view since it was set, or is about to be cleared.            *)
(***************************************************************************)
OneEntry == queue = <<>> \/ queue = <<ratio>>
InTime ==
  due # NoTimeout /\ ~cleaned =>
    \/ queue = <<>> /\ ratio = "half" /\ (viewed \/ inView + due >= Second)
    \/ queue # <<>> /\ ratio # "half" /\ (due = 0 => viewed)
Unobserved == observer = "new" => due = NoTimeout /\ queue = <<>>
Stopped == /\ fired => due = NoTimeout
           /\ observer = "disconnected" => fired \/ cleaned
Long == inView = Second => viewed
Timed == Unobserved /\ OneEntry /\ InTime /\ Stopped /\ Long /\ ReportedWasViewed
TimedInv == IInv /\ Timed

LEMMA TimedStep ==
  ASSUME MaxBatch = 1
  PROVE  TimedInv /\ [ViewNext]_viewVars => TimedInv'
<1> SUFFICES ASSUME TimedInv, [ViewNext]_viewVars
             PROVE  Timed'
  BY StepHolds DEF TimedInv
<1>1. /\ due \in Int /\ inView \in Int /\ Second \in Nat \ {0}
      /\ viewed \in BOOLEAN /\ fired \in BOOLEAN /\ reports \in Nat
      /\ inView <= Second /\ inView >= 0
      /\ observer \in {"new", "observing", "disconnected"}
  BY ViewabilityBounds DEF TimedInv, IInv, ViewTypeOK, NoTimeout
<1> USE <1>1 DEF TimedInv, Timed, Unobserved, OneEntry, InTime, Stopped, Long,
                 ReportedWasViewed, NoTimeout, page, widget, viewVars
<1>2. CASE Observe
  BY <1>2 DEF Observe
<1>3. ASSUME NEW r \in Ratios, Scroll(r) PROVE Timed'
  <2>1. Len(<<ratio>>) = 1
    OBVIOUS
  <2>2. queue = <<>>
    BY <1>3, <2>1 DEF Scroll
  <2>3. queue' = <<>> \/ queue' = <<r>>
    BY <1>3, <2>2 DEF Scroll
  <2>4. ratio' = r /\ r # ratio /\ UNCHANGED <<viewed, due, cleaned, reports, late>>
    BY <1>3 DEF Scroll
  <2>5. observer = "new" => queue' = queue /\ observer' = observer
    BY <1>3 DEF Scroll
  <2>6. due # NoTimeout /\ ~cleaned => queue' = <<r>>
    BY <1>3, <2>2 DEF Scroll
  <2>7. QED BY <1>3, <2>2, <2>3, <2>4, <2>5, <2>6 DEF Scroll
<1>4. CASE Tick
  <2>1. due' = IF due > 0 THEN due - 1 ELSE due
    BY <1>4 DEF Tick
  <2>2. /\ queue = <<>> /\ queue' = <<>> /\ due # 0
        /\ UNCHANGED <<ratio, observer, fired, cleaned, reports, late>>
    BY <1>4 DEF Tick
  <2>3. (viewed => viewed') /\ Long'
    BY <1>4 DEF Tick
  <2>4. ratio = "half" => inView' = inView + 1 \/ (inView' = Second /\ inView' = inView)
    BY <1>4 DEF Tick
  <2>5. InTime'
    BY <2>1, <2>2, <2>3, <2>4
  <2>6. Unobserved' /\ OneEntry' /\ Stopped' /\ ReportedWasViewed'
    BY <2>1, <2>2, <2>3
  <2>7. QED BY <2>3, <2>5, <2>6
<1>5. CASE Callback
  <2>1. queue = <<ratio>> /\ Head(queue) = ratio
    BY <1>5 DEF Callback
  <2>2. CASE fired
    BY <1>5, <2>1, <2>2 DEF Callback
  <2>3. CASE ~fired /\ ratio = "half"
    <3>1. due' = IF timer THEN due ELSE Second
      BY <1>5, <2>1, <2>3 DEF Callback, StartTimer
    <3>2. ~cleaned => due = NoTimeout
      BY <2>1, <2>3
    <3>3. ~cleaned => due' = NoTimeout \/ due' = Second
      BY <3>1, <3>2
    <3>4. QED BY <1>5, <2>1, <2>3, <3>3 DEF Callback
  <2>4. CASE ~fired /\ ratio # "half"
    BY <1>5, <2>1, <2>4 DEF Callback, StopTimer
  <2>5. QED BY <2>2, <2>3, <2>4
<1>6. CASE Timeout
  <2>1. cleaned => late
    BY <1>6 DEF Timeout, IInv, Quiet
  <2>2. cleaned \/ viewed
    BY <1>6 DEF Timeout
  <2>3. QED BY <1>6, <2>1, <2>2 DEF Timeout, Finish, Disconnect
<1>7. CASE Cleanup
  BY <1>7 DEF Cleanup, ClearTimeout, Disconnect
<1>8. CASE UNCHANGED viewVars
  BY <1>8
<1>9. QED BY <1>2, <1>3, <1>4, <1>5, <1>6, <1>7, <1>8 DEF ViewNext

(***************************************************************************)
(* An ad is reported viewable only if it was half in view for a second     *)
(* without interruption, when each entry is given to a callback of its own *)
(* and none comes after the cleanup.                                       *)
(***************************************************************************)
THEOREM ReportsAreTrue ==
  ASSUME MaxBatch = 1
  PROVE  ViewSpec => []ReportedWasViewed
<1>1. ViewInit => TimedInv
  BY InitHolds, ViewabilityBounds
     DEF ViewInit, TimedInv, Timed, Unobserved, OneEntry, InTime, Stopped, Long,
         ReportedWasViewed
<1>2. TimedInv /\ [ViewNext]_viewVars => TimedInv'
  BY TimedStep
<1>3. TimedInv => ReportedWasViewed
  BY DEF TimedInv, Timed
<1>4. QED BY <1>1, <1>2, <1>3, PTL DEF ViewSpec

-----------------------------------------------------------------------------

(***************************************************************************)
(* The requests that are at one of the steps S, and how many they are.     *)
(***************************************************************************)
At(S) == {c \in Callers : step[c] \in S}
Size(S) == Cardinality(At(S))

CapTypeOK ==
  /\ count \in Nat /\ live \in BOOLEAN
  /\ step \in [Callers -> Answered \cup Counting \cup {"log"}]
  /\ shown \in Nat /\ carried \in Nat /\ dropped \in Nat /\ misread \in Nat

(* These numbers are finite.                                               *)
LEMMA SizeIsNat ==
  ASSUME NEW S
  PROVE  /\ IsFiniteSet(At(S)) /\ Size(S) \in Nat /\ Size(S)' \in Nat
         /\ Size(S) <= Cardinality(Callers) /\ Cardinality(Callers) \in Nat
<1>1. \A T \in SUBSET Callers : /\ IsFiniteSet(T) /\ Cardinality(T) \in Nat
                                /\ Cardinality(T) <= Cardinality(Callers)
  BY CapBounds, FS_Subset, FS_CardinalityType
<1>2. At(S) \in SUBSET Callers /\ At(S)' \in SUBSET Callers
  BY DEF At
<1>3. Cardinality(Callers) \in Nat
  BY CapBounds, FS_CardinalityType
<1>4. QED BY <1>1, <1>2, <1>3 DEF Size

(* A request that goes from step to step leaves and joins these sets.       *)
LEMMA Moves ==
  ASSUME CapTypeOK, NEW c \in Callers, NEW next, NEW S, Goto(c, next)
  PROVE  Size(S)' = CASE step[c] \in S /\ next \notin S -> Size(S) - 1
                      [] step[c] \notin S /\ next \in S -> Size(S) + 1
                      [] OTHER -> Size(S)
<1>1. CASE step[c] \in S /\ next \notin S
  <2>1. At(S)' = At(S) \ {c} /\ c \in At(S)
    BY <1>1 DEF At, Goto, CapTypeOK
  <2>2. QED BY <1>1, <2>1, SizeIsNat, FS_RemoveElement DEF Size
<1>2. CASE step[c] \notin S /\ next \in S
  <2>1. At(S)' = At(S) \cup {c} /\ c \notin At(S)
    BY <1>2 DEF At, Goto, CapTypeOK
  <2>2. QED BY <1>2, <2>1, SizeIsNat, FS_AddElement DEF Size
<1>3. CASE step[c] \in S <=> next \in S
  <2>1. At(S)' = At(S)
    BY <1>3 DEF At, Goto, CapTypeOK
  <2>2. QED BY <1>3, <2>1 DEF Size
<1>4. QED BY <1>1, <1>2, <1>3

(***************************************************************************)
(* What each step does to the numbers of requests to be counted, before    *)
(* the log, and waiting to start a window.                                 *)
(***************************************************************************)
Owed == Size(Counting)
Logging == Size({"log"})
Restarts == Size({"replace"})
Fresh == Size({"read", "replace"})   \* that would start a window, if it is over
Busy == Size(Counting \cup {"log"})
SizesKept == UNCHANGED <<Owed, Logging, Restarts, Fresh, Busy>>
N == Cardinality(Callers)
Gap == FreqCapMax + N - 2   \* how many more than one a count started anew lets through
M == N + misread   \* how many times a count may be started anew
Left(p) == (M - 1 - p) * Gap   \* what p waiting requests leave of these

LEMMA SizesAreNat ==
  /\ Owed \in Nat /\ Logging \in Nat /\ Restarts \in Nat /\ Fresh \in Nat
  /\ Busy \in Nat /\ Busy <= N /\ Restarts <= N /\ N \in Nat
BY SizeIsNat DEF Owed, Logging, Restarts, Fresh, Busy, N

(* The sizes after a step of one request.                                   *)
One(x, S) == IF x \in S THEN 1 ELSE 0

LEMMA Recount ==
  ASSUME CapTypeOK, NEW c \in Callers, NEW next, Goto(c, next)
  PROVE  /\ Owed' = Owed - One(step[c], Counting) + One(next, Counting)
         /\ Logging' = Logging - One(step[c], {"log"}) + One(next, {"log"})
         /\ Restarts' = Restarts - One(step[c], {"replace"}) + One(next, {"replace"})
         /\ Fresh' = Fresh - One(step[c], {"read", "replace"})
                           + One(next, {"read", "replace"})
         /\ Busy' = Busy - One(step[c], Counting \cup {"log"})
                         + One(next, Counting \cup {"log"})
         /\ {Owed', Logging', Restarts', Fresh', Busy'} \subseteq Nat
<1>1. ASSUME NEW S
      PROVE  /\ Size(S)' = Size(S) - One(step[c], S) + One(next, S)
             /\ Size(S)' \in Nat
  BY Moves, SizeIsNat DEF One
<1>2. QED BY <1>1 DEF Owed, Logging, Restarts, Fresh, Busy

(* When a request is done with counting.                                    *)
LEMMA CountedOne ==
  ASSUME CapTypeOK, NEW c \in Callers, Goto(c, "true"), step[c] \in Counting
  PROVE  /\ Owed' = Owed - 1 /\ Busy' = Busy - 1 /\ Logging' = Logging
         /\ Restarts' = IF step[c] = "replace" THEN Restarts - 1 ELSE Restarts
         /\ Fresh' = IF step[c] = "update" THEN Fresh ELSE Fresh - 1
         /\ Restarts' \in Nat /\ Fresh' \in Nat
<1>1. /\ One(step[c], Counting) = 1 /\ One("true", Counting) = 0
      /\ One(step[c], Counting \cup {"log"}) = 1
      /\ One("true", Counting \cup {"log"}) = 0
      /\ One(step[c], {"log"}) = 0 /\ One("true", {"log"}) = 0
      /\ One("true", {"replace"}) = 0 /\ One("true", {"read", "replace"}) = 0
      /\ One(step[c], {"replace"}) = IF step[c] = "replace" THEN 1 ELSE 0
      /\ One(step[c], {"read", "replace"}) = IF step[c] = "update" THEN 0 ELSE 1
  BY DEF One, Counting
<1>2. /\ Owed' = Owed - One(step[c], Counting) + One("true", Counting)
      /\ Logging' = Logging - One(step[c], {"log"}) + One("true", {"log"})
      /\ Busy' = Busy - One(step[c], Counting \cup {"log"})
                      + One("true", Counting \cup {"log"})
  BY Recount
<1>3. /\ Restarts' = Restarts - One(step[c], {"replace"}) + One("true", {"replace"})
      /\ Fresh' = Fresh - One(step[c], {"read", "replace"})
                        + One("true", {"read", "replace"})
      /\ Restarts' \in Nat /\ Fresh' \in Nat
  BY Recount
<1>4. QED BY <1>1, <1>2, <1>3, SizesAreNat

(* Of the n requests one that is idle is not busy, and one that is, is.     *)
LEMMA OneIsIdle ==
  ASSUME NEW c \in Callers, step[c] \notin Counting \cup {"log"}
  PROVE  Busy + 1 <= N
<1> DEFINE S == At(Counting \cup {"log"})
<1>1. S \cup {c} \subseteq Callers /\ c \notin S
  BY DEF At
<1>2. IsFiniteSet(S) /\ Cardinality(S) \in Nat
  BY SizeIsNat DEF Size
<1>3. Cardinality(S \cup {c}) = Cardinality(S) + 1
  BY <1>1, <1>2, FS_AddElement
<1>4. Cardinality(S \cup {c}) <= N
  BY <1>1, CapBounds, FS_Subset DEF N
<1>5. QED BY <1>3, <1>4 DEF Busy, Size

LEMMA OneIsBusy ==
  ASSUME NEW c \in Callers, step[c] \in Counting \cup {"log"}
  PROVE  Busy >= 1
<1> DEFINE S == At(Counting \cup {"log"})
<1>1. S # {} /\ IsFiniteSet(S)
  BY SizeIsNat DEF At
<1>2. Cardinality(S) # 0
  BY <1>1, FS_EmptySet
<1>3. QED BY <1>2, SizesAreNat DEF Busy, Size

(* A request to be counted is not before the log.                           *)
LEMMA Apart == Fresh + Logging <= Busy
<1> DEFINE S == At({"read", "replace"})
           T == At({"log"})
<1>1. S \cap T = {} /\ S \cup T \in SUBSET At(Counting \cup {"log"})
  BY DEF At, Counting
<1>2. /\ IsFiniteSet(S) /\ IsFiniteSet(T)
      /\ IsFiniteSet(At(Counting \cup {"log"}))
  BY SizeIsNat
<1>3. Cardinality(S \cup T) = Cardinality(S) + Cardinality(T) - 0
  BY <1>1, <1>2, FS_Union, FS_EmptySet
<1>4. Cardinality(S \cup T) <= Cardinality(At(Counting \cup {"log"}))
  BY <1>1, <1>2, FS_Subset
<1>5. Cardinality(S) = Fresh /\ Cardinality(T) = Logging
  BY DEF Fresh, Logging, Size
<1>6. QED BY <1>3, <1>4, <1>5, SizesAreNat DEF Busy, Size

LEMMA OneMore ==
  \A a, b, f, g \in Nat : a <= b + f /\ f <= g + 1 => a <= b + 1 + g
OBVIOUS

LEMMA LeftOver ==
  ASSUME NEW p \in Nat, N >= 1, misread \in Nat
  PROVE  /\ Gap \in Nat /\ Left(p) \in Int /\ M \in Nat
         /\ p <= M - 1 => 0 <= Left(p) /\ Left(p) <= (M - 1) * Gap
         /\ p >= 1 => Left(p - 1) = Left(p) + Gap
         /\ (M - 1) * Gap + Gap = M * Gap
<1>1. Gap \in Nat /\ M - 1 \in Nat /\ M \in Nat
  BY CapBounds, SizesAreNat DEF Gap, M
<1>2. \A a \in Int, b \in Nat : a * b \in Int /\ (a >= 0 => a * b >= 0)
  OBVIOUS
<1>3. \A a, d \in Int, b \in Nat : (a + d) * b = a * b + d * b
  OBVIOUS
<1>4. \A a, d \in Int, b \in Nat : a <= d => a * b <= d * b
  OBVIOUS
<1>5. p \in Int /\ M - 1 - p \in Int
  BY <1>1
<1>6. Left(p) \in Int
  BY <1>1, <1>2, <1>5 DEF Left
<1>7. p <= M - 1 => 0 <= Left(p) /\ Left(p) <= (M - 1) * Gap
  BY <1>1, <1>2, <1>4, <1>5 DEF Left
<1>8. ASSUME p >= 1 PROVE Left(p - 1) = Left(p) + Gap
  <2>1. M - 1 - (p - 1) = (M - 1 - p) + 1
    BY <1>1
  <2>2. ((M - 1 - p) + 1) * Gap = (M - 1 - p) * Gap + 1 * Gap
    BY <1>1, <1>3, <1>5
  <2>3. 1 * Gap = Gap
    BY <1>1
  <2>4. QED BY <2>1, <2>2, <2>3 DEF Left
<1>9. (M - 1) * Gap + Gap = M * Gap
  <2>1. ((M - 1) + 1) * Gap = (M - 1) * Gap + 1 * Gap
    BY <1>1, <1>3
  <2>2. (M - 1) + 1 = M /\ 1 * Gap = Gap
    BY <1>1, SizesAreNat
  <2>3. QED BY <2>1, <2>2
<1>10. QED BY <1>1, <1>6, <1>7, <1>8, <1>9

LEMMA LeftKept ==
  ASSUME misread' = misread, Restarts' = Restarts
  PROVE  Left(Restarts)' = Left(Restarts) /\ Gap' = Gap /\ N' = N /\ M' = M
BY DEF Left, Gap, N, M

(***************************************************************************)
(* The inductive invariant.  What is logged is counted or owed.  In a      *)
(* window, a count and the requests under way are at most Gap + 1, and each *)
(* restart that is over has let Gap through beyond them: there is one for  *)
(* each request that found the window over but the first, and for each     *)
(* read that failed.  Once the window is over, what was logged since is    *)
(* about to start another.                                                 *)
(***************************************************************************)
Accounted == /\ Owed <= shown + carried
             /\ live => count + Owed <= shown + carried
InWindow == live => /\ count + Busy <= Gap + 1 /\ Restarts <= M - 1 /\ N >= 1
                    /\ shown + Logging <= dropped + Left(Restarts) + count + Busy
Between == ~live => shown <= dropped + Fresh /\ misread = 0
CapInv == CapTypeOK /\ Accounted /\ InWindow /\ Between

LEMMA CapInitHolds == CapInit => CapInv
<1> SUFFICES ASSUME CapInit PROVE CapInv
  OBVIOUS
<1>1. CapTypeOK
  BY DEF CapInit, CapTypeOK, Answered
<1>2. ASSUME NEW S, "none" \notin S PROVE Size(S) = 0
  <2>1. At(S) = {}
    BY <1>2 DEF CapInit, At
  <2>2. QED BY <2>1, FS_EmptySet DEF Size
<1>3. Owed = 0 /\ Logging = 0 /\ Restarts = 0 /\ Fresh = 0 /\ Busy = 0
  BY <1>2 DEF Owed, Logging, Restarts, Fresh, Busy, Counting
<1>4. QED
  BY <1>1, <1>3 DEF CapInit, CapInv, Accounted, InWindow, Between

LEMMA CapStepHolds == CapInv /\ [CapNext]_capVars => CapInv'
<1> SUFFICES ASSUME CapInv, [CapNext]_capVars PROVE CapInv'
  OBVIOUS
<1> DEFINE Rest == Accounted' /\ InWindow' /\ Between'
<1>0. CapTypeOK'
  <2>1. \A c \in Callers : Report(c) => CapTypeOK'
    BY DEF CapInv, CapTypeOK, Report, Goto, Answered
  <2>2. \A c \in Callers : LogImpression(c) => CapTypeOK'
    BY DEF CapInv, CapTypeOK, LogImpression, Goto, Answered, Counting
  <2>3. \A c \in Callers : ReadWindow(c) => CapTypeOK'
    BY DEF CapInv, CapTypeOK, ReadWindow, Goto, Counting
  <2>4. \A c \in Callers : WriteCount(c) => CapTypeOK'
    <3>1. ASSUME NEW c \in Callers, WriteCount(c) PROVE CapTypeOK'
      <4>1. Goto(c, "true") /\ UNCHANGED <<shown, carried, dropped, misread>>
        BY <3>1 DEF WriteCount
      <4>2. count' \in Nat /\ live' \in BOOLEAN
        <5>1. NewWindow \/ Increment
          BY <3>1 DEF WriteCount
        <5>2. count \in Nat /\ live \in BOOLEAN
          BY DEF CapInv, CapTypeOK
        <5>3. count' \in Nat
          BY <5>1, <5>2 DEF NewWindow, Increment
        <5>4. live' \in BOOLEAN
          BY <5>1, <5>2 DEF NewWindow, Increment
        <5>5. QED BY <5>3, <5>4
      <4>3. QED BY <4>1, <4>2 DEF CapInv, CapTypeOK, Goto, Answered
    <3>2. QED BY <3>1
  <2>5. \A c \in Callers : CountFails(c) => CapTypeOK'
    BY DEF CapInv, CapTypeOK, CountFails, Goto, Answered
  <2>6. WindowEnds => CapTypeOK'
    <3>1. Cardinality(Uncounted) \in Nat
      BY SizeIsNat DEF Uncounted, At, Size
    <3>2. WindowEnds => /\ carried' \in Nat /\ shown' = 0 /\ dropped' = 0 /\ misread' = 0
                        /\ live' = FALSE /\ count' = count /\ step' = step
      BY <3>1 DEF WindowEnds
    <3>3. live' = FALSE => live' \in BOOLEAN
      OBVIOUS
    <3>4. QED BY <3>2, <3>3 DEF CapInv, CapTypeOK
  <2>7. UNCHANGED capVars => CapTypeOK'
    BY DEF CapInv, CapTypeOK, capVars
  <2>8. QED BY <2>1, <2>2, <2>3, <2>4, <2>5, <2>6, <2>7 DEF CapNext, Serve
<1>1. /\ count \in Nat /\ live \in BOOLEAN /\ shown \in Nat /\ carried \in Nat
      /\ dropped \in Nat /\ misread \in Nat
  BY DEF CapInv, CapTypeOK
<1>2. (\E c \in Callers : TRUE) => N \in Nat \ {0} /\ Gap \in Nat
  BY <1>1, OneIsIdle, OneIsBusy, SizesAreNat, LeftOver
<1>3. Left(Restarts) \in Int /\ M \in Nat
  BY SizesAreNat, CapBounds, <1>1 DEF Left, Gap, M
<1> USE SizesAreNat, <1>1, <1>3 DEF CapInv, Accounted, InWindow, Between
<1>4. ASSUME NEW c \in Callers, Report(c) PROVE Rest
  <2>1. Busy + 1 <= N
    BY <1>4, OneIsIdle DEF Report, Answered, Counting
  <2>2. CASE UnderCap /\ Goto(c, "log")
    <3>1. /\ Logging' = Logging + 1 /\ Busy' = Busy + 1
          /\ UNCHANGED <<Owed, Restarts, Fresh>>
      BY <1>4, <2>2, Recount
         DEF Report, One, Answered, Counting
    <3>2. live => count + 1 <= FreqCapMax
      BY <2>2, CapBounds DEF UnderCap
    <3>3. live => count + Busy' <= Gap + 1
      BY <2>1, <3>1, <3>2, CapBounds DEF Gap
    <3>4. Left(Restarts)' = Left(Restarts) /\ Gap' = Gap /\ M' = M
      BY <1>4, <3>1, LeftKept DEF Report
    <3>5. QED BY <1>4, <3>1, <3>3, <3>4 DEF Report
  <2>3. CASE Goto(c, "false") \/ Goto(c, "throws")
    <3>1. SizesKept
      BY <1>4, <2>3, Recount
         DEF Report, SizesKept, One, Answered, Counting
    <3>2. Left(Restarts)' = Left(Restarts) /\ Gap' = Gap /\ M' = M
      BY <1>4, <3>1, LeftKept DEF Report, SizesKept
    <3>3. QED BY <1>4, <3>1, <3>2 DEF Report, SizesKept
  <2>4. QED BY <1>4, <2>2, <2>3 DEF Report
<1>5. ASSUME NEW c \in Callers, LogImpression(c) PROVE Rest
  <2>1. CASE Goto(c, "read") /\ shown' = shown + 1
    <3>1. /\ Logging' = Logging - 1 /\ Owed' = Owed + 1 /\ Fresh' = Fresh + 1
          /\ UNCHANGED <<Restarts, Busy>>
      BY <1>5, <2>1, Recount
         DEF LogImpression, One, Counting
    <3>2. Left(Restarts)' = Left(Restarts) /\ Gap' = Gap /\ N' = N /\ M' = M
      BY <1>5, <3>1, LeftKept DEF LogImpression
    <3>3. QED BY <1>5, <2>1, <3>1, <3>2 DEF LogImpression
  <2>2. CASE Goto(c, "throws") /\ UNCHANGED shown
    <3>1. /\ Logging' = Logging - 1 /\ Busy' = Busy - 1
          /\ UNCHANGED <<Owed, Restarts, Fresh>>
      BY <1>5, <2>2, Recount
         DEF LogImpression, One, Counting
    <3>2. Left(Restarts)' = Left(Restarts) /\ Gap' = Gap /\ N' = N /\ M' = M
      BY <1>5, <3>1, LeftKept DEF LogImpression
    <3>3. UNCHANGED <<count, live, shown, carried, dropped, misread>>
      BY <1>5, <2>2 DEF LogImpression
    <3>4. Accounted' /\ Between'
      BY <3>1, <3>3
    <3>5. live => shown + (Logging - 1) <= dropped + Left(Restarts) + count + (Busy - 1)
      OBVIOUS
    <3>6. live => count + (Busy - 1) <= Gap + 1
      BY CapBounds DEF Gap
    <3>7. InWindow'
      BY <3>1, <3>2, <3>3, <3>5, <3>6
    <3>8. QED BY <3>4, <3>7
  <2>3. QED BY <1>5, <2>1, <2>2 DEF LogImpression
<1>6. ASSUME NEW c \in Callers, ReadWindow(c) PROVE Rest
  <2>1. N >= 1 /\ Gap \in Nat /\ Gap' = Gap /\ N' = N /\ M = N + misread
    BY <1>2, <1>6 DEF Gap, N, M
  <2>2. CASE Goto(c, IF live THEN "update" ELSE "replace") /\ UNCHANGED misread
    <3>1. /\ live => Fresh' = Fresh - 1 /\ UNCHANGED Restarts
          /\ ~live => UNCHANGED Fresh
          /\ UNCHANGED <<Owed, Logging, Busy>>
      BY <1>6, <2>2, Recount DEF ReadWindow, One, Counting
    <3>2. live => Left(Restarts)' = Left(Restarts) /\ M' = M
      BY <2>2, <3>1, LeftKept
    <3>3. QED BY <1>6, <2>1, <3>1, <3>2 DEF ReadWindow
  <2>3. CASE live /\ Goto(c, "replace") /\ misread' = misread + 1
    <3>1. Restarts' = Restarts + 1 /\ UNCHANGED <<Owed, Logging, Busy>>
      BY <1>6, <2>3, Recount DEF ReadWindow, One, Counting
    <3>2. M' = M + 1 /\ M' - 1 - Restarts' = M - 1 - Restarts
      BY <2>1, <2>3, <3>1 DEF M
    <3>3. Left(Restarts)' = Left(Restarts)
      BY <2>1, <3>2 DEF Left
    <3>4. QED BY <1>6, <2>1, <2>3, <3>1, <3>2, <3>3 DEF ReadWindow
  <2>4. QED BY <1>6, <2>2, <2>3 DEF ReadWindow
<1>7. ASSUME NEW c \in Callers, WriteCount(c) PROVE Rest
  <2>1. /\ Busy >= 1 /\ N >= 1 /\ Gap \in Nat /\ Gap' = Gap /\ N' = N
        /\ M' = M /\ M >= N /\ misread' = misread
    BY <1>2, <1>7, OneIsBusy DEF WriteCount, Counting, Gap, N, M
  <2>2. CASE step[c] = "replace" /\ NewWindow
    <3>1. /\ Owed' = Owed - 1 /\ Restarts' = Restarts - 1 /\ Fresh' = Fresh - 1
          /\ Busy' = Busy - 1 /\ UNCHANGED Logging /\ Restarts' \in Nat
      BY <1>7, <2>2, CountedOne DEF WriteCount, Counting
    <3>2. Left(Restarts)' = Left(Restarts') /\ Left(Restarts') = Left(Restarts) + Gap
      BY <2>1, <3>1, LeftOver DEF Left
    <3>3. 0 <= Left(Restarts') /\ Left(Restarts') \in Int /\ Restarts' <= M - 1
      BY <2>1, <3>1, LeftOver
    <3>4. CASE live
      <4>1. shown + Logging <= dropped + Left(Restarts') + 1 + Busy'
        BY <2>1, <3>1, <3>2, <3>4
      <4>2. QED
        BY <1>7, <2>1, <2>2, <3>1, <3>2, <3>4, <4>1 DEF WriteCount, NewWindow
    <3>5. CASE ~live
      <4>1. shown + Logging <= dropped + Left(Restarts') + 1 + Busy'
        BY <2>1, <3>1, <3>3, <3>5, Apart
      <4>2. 1 + Busy' <= Gap + 1
        BY <2>1, <3>1, CapBounds DEF Gap
      <4>3. QED
        BY <1>7, <2>1, <2>2, <3>1, <3>2, <3>3, <3>5, <4>1, <4>2 DEF WriteCount, NewWindow
    <3>6. QED BY <3>4, <3>5
  <2>3. CASE step[c] = "update" /\ Increment
    <3>1. /\ Owed' = Owed - 1 /\ Busy' = Busy - 1
          /\ UNCHANGED <<Logging, Restarts, Fresh>>
      BY <1>7, <2>3, CountedOne DEF WriteCount, Counting
    <3>2. Left(Restarts)' = Left(Restarts)
      BY <2>1, <3>1, LeftKept
    <3>3. QED BY <1>7, <2>1, <2>3, <3>1, <3>2 DEF WriteCount, Increment
  <2>4. QED BY <1>7, <2>2, <2>3 DEF WriteCount
<1>8. ASSUME NEW c \in Callers, CountFails(c) PROVE Rest
  <2>1. /\ Owed' = Owed - 1 /\ Busy' = Busy - 1 /\ UNCHANGED Logging
        /\ Fresh' \in {Fresh, Fresh - 1}
        /\ Restarts' = Restarts \/ Restarts' = Restarts - 1
    BY <1>8, CountedOne DEF CountFails, Counting
  <2>2. /\ Gap' = Gap /\ N' = N /\ M' = M /\ N >= 1 /\ Gap \in Nat
        /\ Restarts' \in Nat
    BY <1>2, <1>8, SizeIsNat DEF CountFails, Gap, N, M, Restarts
  <2>3. Left(Restarts)' \in Int /\ Left(Restarts)' >= Left(Restarts)
    <3>1. Left(Restarts)' = Left(Restarts')
      BY <2>2 DEF Left
    <3>2. CASE Restarts' = Restarts
      BY <3>1, <3>2
    <3>3. CASE Restarts' = Restarts - 1
      <4>1. Left(Restarts') = Left(Restarts) + Gap
        BY <2>2, <3>3, LeftOver
      <4>2. QED BY <2>2, <3>1, <4>1
    <3>4. QED BY <2>1, <3>2, <3>3
  <2>4. /\ dropped' = dropped + 1
        /\ UNCHANGED <<count, live, shown, carried, misread>>
    BY <1>8 DEF CountFails
  <2>5. Accounted' /\ Between'
    <3>1. Fresh <= Fresh' + 1 /\ Fresh' \in Nat
      BY <1>8, CountedOne DEF CountFails, Counting
    <3>2. ASSUME ~live PROVE shown <= dropped + 1 + Fresh'
      <4>1. shown <= dropped + Fresh
        BY <3>2
      <4>2. Fresh \in Nat /\ Fresh' \in Nat /\ Fresh <= Fresh' + 1
        BY <3>1
      <4>3. shown \in Nat /\ dropped \in Nat
        OBVIOUS
      <4>4. QED BY ONLY OneMore, <4>1, <4>2, <4>3
    <3>3. Between'
      BY <2>4, <3>2
    <3>4. Accounted'
      BY <2>1, <2>4
    <3>5. QED BY <3>3, <3>4
  <2>6. InWindow'
    BY <2>1, <2>2, <2>3, <2>4
  <2>7. QED BY <2>5, <2>6
<1>9. ASSUME WindowEnds PROVE Rest
  <2>1. SizesKept
    BY <1>9 DEF WindowEnds, SizesKept, Owed, Logging, Restarts, Fresh, Busy, Size, At
  <2>2. carried' = Owed
    BY <1>9 DEF WindowEnds, Owed, Size, At, Uncounted
  <2>3. /\ Owed' <= shown' + carried' /\ ~live' /\ misread' = 0
        /\ shown' <= dropped' + Fresh'
    BY <1>9, <2>1, <2>2 DEF WindowEnds, SizesKept
  <2>4. QED BY ONLY <2>3 DEF Accounted, InWindow, Between
<1>10. ASSUME UNCHANGED capVars PROVE Rest
  <2>1. SizesKept
    BY <1>10 DEF capVars, SizesKept, Owed, Logging, Restarts, Fresh, Busy, Size, At
  <2>2. Left(Restarts)' = Left(Restarts) /\ Gap' = Gap /\ N' = N /\ M' = M
    BY <1>10, <2>1, LeftKept DEF capVars, SizesKept
  <2>3. UNCHANGED <<count, live, shown, carried, dropped, misread>>
    BY <1>10 DEF capVars
  <2>4. Accounted' /\ Between'
    BY <2>1, <2>3 DEF SizesKept
  <2>5. InWindow'
    BY ONLY InWindow, <2>1, <2>2, <2>3, Zenon DEF SizesKept, InWindow
  <2>6. QED BY <2>4, <2>5
<1>11. QED
  BY <1>0, <1>4, <1>5, <1>6, <1>7, <1>8, <1>9, <1>10 DEF CapNext, Serve

(***************************************************************************)
(* The cap is overshot by no more than Overshoot says, for any number of   *)
(* requests at a time: CheckFrequencyCap, LogEvent and                     *)
(* IncrementFrequencyCap may interleave in any way, and windows end.       *)
(***************************************************************************)
THEOREM CapIsNearlyKept == CapSpec => []Overshoot
<1>1. CapInv => Overshoot
  <2> SUFFICES ASSUME CapInv
               PROVE  shown <= M * Gap + 1 + dropped
    BY DEF Overshoot, N, M, Gap
  <2>1. /\ shown \in Nat /\ dropped \in Nat /\ count \in Nat /\ live \in BOOLEAN
        /\ Fresh <= Busy /\ N \in Nat /\ Fresh <= N /\ misread \in Nat
        /\ M \in Nat /\ M = N + misread
    BY SizesAreNat, Apart DEF CapInv, CapTypeOK, M
  <2>2. CASE live
    <3>1. N >= 1 /\ Restarts <= M - 1
      BY <2>2, SizesAreNat DEF CapInv, InWindow
    <3>2. Left(Restarts) <= (M - 1) * Gap /\ (M - 1) * Gap + Gap = M * Gap
      BY <2>1, <3>1, SizesAreNat, LeftOver
    <3>3. Left(Restarts) \in Int /\ Gap \in Int /\ (M - 1) * Gap \in Int
      BY <2>1, <3>1, SizesAreNat, LeftOver
    <3>4. /\ shown + Logging <= dropped + Left(Restarts) + count + Busy
          /\ count + Busy <= Gap + 1
      BY <2>2 DEF CapInv, InWindow
    <3>5. QED BY <2>1, <3>2, <3>3, <3>4, SizesAreNat
  <2>3. CASE ~live
    <3>1. shown <= dropped + N /\ M = N
      BY <2>1, <2>3, SizesAreNat DEF CapInv, Between
    <3>2. N <= N * Gap + 1 /\ N * Gap \in Int
      <4>1. CASE N <= 1
        <5>1. N = 0 \/ N = 1
          BY <2>1, <4>1
        <5>2. Gap \in Int /\ (N = 1 => Gap >= 0)
          BY <2>1, CapBounds DEF Gap
        <5>3. 0 * Gap = 0 /\ 1 * Gap = Gap
          BY <5>2
        <5>4. QED BY <5>1, <5>2, <5>3
      <4>2. CASE N >= 2
        <5>1. Gap \in Nat /\ Gap >= 1
          BY <2>1, <4>2, CapBounds DEF Gap
        <5>2. \A a, b \in Nat : b >= 1 => a * b >= a
          OBVIOUS
        <5>3. QED BY <2>1, <5>1, <5>2
      <4>3. QED BY <2>1, <4>1, <4>2
    <3>3. QED BY <2>1, <3>1, <3>2
  <2>4. QED BY <2>2, <2>3
<1>2. QED BY <1>1, CapInitHolds, CapStepHolds, PTL DEF CapSpec

(***************************************************************************)
(* reportImpression refuses an impression only to a user who was shown the *)
(* advertiser's full number, however requests, windows that end, and reads  *)
(* and writes of the count that fail interleave.                           *)
(***************************************************************************)
THEOREM RefusalsAreDue == CapSpec => NoEarlyRefusal
<1> DEFINE Due == \A c \in Callers :
       step'[c] = "false" /\ step[c] # "false" => shown + carried >= FreqCapMax
<1>1. CapInv /\ [CapNext]_capVars => [Due]_capVars
  <2> SUFFICES ASSUME CapInv, CapNext, NEW c \in Callers,
                      step'[c] = "false", step[c] # "false"
               PROVE  shown + carried >= FreqCapMax
    OBVIOUS
  <2>1. Report(c) /\ ~UnderCap
    BY DEF CapNext, Serve, Report, LogImpression, ReadWindow, WriteCount,
           CountFails, WindowEnds, Goto, CapInv, CapTypeOK, Counting
  <2>2. QED
    BY <2>1, SizesAreNat, CapBounds DEF UnderCap, CapInv, CapTypeOK, Accounted
<1>2. QED BY <1>1, CapInitHolds, CapStepHolds, PTL DEF CapSpec, NoEarlyRefusal
=============================================================================
