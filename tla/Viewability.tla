---------------------------- MODULE Viewability ----------------------------
(***************************************************************************)
(* observeViewability of the web SDK: an IntersectionObserver, a timer of  *)
(* one second and the flag that stops both.  The browser queues an entry   *)
(* whenever the element crosses a threshold and gives the callback all it  *)
(* has queued; the callback looks at entries[0], the oldest.               *)
(*                                                                         *)
(* Time is counted in ticks.  The event loop keeps up: no tick passes      *)
(* while an entry is queued or a timeout is due, so what is shown does not *)
(* depend on a slow page.  Whether disconnect() drops the entries that are *)
(* still queued is the browser's choice.                                   *)
(***************************************************************************)
EXTENDS Integers, Sequences

CONSTANTS
  Second,      \* ticks in 1000 ms
  MaxBatch,    \* bound: entries the browser gives to one callback
  MaxScrolls   \* bound: times the element moves

ASSUME ViewabilityBounds == /\ Second \in Nat \ {0}
                            /\ MaxBatch \in Nat \ {0}
                            /\ MaxScrolls \in Nat

VARIABLES
  ratio,       \* share of the element in view: "out", "part", "half" (50%+)
  queue,       \* entries not yet given to the callback
  observer,    \* "new", "observing", "disconnected"
  timer,       \* the variable timer is not null
  due,         \* ticks until the timeout, NoTimeout if none is pending
  fired,
  cleaned,     \* the cleanup function was called
  reports,     \* calls of reportViewable
  inView,      \* ticks the element has been half in view, at most Second
  viewed,      \* it was half in view for a second without interruption
  late,        \* the browser kept entries over a disconnect
  scrolls

page == <<ratio, inView, viewed, scrolls>>
widget == <<queue, observer, timer, due, fired, cleaned, reports, late>>
viewVars == <<page, widget>>

Ratios == {"out", "part", "half"}
NoTimeout == -1

ViewInit ==
  /\ ratio \in Ratios
  /\ queue = <<>> /\ observer = "new"
  /\ timer = FALSE /\ due = NoTimeout /\ fired = FALSE
  /\ cleaned = FALSE /\ reports = 0
  /\ inView = 0 /\ viewed = FALSE /\ late = FALSE /\ scrolls = 0

(* observe() queues a first entry, whatever the ratio is.                  *)
Observe ==
  /\ observer = "new"
  /\ observer' = "observing" /\ queue' = <<ratio>>
  /\ UNCHANGED <<page, timer, due, fired, cleaned, reports, late>>

(* The reader scrolls: thresholds 0 and 0.5 are crossed.                   *)
Scroll(r) ==
  /\ r # ratio /\ scrolls < MaxScrolls /\ Len(queue) < MaxBatch
  /\ ratio' = r /\ scrolls' = scrolls + 1
  /\ inView' = 0
  /\ queue' = IF observer = "observing" THEN Append(queue, r) ELSE queue
  /\ UNCHANGED <<viewed, observer, timer, due, fired, cleaned, reports, late>>

Tick ==
  /\ queue = <<>> /\ due # 0
  /\ due' = IF due > 0 THEN due - 1 ELSE due
  /\ inView' = IF ratio = "half" /\ inView < Second THEN inView + 1 ELSE inView
  /\ viewed' = (viewed \/ inView' = Second)
  /\ UNCHANGED <<ratio, scrolls, queue, observer, timer, fired, cleaned,
                 reports, late>>

(* The callback of the observer.                                           *)
StartTimer == timer' = TRUE /\ due' = IF timer THEN due ELSE Second
LeaveTimer == UNCHANGED <<timer, due>>   \* mutant
StopOnly == UNCHANGED timer /\ due' = NoTimeout   \* mutant
StopTimer == timer' = FALSE /\ due' = NoTimeout

Callback ==
  /\ queue # <<>>
  /\ queue' = <<>>
  /\ \/ fired /\ UNCHANGED <<timer, due>>
     \/ ~fired /\ Head(queue) = "half" /\ StartTimer
     \/ ~fired /\ Head(queue) # "half" /\ StopTimer
  /\ UNCHANGED <<page, observer, fired, cleaned, reports, late>>

Disconnect ==
  /\ observer' = "disconnected"
  /\ queue' \in {<<>>, queue}
  /\ late' = (late \/ queue' # <<>>)

Finish == fired' = TRUE /\ Disconnect

Timeout ==
  /\ due = 0
  /\ due' = NoTimeout
  /\ reports' = reports + 1
  /\ Finish
  /\ UNCHANGED <<page, timer, cleaned>>

(* The cleanup function clears the timeout but not the variable.           *)
KeepTimeout == UNCHANGED due   \* mutant
ClearTimeout == due' = NoTimeout

Cleanup ==
  /\ observer # "new" /\ ~cleaned
  /\ cleaned' = TRUE
  /\ ClearTimeout
  /\ Disconnect
  /\ UNCHANGED <<page, timer, fired, reports>>

ViewNext ==
  \/ Observe \/ \E r \in Ratios : Scroll(r)
  \/ Tick \/ Callback \/ Timeout \/ Cleanup
ViewSpec == ViewInit /\ [][ViewNext]_viewVars

-----------------------------------------------------------------------------
(* Types; a timeout that is pending is known to the variable timer, so that *)
(* the callback can clear it.                                               *)
ViewTypeOK ==
  /\ ratio \in Ratios /\ queue \in Seq(Ratios)
  /\ observer \in {"new", "observing", "disconnected"}
  /\ timer \in BOOLEAN /\ due \in NoTimeout .. Second
  /\ due # NoTimeout => timer
  /\ fired \in BOOLEAN /\ cleaned \in BOOLEAN /\ reports \in Nat
  /\ inView \in 0 .. Second /\ viewed \in BOOLEAN /\ late \in BOOLEAN
  /\ scrolls \in Nat

(***************************************************************************)
(* "50%+ visible for 1+ second": an ad is reported viewable only if it was *)
(* half in view for a second without interruption.  It holds as long as a  *)
(* callback is given one entry and none comes after the cleanup; of two,   *)
(* the callback believes the older, and an ad that flashed by is reported. *)
(***************************************************************************)
ReportedWasViewed == reports > 0 => viewed \/ (cleaned /\ late)

(***************************************************************************)
(* An ad is reported at most once, although the variable timer is never    *)
(* set to null after the timeout and entries may still arrive.             *)
(***************************************************************************)
ReportedAtMostOnce == reports <= 1

(***************************************************************************)
(* After the cleanup function nothing is reported, unless the browser kept *)
(* an entry over the disconnect: the callback does not know that the       *)
(* cleanup was called, and starts a timer that nobody will clear.          *)
(***************************************************************************)
SilentAfterCleanup == [][cleaned /\ reports' # reports => late]_viewVars

(***************************************************************************)
(* An ad that is observed and stays half in view is reported.              *)
(***************************************************************************)
StaysInView == ratio = "half" /\ observer # "new" /\ ~cleaned
ViewedIsReported == <>[]StaysInView => <>(reports > 0)
=============================================================================
