--------------------------- MODULE DetectionFeed ---------------------------
(***************************************************************************)
(* How the detections of one camera reach Gladys (src/tapo/events.js): the *)
(* local API lists what the camera recorded in a window of time and is     *)
(* polled, the ONVIF subscription pushes every detection as it happens,    *)
(* and a watermark keeps the poll from replaying what it reported.         *)
(*                                                                         *)
(* A look is the polled read of one camera.  The watcher's own tick never  *)
(* overlaps itself; the reconnection, a created device and the host's poll *)
(* look on their own.  Time is in whole seconds, the resolution of the     *)
(* camera's list.                                                          *)
(***************************************************************************)
EXTENDS Naturals, FiniteSets

CONSTANTS
  Lookers,        \* who may have a look in flight
  Kinds,          \* kinds of detection
  Window,         \* LOCAL_EVENT_WINDOW_SECONDS
  StartTime,      \* when the watcher starts; what is older is history
  MaxTime,        \* bound on the clock
  MaxDetections,  \* bound on the camera's list
  MaxFailures,    \* bound on the reads the camera refuses
  MaxCovers,      \* bound on the ONVIF subscriptions opened
  MaxUncovers,    \* bound on the ONVIF subscriptions dropped
  None            \* no value

ASSUME FeedAssumption ==
  /\ {Window, StartTime, MaxTime, MaxDetections, MaxFailures, MaxCovers,
      MaxUncovers} \subseteq Nat
  /\ None \notin Nat

VARIABLES
  now,       \* the clock
  recorded,  \* the detections in the camera's list
  watermark, \* newest detection the poll has seen
  lastLook,  \* lastLookAt: where the next window starts
  covered,   \* the camera is in onvifCovered
  looks,     \* the look each looker has in flight, or None
  baseline,  \* history: when the first look ended
  start,     \* history: what that look was, see StartingPoint
  reported,  \* history: detections reported to Gladys
  pushed,    \* history: those a subscription pushed
  repeated,  \* history: detections reported once more
  missed,    \* history: the seconds whose detections may have been missed
  failures, covers, uncovers  \* counted against the bounds

feed == <<now, recorded>>
history == <<baseline, start, reported, pushed, repeated, missed>>
counters == <<failures, covers, uncovers>>
vars == <<feed, watermark, lastLook, covered, looks, history, counters>>

Detection == [t : Nat, kind : Kinds]
Look == [since : Nat, upTo : Nat, reads : BOOLEAN, low : BOOLEAN]
StartingPoint == {"none", "sound", "low", "overtaking"}

ASSUME NoneIsNoLook == None \notin Look

TypeOK ==
  /\ now \in Nat
  /\ recorded \subseteq Detection
  /\ watermark \in Nat \cup {None}
  /\ lastLook \in Nat \cup {None}
  /\ covered \in BOOLEAN
  /\ looks \in [Lookers -> Look \cup {None}]
  /\ baseline \in Nat \cup {None}
  /\ start \in StartingPoint /\ (start = "none") = (watermark = None)
  /\ reported \subseteq recorded
  /\ pushed \subseteq reported
  /\ repeated \subseteq reported
  /\ missed \subseteq Nat
  /\ {failures, covers, uncovers} \subseteq Nat

Init ==
  /\ now = StartTime
  /\ recorded \in SUBSET [t : 0..(StartTime - 1), kind : Kinds]
  /\ watermark = None
  /\ lastLook = None
  /\ covered = FALSE
  /\ looks = [l \in Lookers |-> None]
  /\ baseline = None
  /\ start = "none"
  /\ reported = {}
  /\ pushed = {}
  /\ repeated = {}
  /\ missed = {}
  /\ failures = 0
  /\ covers = 0
  /\ uncovers = 0

---------------------------------------------------------------------------
(* One trigger is fired per kind among the detections of E.                *)
Report(E) ==
  /\ reported' = reported \cup E
  /\ repeated' = repeated \cup (E \cap reported)

Tick ==
  /\ now < MaxTime
  /\ now' = now + 1
  /\ UNCHANGED <<recorded, watermark, lastLook, covered, looks, history,
                 counters>>

(* The camera records a detection, and pushes it when it is subscribed to. *)
(* One recorded in a second the poll has already seen the end of is hidden *)
(* behind the watermark.                                                   *)
Detects(kind) ==
  LET d == [t |-> now, kind |-> kind] IN
  /\ d \notin recorded
  /\ Cardinality(recorded) < MaxDetections
  /\ recorded' = recorded \cup {d}
  /\ Report(IF covered THEN {d} ELSE {})
  /\ pushed' = IF covered THEN pushed \cup {d} ELSE pushed
  /\ missed' = IF watermark = now THEN missed \cup {now} ELSE missed
  /\ UNCHANGED <<now, watermark, lastLook, covered, looks, baseline, start,
                 counters>>

Seconds(look) == IF look = None THEN {} ELSE look.since..look.upTo
InFlight == UNION {Seconds(looks[l]) : l \in Lookers}

windowStart ==
  IF lastLook # None THEN lastLook
  ELSE IF now < Window THEN 0 ELSE now - Window

(* What precedes the first window the camera is asked for, which starts    *)
(* there even when low-power looks came first.                             *)
Skipped == IF lastLook = None THEN 0..(windowStart - 1) ELSE {}

LookStartsMovesCursor(l, lowPower) ==
  /\ looks[l] = None
  /\ looks' = [looks EXCEPT ![l] = [since |-> windowStart, upTo |-> now,
                                    reads |-> ~covered /\ ~lowPower,
                                    low |-> lowPower]]
  /\ lastLook' = now
  /\ missed' = missed \cup InFlight \cup Skipped
  /\ UNCHANGED <<feed, watermark, covered, baseline, start, reported, pushed,
                 repeated, counters>>

(* fetchDeviceEvents up to its await: the window is chosen and the cursor  *)
(* moved before anything is read.  A low-power look reads the battery      *)
(* alone and leaves the cursor, as does a round a battery camera is not    *)
(* due for; a covered camera is not asked for its detections.  A look that *)
(* is still in flight may be overtaken by this one.                        *)
LookStarts(l, lowPower) ==
  /\ looks[l] = None
  /\ looks' = [looks EXCEPT ![l] = [since |-> windowStart, upTo |-> now,
                                    reads |-> ~covered /\ ~lowPower,
                                    low |-> lowPower]]
  /\ lastLook' = IF lowPower THEN lastLook ELSE now
  /\ missed' = missed \cup (IF lowPower THEN {} ELSE InFlight \cup Skipped)
  /\ UNCHANGED <<feed, watermark, covered, baseline, start, reported, pushed,
                 repeated, counters>>

IsLatest(events, t) ==
  /\ \A d \in events : d.t <= t
  /\ t = 0 \/ \E d \in events : d.t = t

(* A first look ends before an older one, which read what came before it.  *)
Overtakes(l) ==
  \E o \in Lookers : looks[o] # None /\ looks[o].reads
                       /\ looks[o].since < looks[l].since

StartsFrom(l) ==
  /\ baseline' = IF watermark = None THEN now ELSE baseline
  /\ start' = CASE watermark # None -> start
                [] watermark = None /\ looks[l].low -> "low"
                [] OTHER -> IF Overtakes(l) THEN "overtaking" ELSE "sound"

ConcludesInclusive(l, events) ==
  \/ /\ covered
     /\ UNCHANGED <<watermark, baseline, start, reported, repeated>>
  \/ /\ ~covered
     /\ \E t \in 0..now :
          /\ IsLatest(events, t)
          /\ watermark' = t
          /\ IF watermark = None THEN UNCHANGED <<reported, repeated>>
             ELSE Report({d \in events : d.t >= watermark})
     /\ StartsFrom(l)

ConcludesFromZero(l, events) ==
  \/ /\ covered
     /\ UNCHANGED <<watermark, baseline, start, reported, repeated>>
  \/ /\ ~covered
     /\ \E t \in 0..now : IsLatest(events, t) /\ watermark' = t
     /\ Report({d \in events : watermark = None \/ d.t > watermark})
     /\ StartsFrom(l)

(* checkDevice after its await, given what the camera listed: nothing on a *)
(* camera covered meanwhile, the starting point on a first look, otherwise *)
(* whatever is newer than the watermark.                                   *)
Concludes(l, events) ==
  \/ /\ covered
     /\ UNCHANGED <<watermark, baseline, start, reported, repeated>>
  \/ /\ ~covered
     /\ watermark = None
     /\ \E t \in 0..now : IsLatest(events, t) /\ watermark' = t
     /\ StartsFrom(l)
     /\ UNCHANGED <<reported, repeated>>
  \/ /\ ~covered
     /\ watermark # None
     /\ \E t \in 0..now :
          /\ IsLatest(events, t)
          /\ \/ /\ t <= watermark
                /\ UNCHANGED <<watermark, reported, repeated>>
             \/ /\ t > watermark
                /\ watermark' = t
                /\ Report({d \in events : d.t > watermark})
     /\ UNCHANGED <<baseline, start>>

LookEnds(l) ==
  /\ looks[l] # None
  /\ looks' = [looks EXCEPT ![l] = None]
  /\ Concludes(l, IF looks[l].reads THEN {d \in recorded : d.t \in Seconds(looks[l])}
                 ELSE {})
  /\ missed' = IF covered THEN missed \cup Seconds(looks[l]) ELSE missed
  /\ UNCHANGED <<feed, lastLook, covered, pushed, counters>>

(* The list could not be read: an empty one stands for it.                 *)
LookFails(l) ==
  /\ looks[l] # None
  /\ looks[l].reads
  /\ failures < MaxFailures
  /\ failures' = failures + 1
  /\ looks' = [looks EXCEPT ![l] = None]
  /\ Concludes(l, {})
  /\ missed' = missed \cup Seconds(looks[l])
  /\ UNCHANGED <<feed, lastLook, covered, pushed, covers, uncovers>>

(* An ONVIF subscription opens: the camera is covered, and asked no more   *)
(* for what it recorded since the last look.                               *)
Cover ==
  /\ ~covered
  /\ covers < MaxCovers
  /\ covers' = covers + 1
  /\ covered' = TRUE
  /\ missed' = missed \cup (windowStart..now)
  /\ UNCHANGED <<feed, watermark, lastLook, looks, baseline, start, reported,
                 pushed, repeated, failures, uncovers>>

(* dropOnvif, or a restart of the watcher, before the subscription is      *)
(* opened again.  Watermarks and cursors stay.                             *)
Uncover ==
  /\ covered
  /\ uncovers < MaxUncovers
  /\ uncovers' = uncovers + 1
  /\ covered' = FALSE
  /\ UNCHANGED <<feed, watermark, lastLook, looks, history, failures, covers>>

Next ==
  \/ Tick
  \/ \E k \in Kinds : Detects(k)
  \/ \E l \in Lookers, low \in BOOLEAN : LookStarts(l, low)
  \/ \E l \in Lookers : LookEnds(l)
  \/ \E l \in Lookers : LookFails(l)
  \/ Cover
  \/ Uncover

Spec == Init /\ [][Next]_vars

---------------------------------------------------------------------------
(* SeenByThePoll: whatever the poll reported is at or below the watermark, *)
(* the reason why no look reports it again however the windows of          *)
(* concurrent looks overlap, and wherever subscriptions open and drop.     *)
SeenByThePoll ==
  \A d \in reported \ pushed : watermark # None /\ d.t <= watermark

(* AtMostOnce: no detection fires its scene twice, with overlapping        *)
(* windows, concurrent looks answered in any order, failed and low-power   *)
(* looks, and a subscription opened at any moment of them (events.js: a    *)
(* watermark "avoids replaying the same ring every tick").  Only what a    *)
(* subscription pushed before it was dropped is polled once more.          *)
AtMostOnce == repeated # {} => uncovers > 0 /\ repeated \subseteq pushed

(* ReportsSinceStart: what happened before the watcher started fires       *)
(* nothing ("a first tick never fires anything", events.js:14), unless the *)
(* first look to end was a low-power one or overtook one that reads the    *)
(* history; and what was recorded after the first look and before the last *)
(* is reported once all are answered, but in the windows of the looks that *)
(* failed, overlapped or met a subscription, and before the window of the  *)
(* first full look, when low-power ones preceded it.                       *)
AllAnswered == \A l \in Lookers : looks[l] = None
Elapsed ==
  {d \in recorded : baseline # None /\ d.t > baseline
                      /\ lastLook # None /\ d.t < lastLook}
ReportsSinceStart ==
  /\ start \notin {"low", "overtaking"} => \A d \in reported : d.t >= StartTime
  /\ AllAnswered => \A d \in Elapsed : d \in reported \/ d.t \in missed

(* ReadIsAdvanced: the cursor is "only advanced when the detections are    *)
(* actually read" (events.js:1104): as long as one loop looks and no       *)
(* subscription was opened, what precedes the cursor was reported.         *)
ReadIsAdvanced ==
  AllAnswered /\ covers = 0 => Elapsed \subseteq reported
===========================================================================
