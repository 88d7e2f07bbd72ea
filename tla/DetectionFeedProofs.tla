------------------------ MODULE DetectionFeedProofs ------------------------
(***************************************************************************)
(* The poll and the subscription together report a detection at most once, *)
(* but for what a subscription pushed before it was dropped: for any       *)
(* lookers, any clock and any number of failures and subscriptions.  And   *)
(* the poll tells what it promises (ReportsSinceStart): nothing older than *)
(* the start and, once looks are answered, everything recorded since the   *)
(* first one but for the gaps the model names.  Its invariant says that a  *)
(* detection not reported is above the watermark (Ahead) and, once the     *)
(* cursor has passed it, in the window of a look in flight (Pending).      *)
(***************************************************************************)
EXTENDS DetectionFeed, TLAPS

(* The part of the types the argument needs: the watermark and the cursor  *)
(* are times, what is reported was recorded, and nothing is recorded ahead *)
(* of the clock.                                                           *)
FeedTypes ==
  /\ now \in Nat
  /\ recorded \subseteq [t : 0..now, kind : Kinds]
  /\ watermark \in Nat \cup {None}
  /\ covered \in BOOLEAN
  /\ reported \subseteq recorded
  /\ uncovers \in Nat

(* A look that ends, read or not, concludes on detections the camera       *)
(* recorded, and leaves the feed alone.                                    *)
LEMMA WindowRecorded ==
  ASSUME NEW l \in Lookers, LookEnds(l) \/ LookFails(l)
  PROVE  /\ \E E \in SUBSET recorded : Concludes(l, E)
         /\ UNCHANGED <<now, recorded, covered, pushed, uncovers>>
  BY DEF LookEnds, LookFails, feed, counters

LEMMA FeedTypesHold == Spec => []FeedTypes
<1>1. Init => FeedTypes
  <2> SUFFICES ASSUME Init
               PROVE  FeedTypes
    OBVIOUS
  <2>1. StartTime \in Nat
    BY FeedAssumption
  <2>2. recorded \subseteq [t : 0..(StartTime - 1), kind : Kinds]
    BY DEF Init
  <2>3. recorded \subseteq [t : 0..now, kind : Kinds]
    BY <2>1, <2>2 DEF Init
  <2> QED BY <2>1, <2>3 DEF Init, FeedTypes
<1>2. FeedTypes /\ [Next]_vars => FeedTypes'
  <2> SUFFICES ASSUME FeedTypes, [Next]_vars
               PROVE  FeedTypes'
    OBVIOUS
  <2> USE DEF FeedTypes
  <2>1. CASE Tick
    BY <2>1 DEF Tick, history, counters
  <2>2. ASSUME NEW k \in Kinds, Detects(k)
        PROVE  FeedTypes'
    BY <2>2 DEF Detects, Report, counters
  <2>3. ASSUME NEW l \in Lookers, NEW low \in BOOLEAN, LookStarts(l, low)
        PROVE  FeedTypes'
    BY <2>3 DEF LookStarts, feed, counters
  <2>4. ASSUME NEW l \in Lookers, NEW E \in SUBSET recorded, Concludes(l, E),
               UNCHANGED <<now, recorded, covered, pushed, uncovers>>
        PROVE  FeedTypes'
    BY <2>4 DEF Concludes, Report
  <2>5. ASSUME NEW l \in Lookers, LookEnds(l) \/ LookFails(l)
        PROVE  FeedTypes'
    BY <2>4, <2>5, WindowRecorded
  <2>6. CASE Cover
    BY <2>6 DEF Cover, feed
  <2>7. CASE Uncover
    <3>1. uncovers' \in Nat
      BY <2>7 DEF Uncover
    <3>2. covered' \in BOOLEAN
      BY <2>7 DEF Uncover
    <3> QED BY <2>7, <3>1, <3>2 DEF Uncover, feed, history
  <2>8. CASE UNCHANGED vars
    BY <2>8 DEF vars, feed, history, counters
  <2> QED
    BY <2>1, <2>2, <2>3, <2>5, <2>6, <2>7, <2>8 DEF Next
<1> QED
  BY <1>1, <1>2, PTL DEF Spec

(* What was pushed was pushed by a subscription that is still open, or was *)
(* dropped since.                                                          *)
PushedWhileCovered == pushed # {} => covered \/ uncovers > 0

(* AtMostOnce follows from SeenByThePoll and PushedWhileCovered: a look    *)
(* reports what is above the watermark, which only a subscription can have *)
(* reported before it, and a subscription pushes what was never recorded.  *)
THEOREM AtMostOnceHolds == Spec => [](SeenByThePoll /\ AtMostOnce)
<1> DEFINE Inv == SeenByThePoll /\ AtMostOnce /\ PushedWhileCovered
<1>1. Init => Inv
  BY DEF Init, SeenByThePoll, AtMostOnce, PushedWhileCovered
<1>2. FeedTypes /\ Inv /\ [Next]_vars => Inv'
  <2> SUFFICES ASSUME FeedTypes, Inv, [Next]_vars
               PROVE  Inv'
    OBVIOUS
  <2> USE DEF SeenByThePoll, AtMostOnce, PushedWhileCovered
  <2>1. CASE Tick
    BY <2>1 DEF Tick, history, counters
  <2>2. ASSUME NEW k \in Kinds, Detects(k)
        PROVE  Inv'
    <3> DEFINE d == [t |-> now, kind |-> k]
    <3>1. d \notin reported
      BY <2>2 DEF Detects, FeedTypes
    <3>2. CASE covered
      BY <2>2, <3>1, <3>2 DEF Detects, Report, counters
    <3>3. CASE ~covered
      BY <2>2, <3>3 DEF Detects, Report, counters
    <3> QED BY <3>2, <3>3
  <2>3. ASSUME NEW l \in Lookers, NEW low \in BOOLEAN, LookStarts(l, low)
        PROVE  Inv'
    BY <2>3 DEF LookStarts, counters
  <2>4. ASSUME NEW l \in Lookers, NEW E \in SUBSET recorded, Concludes(l, E),
               UNCHANGED <<covered, pushed, uncovers>>
        PROVE  Inv'
    <3>1. CASE /\ UNCHANGED <<reported, repeated>>
               /\ \/ watermark = None
                  \/ watermark' = watermark
      (* Nothing is reported on this branch; on a first look the poll      *)
      (* had reported nothing.                                             *)
      <4>1. watermark = None => reported \ pushed = {}
        OBVIOUS
      <4> QED BY <2>4, <3>1, <4>1
    <3>2. ASSUME ~covered, watermark # None, NEW t \in 0..now,
                 IsLatest(E, t), t > watermark, watermark' = t,
                 Report({d \in E : d.t > watermark})
          PROVE  Inv'
      <4> DEFINE N == {d \in E : d.t > watermark}
      <4>1. \A d \in reported : d.t \in Nat
        BY DEF FeedTypes
      <4>2. watermark \in Nat /\ t # None /\ t \in Nat
        BY <3>2, FeedAssumption DEF FeedTypes
      <4>3. N \cap reported \subseteq pushed
        BY <4>1, <4>2
      <4>4. \A d \in reported' \ pushed' : d.t <= t
        BY <2>4, <3>2, <4>1, <4>2 DEF Report, IsLatest
      <4>5. AtMostOnce'
        BY <2>4, <3>2, <4>3 DEF Report, FeedTypes
      <4> QED BY <2>4, <3>2, <4>2, <4>4, <4>5
    <3> QED BY <2>4, <3>1, <3>2 DEF Concludes
  <2>5. ASSUME NEW l \in Lookers, LookEnds(l) \/ LookFails(l)
        PROVE  Inv'
    BY <2>4, <2>5, WindowRecorded
  <2>6. CASE Cover
    BY <2>6 DEF Cover
  <2>7. CASE Uncover
    BY <2>7 DEF Uncover, history, FeedTypes
  <2>8. CASE UNCHANGED vars
    BY <2>8 DEF vars, history, counters
  <2> QED
    BY <2>1, <2>2, <2>3, <2>5, <2>6, <2>7, <2>8 DEF Next
<1> QED
  BY <1>1, <1>2, FeedTypesHold, PTL DEF Spec

---------------------------------------------------------------------------
(* Types.                                                                  *)
LookTypes ==
  /\ lastLook \in Nat \cup {None}
  /\ looks \in [Lookers -> Look \cup {None}]
  /\ missed \subseteq Nat
  /\ failures \in Nat /\ covers \in Nat /\ uncovers \in Nat

StartTypes ==
  /\ baseline \in Nat \cup {None}
  /\ start \in StartingPoint
  /\ (start = "none") <=> (watermark = None)

HistoryTypes == pushed \subseteq reported /\ repeated \subseteq reported

(* A window starts at the cursor, or a window's length before now.         *)
LEMMA WindowStartIsTime ==
  ASSUME now \in Nat, lastLook \in Nat \cup {None}
  PROVE  windowStart \in Nat
<1>1. Window \in Nat
  BY FeedAssumption
<1>2. CASE lastLook # None
  BY <1>2 DEF windowStart
<1>3. CASE lastLook = None /\ now < Window
  BY <1>3 DEF windowStart
<1>4. CASE lastLook = None /\ ~(now < Window)
  BY <1>1, <1>4 DEF windowStart
<1> QED
  BY <1>2, <1>3, <1>4

LEMMA SecondsAreTimes ==
  ASSUME LookTypes, NEW l \in Lookers
  PROVE  Seconds(looks[l]) \subseteq Nat
<1>1. CASE looks[l] = None
  BY <1>1 DEF Seconds
<1>2. CASE looks[l] # None
  <2>1. looks[l].since \in Nat /\ looks[l].upTo \in Nat
    BY <1>2 DEF LookTypes, Look
  <2>2. Seconds(looks[l]) = looks[l].since..looks[l].upTo
    BY <1>2 DEF Seconds
  <2> QED
    BY <2>1, <2>2
<1> QED
  BY <1>1, <1>2

LEMMA LookTypesKept ==
  ASSUME FeedTypes, LookTypes, [Next]_vars
  PROVE  LookTypes'
<1>1. windowStart \in Nat /\ now \in Nat
  BY WindowStartIsTime DEF FeedTypes, LookTypes
<1>2. InFlight \subseteq Nat
  BY SecondsAreTimes DEF InFlight
<1> USE DEF LookTypes
<1>3. CASE Tick
  BY <1>3 DEF Tick, history, counters
<1>4. ASSUME NEW k \in Kinds, Detects(k) PROVE LookTypes'
  BY <1>1, <1>4 DEF Detects, counters
<1>5. ASSUME NEW l \in Lookers, NEW low \in BOOLEAN, LookStarts(l, low)
      PROVE  LookTypes'
  <2> DEFINE look == [since |-> windowStart, upTo |-> now,
                      reads |-> ~covered /\ ~low, low |-> low]
  <2>1. look \in Look
    BY <1>1 DEF Look
  <2>2. looks' = [looks EXCEPT ![l] = look]
    BY <1>5 DEF LookStarts
  <2>3. looks' \in [Lookers -> Look \cup {None}]
    BY <2>1, <2>2
  <2>4. lastLook' \in Nat \cup {None}
    BY <1>1, <1>5 DEF LookStarts
  <2>5. missed' \subseteq Nat
    <3>1. Skipped \subseteq Nat
      BY <1>1 DEF Skipped
    <3> QED
      BY <1>2, <1>5, <3>1 DEF LookStarts
  <2> QED
    BY <1>5, <2>3, <2>4, <2>5 DEF LookStarts, counters
<1>6. ASSUME NEW l \in Lookers, LookEnds(l) \/ LookFails(l)
      PROVE  LookTypes'
  <2>1. looks' = [looks EXCEPT ![l] = None] /\ lastLook' = lastLook
    BY <1>6 DEF LookEnds, LookFails
  <2>2. missed' \subseteq Nat
    BY <1>6, SecondsAreTimes DEF LookEnds, LookFails
  <2>3. failures' \in Nat /\ covers' \in Nat /\ uncovers' \in Nat
    BY <1>6 DEF LookEnds, LookFails, counters
  <2> QED
    BY <2>1, <2>2, <2>3
<1>7. CASE Cover
  BY <1>1, <1>7 DEF Cover
<1>8. CASE Uncover
  BY <1>8 DEF Uncover, history
<1>9. CASE UNCHANGED vars
  BY <1>9 DEF vars, history, counters
<1> QED
  BY <1>3, <1>4, <1>5, <1>6, <1>7, <1>8, <1>9 DEF Next

(* The look that sets the watermark is the one that is remembered as the   *)
(* starting point.                                                         *)
LEMMA StartTypesKept ==
  ASSUME FeedTypes, StartTypes, [Next]_vars
  PROVE  StartTypes'
<1> USE DEF StartTypes
<1>1. CASE \/ Tick \/ Cover \/ Uncover \/ UNCHANGED vars
           \/ \E k \in Kinds : Detects(k)
           \/ \E l \in Lookers, low \in BOOLEAN : LookStarts(l, low)
  <2>1. UNCHANGED <<watermark, baseline, start>>
    BY <1>1 DEF Tick, Cover, Uncover, Detects, LookStarts, history, vars
  <2> QED
    BY <2>1
<1>2. ASSUME NEW l \in Lookers, LookEnds(l) \/ LookFails(l)
      PROVE  StartTypes'
  <2>1. PICK E \in SUBSET recorded : Concludes(l, E)
    BY <1>2, WindowRecorded
  <2>2. CASE UNCHANGED <<watermark, baseline, start>>
    BY <2>2
  <2>3. CASE /\ watermark = None
             /\ \E t \in 0..now : watermark' = t
             /\ StartsFrom(l)
    <3>1. baseline' = now /\ now \in Nat
      BY <2>3 DEF StartsFrom, FeedTypes
    <3>2. start' \in {"low", "overtaking", "sound"}
      BY <2>3 DEF StartsFrom
    <3>3. watermark' # None
      BY <2>3, FeedAssumption DEF FeedTypes
    <3> QED
      BY <3>1, <3>2, <3>3 DEF StartingPoint
  <2>4. CASE /\ watermark # None
             /\ UNCHANGED <<baseline, start>>
             /\ \E t \in 0..now : watermark' = t
    <3>1. watermark' # None
      BY <2>4, FeedAssumption DEF FeedTypes
    <3> QED
      BY <2>4, <3>1
  <2> QED
    BY <2>1, <2>2, <2>3, <2>4 DEF Concludes
<1> QED
  BY <1>1, <1>2 DEF Next

LEMMA HistoryTypesKept ==
  ASSUME HistoryTypes, [Next]_vars
  PROVE  HistoryTypes'
<1> USE DEF HistoryTypes
<1>1. CASE \/ Tick \/ Cover \/ Uncover \/ UNCHANGED vars
           \/ \E l \in Lookers, low \in BOOLEAN : LookStarts(l, low)
  <2>1. UNCHANGED <<reported, pushed, repeated>>
    BY <1>1 DEF Tick, Cover, Uncover, LookStarts, history, vars
  <2> QED
    BY <2>1
<1>2. ASSUME NEW k \in Kinds, Detects(k) PROVE HistoryTypes'
  <2>1. CASE covered
    BY <1>2, <2>1 DEF Detects, Report
  <2>2. CASE ~covered
    BY <1>2, <2>2 DEF Detects, Report
  <2> QED
    BY <2>1, <2>2
<1>3. ASSUME NEW l \in Lookers, LookEnds(l) \/ LookFails(l)
      PROVE  HistoryTypes'
  <2>1. PICK E \in SUBSET recorded : Concludes(l, E)
    BY <1>3, WindowRecorded
  <2>2. pushed' = pushed
    BY <1>3, WindowRecorded
  <2>3. \/ UNCHANGED <<reported, repeated>>
        \/ Report({d \in E : d.t > watermark})
    BY <2>1 DEF Concludes
  <2> QED
    BY <2>2, <2>3 DEF Report
<1> QED
  BY <1>1, <1>2, <1>3 DEF Next

(* TypeCorrect: the watermark is set exactly once the first look has ended *)
(* (events.js, checkDevice), and what is reported was recorded.            *)
THEOREM TypeCorrect == Spec => []TypeOK
<1> DEFINE Types == LookTypes /\ StartTypes /\ HistoryTypes
<1>1. Init => Types
  BY FeedAssumption DEF Init, LookTypes, StartTypes, HistoryTypes, StartingPoint
<1>2. FeedTypes /\ Types /\ [Next]_vars => Types'
  BY LookTypesKept, StartTypesKept, HistoryTypesKept
<1>3. FeedTypes /\ Types => TypeOK
  <2> SUFFICES ASSUME FeedTypes, Types PROVE TypeOK
    OBVIOUS
  <2>1. recorded \subseteq Detection
    BY DEF FeedTypes, Detection
  <2>2. {failures, covers, uncovers} \subseteq Nat
    BY DEF LookTypes
  <2>3. (start = "none") = (watermark = None)
    BY DEF StartTypes
  <2> QED
    BY <2>1, <2>2, <2>3 DEF FeedTypes, LookTypes, StartTypes, HistoryTypes, TypeOK
<1> QED
  BY <1>1, <1>2, <1>3, FeedTypesHold, PTL DEF Spec

---------------------------------------------------------------------------
(* ReportsSinceStart.  A full look is one that moves the cursor; the       *)
(* windows of the full looks in flight follow one another, and the seconds *)
(* of the older one count as missed.                                       *)
Full(l) == looks[l] # None /\ ~looks[l].low
Reads(l) == looks[l] # None /\ looks[l].reads

ClockInv ==
  /\ StartTime <= now
  /\ lastLook # None => StartTime <= lastLook /\ lastLook <= now
  /\ watermark # None => watermark <= now
  /\ baseline = None <=> watermark = None

LooksInv ==
  \A l \in Lookers : looks[l] # None =>
    /\ looks[l].since <= looks[l].upTo
    /\ StartTime <= looks[l].upTo /\ looks[l].upTo <= now
    /\ Full(l) => lastLook # None /\ looks[l].upTo <= lastLook
    /\ Reads(l) => Full(l)

After(l, o) ==
  looks[o].upTo <= looks[l].since /\ Seconds(looks[o]) \subseteq missed

OneAfterAnother ==
  \A l, o \in Lookers :
    l # o /\ Full(l) /\ Full(o) => After(l, o) \/ After(o, l)

(* A sound start leaves no look in flight that reads the history.          *)
SoundStart ==
  start = "sound" =>
    /\ lastLook # None
    /\ \A l \in Lookers : Reads(l) => StartTime <= looks[l].since

NoHistory ==
  start \notin {"low", "overtaking"} => \A d \in reported : StartTime <= d.t

(* What was recorded after the first look and is neither reported nor let  *)
(* off is above the watermark, and a look in flight reads it once the      *)
(* cursor has passed it.  On a covered camera nothing is left to read.     *)
Unreported(d) ==
  /\ baseline # None /\ d.t > baseline
  /\ d \notin reported /\ d.t \notin missed

Ahead == \A d \in recorded : Unreported(d) => d.t > watermark

Pending ==
  \A d \in recorded : Unreported(d) /\ lastLook # None /\ d.t < lastLook =>
    \E l \in Lookers : Reads(l) /\ d.t \in Seconds(looks[l])

NothingLeft ==
  covered => \A d \in recorded :
               d.t >= windowStart => d \in reported \/ d.t \in missed

LookInv == ClockInv /\ LooksInv /\ OneAfterAnother
StartInv == SoundStart /\ NoHistory
ReadInv == Ahead /\ Pending /\ NothingLeft

Typed == FeedTypes /\ LookTypes /\ StartTypes

(* What a look that starts leaves as it was, and what it adds.             *)
LEMMA LookStarted ==
  ASSUME Typed, NEW l \in Lookers, NEW low \in BOOLEAN, LookStarts(l, low)
  PROVE  /\ UNCHANGED <<now, recorded, watermark, covered, baseline, start,
                        reported>>
         /\ ~Full(l) /\ ~Reads(l)
         /\ looks'[l].since = windowStart /\ looks'[l].upTo = now
         /\ looks'[l].reads = (~covered /\ ~low) /\ looks'[l].low = low
         /\ looks'[l] # None
         /\ \A o \in Lookers \ {l} : looks'[o] = looks[o]
         /\ missed \subseteq missed'
         /\ lastLook' = IF low THEN lastLook ELSE now
<1>1. windowStart \in Nat /\ now \in Nat
  BY WindowStartIsTime DEF Typed, FeedTypes, LookTypes
<1> DEFINE look == [since |-> windowStart, upTo |-> now,
                    reads |-> ~covered /\ ~low, low |-> low]
<1>2. look \in Look
  BY <1>1 DEF Look
<1>3. look # None
  BY <1>2, NoneIsNoLook
<1>4. looks' = [looks EXCEPT ![l] = look]
  BY DEF LookStarts
<1>5. looks'[l] = look /\ \A o \in Lookers \ {l} : looks'[o] = looks[o]
  BY <1>4 DEF Typed, LookTypes
<1> QED
  BY <1>3, <1>5 DEF LookStarts, feed, Full, Reads

(* What a look that ends leaves as it was.                                 *)
LEMMA LookEnded ==
  ASSUME Typed, NEW l \in Lookers, LookEnds(l) \/ LookFails(l)
  PROVE  /\ UNCHANGED <<now, recorded, lastLook, covered>>
         /\ looks[l] # None /\ looks'[l] = None
         /\ \A o \in Lookers \ {l} : looks'[o] = looks[o]
         /\ missed \subseteq missed'
  BY DEF LookEnds, LookFails, feed, Typed, LookTypes

(* How it concludes: on a covered camera nothing changes, a first look     *)
(* sets the starting point, a later one finds nothing newer or reports it. *)
LEMMA Conclusions ==
  ASSUME Typed, NEW l \in Lookers, NEW E \in SUBSET recorded, Concludes(l, E)
  PROVE  \/ covered /\ UNCHANGED <<watermark, baseline, start, reported>>
         \/ /\ ~covered /\ watermark = None
            /\ watermark' \in 0..now /\ baseline' = now
            /\ StartsFrom(l) /\ reported' = reported
         \/ /\ ~covered /\ watermark # None
            /\ UNCHANGED <<watermark, baseline, start, reported>>
            /\ \A d \in E : d.t <= watermark
         \/ /\ ~covered /\ watermark # None
            /\ watermark' \in 0..now /\ watermark' > watermark
            /\ UNCHANGED <<baseline, start>>
            /\ \A d \in E : d.t <= watermark'
            /\ \E d \in E : d.t = watermark'
            /\ reported' = reported \cup {d \in E : d.t > watermark}
<1>1. CASE covered
  BY <1>1 DEF Concludes
<1>2. CASE ~covered /\ watermark = None
  BY <1>2 DEF Concludes, StartsFrom
<1>3. CASE ~covered /\ watermark # None
  <2>1. watermark \in Nat
    BY <1>3 DEF Typed, FeedTypes
  <2>2. PICK t \in 0..now :
          /\ IsLatest(E, t)
          /\ \/ /\ t <= watermark
                /\ UNCHANGED <<watermark, reported, repeated>>
             \/ /\ t > watermark
                /\ watermark' = t
                /\ Report({d \in E : d.t > watermark})
    BY <1>3 DEF Concludes
  <2>3. UNCHANGED <<baseline, start>>
    BY <1>3 DEF Concludes
  <2>4. \A d \in E : d.t \in 0..now
    BY DEF Typed, FeedTypes
  <2>5. CASE t <= watermark
    <3>1. \A d \in E : d.t <= watermark
      BY <2>1, <2>2, <2>4, <2>5 DEF IsLatest, Typed, FeedTypes
    <3>2. UNCHANGED <<watermark, reported>>
      BY <2>1, <2>2, <2>5
    <3> QED
      BY <1>3, <2>3, <3>1, <3>2
  <2>6. CASE t > watermark
    <3>1. t # 0
      BY <2>1, <2>6
    <3>2. watermark' = t /\ reported' = reported \cup {d \in E : d.t > watermark}
      BY <2>1, <2>2, <2>6 DEF Report
    <3> QED
      BY <1>3, <2>2, <2>3, <2>6, <3>1, <3>2 DEF IsLatest
  <2> QED
    BY <2>1, <2>2, <2>5, <2>6
<1> QED
  BY <1>1, <1>2, <1>3

---------------------------------------------------------------------------
LEMMA LookInvKept ==
  ASSUME Typed, LookInv, [Next]_vars
  PROVE  LookInv'
<1> USE DEF LookInv
<1>t. /\ now \in Nat /\ StartTime \in Nat
      /\ lastLook \in Nat \cup {None} /\ watermark \in Nat \cup {None}
      /\ looks \in [Lookers -> Look \cup {None}]
  BY FeedAssumption DEF Typed, FeedTypes, LookTypes
<1>1. CASE Tick
  <2>1. now' = now + 1
        /\ UNCHANGED <<watermark, lastLook, looks, baseline, missed>>
    BY <1>1 DEF Tick, history
  <2>2. ClockInv'
    BY <1>t, <2>1 DEF ClockInv
  <2>3. LooksInv'
    BY <1>t, <2>1 DEF LooksInv, Look, Full, Reads
  <2>4. OneAfterAnother'
    BY <2>1 DEF OneAfterAnother, After, Full, Seconds
  <2> QED
    BY <2>2, <2>3, <2>4
<1>2. ASSUME UNCHANGED <<now, watermark, lastLook, looks, baseline>>,
             missed \subseteq missed'
      PROVE  LookInv'
  <2>1. ClockInv' /\ LooksInv'
    BY <1>2 DEF ClockInv, LooksInv, Full, Reads
  <2>2. OneAfterAnother'
    BY <1>2 DEF OneAfterAnother, After, Full, Seconds
  <2> QED
    BY <2>1, <2>2
<1>3. ASSUME NEW l \in Lookers, NEW low \in BOOLEAN, LookStarts(l, low)
      PROVE  LookInv'
  <2>1. windowStart \in Nat /\ windowStart <= now
    <3>1. windowStart \in Nat
      BY <1>t, WindowStartIsTime
    <3>2. Window \in Nat
      BY FeedAssumption
    <3> QED
      BY <1>t, <3>1, <3>2 DEF windowStart, ClockInv
  <2>2. ClockInv'
    BY <1>t, <1>3, LookStarted DEF ClockInv
  <2>3. ASSUME NEW o \in Lookers, looks'[o] # None
        PROVE  /\ looks'[o].since <= looks'[o].upTo
               /\ StartTime <= looks'[o].upTo /\ looks'[o].upTo <= now'
               /\ Full(o)' => lastLook' # None /\ looks'[o].upTo <= lastLook'
               /\ Reads(o)' => Full(o)'
    <3>1. CASE o = l
      <4>1. /\ looks'[l].since = windowStart /\ looks'[l].upTo = now
            /\ looks'[l].reads = (~covered /\ ~low) /\ looks'[l].low = low
            /\ now' = now /\ lastLook' = IF low THEN lastLook ELSE now
        BY <1>3, LookStarted
      <4>2. StartTime <= now /\ now # None
        BY <1>t, FeedAssumption DEF ClockInv
      <4>3. Full(l)' => ~low
        BY <4>1 DEF Full
      <4>4. Reads(l)' => Full(l)'
        BY <4>1 DEF Full, Reads
      <4> QED
        BY <1>t, <2>1, <3>1, <4>1, <4>2, <4>3, <4>4
    <3>2. CASE o # l
      <4>1. looks'[o] = looks[o] /\ now' = now /\ looks[o] \in Look
        BY <1>t, <1>3, <2>3, <3>2, LookStarted
      <4>2. /\ looks[o].since <= looks[o].upTo
            /\ StartTime <= looks[o].upTo /\ looks[o].upTo <= now
            /\ Full(o) => lastLook # None /\ looks[o].upTo <= lastLook
            /\ Reads(o) => Full(o)
        BY <2>3, <4>1 DEF LooksInv
      <4>3. lastLook' = lastLook \/ lastLook' = now
        BY <1>3, LookStarted
      <4>4. now # None
        BY <1>t, FeedAssumption
      <4> QED
        BY <1>t, <4>1, <4>2, <4>3, <4>4 DEF Full, Reads
    <3> QED
      BY <3>1, <3>2
  <2>4. ASSUME NEW o \in Lookers \ {l}, Full(l)', Full(o)'
        PROVE  After(l, o)'
    <3>1. looks'[o] = looks[o] /\ Full(o) /\ ~low
      BY <1>3, <2>4, LookStarted DEF Full
    <3>2. lastLook # None /\ looks[o].upTo <= lastLook
      BY <3>1 DEF LooksInv, Full
    <3>3. windowStart = lastLook /\ looks'[l].since = windowStart
      BY <1>3, <3>2, LookStarted DEF windowStart
    <3>4. Seconds(looks[o]) \subseteq missed'
      BY <1>3, <3>1 DEF LookStarts, InFlight
    <3> QED
      BY <3>1, <3>2, <3>3, <3>4 DEF After, Seconds
  <2>5. ASSUME NEW o \in Lookers \ {l}, NEW q \in Lookers \ {l}, After(o, q)
        PROVE  After(o, q)'
    BY <1>3, <2>5, LookStarted DEF After, Seconds
  <2>6. OneAfterAnother'
    <3> SUFFICES ASSUME NEW o \in Lookers, NEW q \in Lookers,
                        o # q, Full(o)', Full(q)'
                 PROVE  After(o, q)' \/ After(q, o)'
      BY DEF OneAfterAnother
    <3>1. CASE o = l \/ q = l
      BY <2>4, <3>1
    <3>2. CASE o # l /\ q # l
      <4>1. Full(o) /\ Full(q)
        BY <1>3, <3>2, LookStarted DEF Full
      <4> QED
        BY <2>5, <3>2, <4>1 DEF OneAfterAnother
    <3> QED
      BY <3>1, <3>2
  <2> QED
    BY <2>2, <2>3, <2>6 DEF LooksInv
<1>4. ASSUME NEW l \in Lookers, LookEnds(l) \/ LookFails(l)
      PROVE  LookInv'
  <2>1. PICK E \in SUBSET recorded : Concludes(l, E)
    BY <1>4, WindowRecorded
  <2>2. ClockInv'
    <3>1. UNCHANGED <<now, lastLook>>
      BY <1>4, LookEnded
    <3>2. \/ UNCHANGED <<watermark, baseline>>
          \/ watermark = None /\ watermark' \in 0..now /\ baseline' = now
          \/ watermark # None /\ watermark' \in 0..now /\ baseline' = baseline
      BY <2>1, Conclusions
    <3> QED
      BY <1>t, <3>1, <3>2, FeedAssumption DEF ClockInv
  <2>3. \A o \in Lookers : looks'[o] # None => o # l /\ looks'[o] = looks[o]
    BY <1>4, LookEnded
  <2>4. LooksInv'
    BY <1>4, <2>3, LookEnded DEF LooksInv, Full, Reads
  <2>5. OneAfterAnother'
    BY <1>4, <2>3, LookEnded DEF OneAfterAnother, After, Full, Seconds
  <2> QED
    BY <2>2, <2>4, <2>5
<1>5. ASSUME NEW k \in Kinds, Detects(k) PROVE LookInv'
  BY <1>2, <1>5 DEF Detects
<1>6. CASE Cover \/ Uncover \/ UNCHANGED vars
  BY <1>2, <1>6 DEF Cover, Uncover, vars, feed, history
<1> QED
  BY <1>1, <1>3, <1>4, <1>5, <1>6 DEF Next

LEMMA StartInvKept ==
  ASSUME Typed, LookInv, StartInv, [Next]_vars
  PROVE  StartInv'
<1> USE DEF StartInv
<1>t. /\ now \in Nat /\ StartTime \in Nat /\ StartTime <= now
      /\ lastLook \in Nat \cup {None}
      /\ looks \in [Lookers -> Look \cup {None}]
      /\ \A d \in recorded : d.t \in Nat
      /\ reported \subseteq recorded
  BY FeedAssumption DEF Typed, FeedTypes, LookTypes, LookInv, ClockInv
<1>1. CASE Tick \/ Cover \/ Uncover \/ UNCHANGED vars
  <2>1. UNCHANGED <<lastLook, looks, start, reported>>
    BY <1>1 DEF Tick, Cover, Uncover, vars, history
  <2> QED
    BY <2>1 DEF SoundStart, NoHistory, Reads
<1>2. ASSUME NEW k \in Kinds, Detects(k) PROVE StartInv'
  <2>1. UNCHANGED <<lastLook, looks, start>>
    BY <1>2 DEF Detects
  <2>2. reported' \subseteq reported \cup {[t |-> now, kind |-> k]}
    BY <1>2 DEF Detects, Report
  <2>3. SoundStart'
    BY <2>1 DEF SoundStart, Reads
  <2>4. NoHistory'
    BY <1>t, <2>1, <2>2 DEF NoHistory
  <2> QED
    BY <2>3, <2>4
<1>3. ASSUME NEW l \in Lookers, NEW low \in BOOLEAN, LookStarts(l, low)
      PROVE  StartInv'
  <2>1. NoHistory'
    BY <1>3, LookStarted DEF NoHistory
  <2>2. ASSUME start = "sound"
        PROVE  /\ lastLook' # None
               /\ \A o \in Lookers : Reads(o)' => StartTime <= looks'[o].since
    <3>1. lastLook # None /\ StartTime <= lastLook /\ now # None
      BY <1>t, <2>2, FeedAssumption DEF SoundStart, LookInv, ClockInv
    <3>2. lastLook' # None
      BY <1>3, <3>1, LookStarted
    <3>3. StartTime <= looks'[l].since
      BY <1>3, <3>1, LookStarted DEF windowStart
    <3>4. \A o \in Lookers \ {l} : Reads(o)' => StartTime <= looks'[o].since
      BY <1>3, <2>2, LookStarted DEF SoundStart, Reads
    <3> QED
      BY <3>2, <3>3, <3>4
  <2>3. SoundStart'
    BY <1>3, <2>2, LookStarted DEF SoundStart
  <2> QED
    BY <2>1, <2>3
<1>4. ASSUME NEW l \in Lookers, LookEnds(l) \/ LookFails(l)
      PROVE  StartInv'
  <2> DEFINE E == IF LookEnds(l) /\ looks[l].reads
                    THEN {d \in recorded : d.t \in Seconds(looks[l])}
                    ELSE {}
  <2>1. Concludes(l, E)
    <3>1. CASE LookEnds(l)
      BY <3>1 DEF LookEnds
    <3>2. CASE ~LookEnds(l)
      BY <1>4, <3>2 DEF LookFails
    <3> QED
      BY <3>1, <3>2
  <2>2. E \in SUBSET recorded
    OBVIOUS
  <2>3. \A o \in Lookers : Reads(o)' => o # l /\ Reads(o) /\ looks'[o] = looks[o]
    BY <1>4, LookEnded DEF Reads
  <2>4. SoundStart'
    <3>1. CASE start' = start
      BY <1>4, <2>3, <3>1, LookEnded DEF SoundStart
    <3>2. CASE start' # start
      <4>1. StartsFrom(l) /\ watermark = None
        BY <2>1, <2>2, <3>2, Conclusions
      <4> SUFFICES ASSUME start' = "sound"
                   PROVE  /\ lastLook' # None
                          /\ \A o \in Lookers :
                               Reads(o)' => StartTime <= looks'[o].since
        BY DEF SoundStart
      <4>2. Full(l) /\ ~Overtakes(l)
        BY <1>4, <4>1, LookEnded DEF StartsFrom, Full
      <4>3. lastLook' # None
        BY <1>4, <4>2, LookEnded DEF LookInv, LooksInv, Full
      <4>4. ASSUME NEW o \in Lookers, Reads(o)'
            PROVE  StartTime <= looks'[o].since
        <5>1. o # l /\ Reads(o) /\ Full(o) /\ looks'[o] = looks[o]
          BY <2>3, <4>4 DEF LookInv, LooksInv, Reads
        <5>2. /\ looks[o] \in Look /\ looks[l] \in Look
              /\ looks[o].since \in Nat /\ looks[o].upTo \in Nat
              /\ looks[l].since \in Nat /\ looks[l].upTo \in Nat
          BY <1>t, <4>2, <5>1 DEF Full, Look
        <5>3. ~(looks[o].since < looks[l].since)
          BY <4>2, <5>1 DEF Overtakes, Reads
        <5>4. After(l, o) \/ After(o, l)
          BY <4>2, <5>1 DEF LookInv, OneAfterAnother
        <5>5. /\ StartTime <= looks[o].upTo /\ looks[o].since <= looks[o].upTo
              /\ StartTime <= looks[l].upTo
          BY <4>2, <5>1 DEF LookInv, LooksInv, Full
        <5> QED
          BY <1>t, <5>1, <5>2, <5>3, <5>4, <5>5 DEF After
      <4> QED
        BY <4>3, <4>4
    <3> QED
      BY <3>1, <3>2
  <2>5. NoHistory'
    <3>1. CASE reported' = reported /\ start' = start
      BY <3>1 DEF NoHistory
    <3>2. CASE reported' = reported /\ watermark = None
      <4>1. start = "none"
        BY <3>2 DEF Typed, StartTypes
      <4> QED
        BY <3>2, <4>1 DEF NoHistory
    <3>3. CASE /\ watermark # None /\ start' = start
               /\ reported' = reported \cup {d \in E : d.t > watermark}
      <4>1. start # "none"
        BY <3>3 DEF Typed, StartTypes
      <4>2. ASSUME start = "sound", NEW d \in E
            PROVE  StartTime <= d.t
        <5>1. looks[l].reads /\ d \in recorded /\ d.t \in Seconds(looks[l])
          BY <4>2
        <5>2. looks[l] # None /\ looks[l] \in Look
          BY <1>t, <1>4, LookEnded
        <5>3. StartTime <= looks[l].since
          BY <4>2, <5>1, <5>2 DEF SoundStart, Reads
        <5> QED
          BY <1>t, <5>1, <5>2, <5>3 DEF Seconds, Look
      <4>3. start \in {"sound", "low", "overtaking"}
        BY <4>1 DEF Typed, StartTypes, StartingPoint
      <4> QED
        BY <3>3, <4>2, <4>3 DEF NoHistory
    <3> HIDE DEF E
    <3> QED
      BY <2>1, <2>2, <3>1, <3>2, <3>3, Conclusions
  <2> QED
    BY <2>4, <2>5
<1> QED
  BY <1>1, <1>2, <1>3, <1>4 DEF Next

(* What a covered camera recorded since the cursor is let off, or pushed.  *)
LEMMA NothingLeftKept ==
  ASSUME Typed, LookInv, NothingLeft, [Next]_vars
  PROVE  NothingLeft'
<1>t. /\ now \in Nat /\ lastLook \in Nat \cup {None} /\ windowStart \in Nat
      /\ \A d \in recorded : d.t \in 0..now
  BY WindowStartIsTime DEF Typed, FeedTypes, LookTypes
<1>w. Window \in Nat
  BY FeedAssumption
<1>1. ASSUME covered' => covered, reported \subseteq reported',
             missed \subseteq missed', recorded' = recorded,
             windowStart <= windowStart', windowStart' \in Nat
      PROVE  NothingLeft'
  BY <1>t, <1>1 DEF NothingLeft
<1>2. CASE Tick
  <2>1. windowStart <= windowStart' /\ windowStart' \in Nat
    BY <1>t, <1>w, <1>2 DEF Tick, windowStart
  <2> QED
    BY <1>1, <1>2, <2>1 DEF Tick, history
<1>3. ASSUME NEW k \in Kinds, Detects(k) PROVE NothingLeft'
  <2>1. UNCHANGED <<now, lastLook, covered>> /\ windowStart' = windowStart
    BY <1>3 DEF Detects, windowStart
  <2>2. CASE covered
    BY <1>3, <2>1, <2>2 DEF Detects, Report, NothingLeft
  <2>3. CASE ~covered
    BY <2>1, <2>3 DEF NothingLeft
  <2> QED
    BY <2>2, <2>3
<1>4. ASSUME NEW l \in Lookers, NEW low \in BOOLEAN, LookStarts(l, low)
      PROVE  NothingLeft'
  <2>1. /\ UNCHANGED <<now, recorded, covered, reported>>
        /\ missed \subseteq missed'
        /\ lastLook' = IF low THEN lastLook ELSE now
    BY <1>4, LookStarted
  <2>2. windowStart <= windowStart' /\ windowStart' \in Nat
    <3>1. CASE low
      BY <1>t, <2>1, <3>1 DEF windowStart
    <3>2. CASE ~low
      <4>1. windowStart' = now
        BY <1>t, <2>1, <3>2, FeedAssumption DEF windowStart
      <4>2. windowStart <= now
        BY <1>t, <1>w DEF windowStart, LookInv, ClockInv
      <4> QED
        BY <1>t, <4>1, <4>2
    <3> QED
      BY <3>1, <3>2
  <2> QED
    BY <1>1, <2>1, <2>2
<1>5. ASSUME NEW l \in Lookers, LookEnds(l) \/ LookFails(l)
      PROVE  NothingLeft'
  <2>1. /\ UNCHANGED <<now, recorded, lastLook, covered>>
        /\ missed \subseteq missed'
    BY <1>5, LookEnded
  <2>2. reported \subseteq reported'
    <3>1. PICK E \in SUBSET recorded : Concludes(l, E)
      BY <1>5, WindowRecorded
    <3> QED
      BY <3>1, Conclusions
  <2>3. windowStart' = windowStart
    BY <2>1 DEF windowStart
  <2> QED
    BY <1>t, <1>1, <2>1, <2>2, <2>3
<1>6. CASE Cover
  <2>1. /\ UNCHANGED <<now, recorded, lastLook>>
        /\ missed' = missed \cup (windowStart..now)
    BY <1>6 DEF Cover, feed
  <2>2. windowStart' = windowStart
    BY <2>1 DEF windowStart
  <2> QED
    BY <1>t, <2>1, <2>2 DEF NothingLeft
<1>7. CASE Uncover
  BY <1>7 DEF Uncover, NothingLeft
<1>8. CASE UNCHANGED vars
  <2>1. UNCHANGED <<now, recorded, lastLook, covered, reported, missed>>
    BY <1>8 DEF vars, feed, history
  <2> QED
    BY <1>t, <1>1, <2>1 DEF windowStart
<1> QED
  BY <1>2, <1>3, <1>4, <1>5, <1>6, <1>7, <1>8 DEF Next

(* A look that starts reads what the cursor passes, or finds it let off.   *)
LEMMA StartedReads ==
  ASSUME Typed, LookInv, ReadInv, NEW l \in Lookers, NEW low \in BOOLEAN,
         LookStarts(l, low)
  PROVE  Ahead' /\ Pending'
<1>t. /\ now \in Nat /\ lastLook \in Nat \cup {None} /\ windowStart \in Nat
      /\ looks \in [Lookers -> Look \cup {None}]
      /\ \A d \in recorded : d.t \in 0..now
  BY WindowStartIsTime DEF Typed, FeedTypes, LookTypes
<1>1. \A d : Unreported(d)' => Unreported(d)
  BY LookStarted DEF Unreported
<1>2. Ahead'
  BY <1>1, LookStarted DEF ReadInv, Ahead
<1>3. ASSUME NEW d \in recorded, Unreported(d)', lastLook' # None,
             d.t < lastLook'
      PROVE  \E o \in Lookers : Reads(o)' /\ d.t \in Seconds(looks'[o])
  <2>1. Unreported(d) /\ d \notin reported /\ d.t \notin missed'
    BY <1>1, <1>3 DEF Unreported
  <2>2. ASSUME lastLook # None, d.t < lastLook
        PROVE  \E o \in Lookers \ {l} :
                 Reads(o) /\ d.t \in Seconds(looks[o])
    BY <2>1, <2>2, LookStarted DEF ReadInv, Pending
  <2>3. CASE low
    <3>1. lastLook' = lastLook
      BY <2>3, LookStarted
    <3>2. PICK o \in Lookers \ {l} : Reads(o) /\ d.t \in Seconds(looks[o])
      BY <1>3, <2>2, <3>1
    <3> QED
      BY <3>2, LookStarted DEF Reads, Seconds
  <2>4. CASE ~low
    <3>1. InFlight \cup Skipped \subseteq missed'
      BY <2>4 DEF LookStarts
    <3>2. ASSUME lastLook # None PROVE ~(d.t < lastLook)
      <4>1. SUFFICES ASSUME d.t < lastLook PROVE FALSE
        OBVIOUS
      <4>2. PICK o \in Lookers \ {l} : Reads(o) /\ d.t \in Seconds(looks[o])
        BY <2>2, <3>2, <4>1
      <4> QED
        BY <2>1, <3>1, <4>2 DEF InFlight
    <3>3. lastLook = None => d.t >= windowStart
      BY <1>t, <2>1, <3>1 DEF Skipped
    <3>4. d.t >= windowStart
      BY <1>t, <3>2, <3>3 DEF windowStart
    <3>5. ~covered
      BY <2>1, <3>4, LookStarted DEF ReadInv, NothingLeft
    <3>6. Reads(l)'
      BY <2>4, <3>5, LookStarted DEF Reads
    <3>7. d.t \in Seconds(looks'[l])
      BY <1>t, <3>4, LookStarted DEF Seconds
    <3> QED
      BY <3>6, <3>7
  <2> QED
    BY <2>3, <2>4
<1>4. Pending'
  BY <1>3, LookStarted DEF Pending
<1> QED
  BY <1>2, <1>4

(* A look that ends reports what it was the one to read: whoever else has  *)
(* to be read is in a later window, hence above what this one found.       *)
LEMMA EndedReads ==
  ASSUME Typed, LookInv, ReadInv, NEW l \in Lookers,
         LookEnds(l) \/ LookFails(l)
  PROVE  Ahead' /\ Pending'
<1> DEFINE read == LookEnds(l) /\ looks[l].reads /\ ~covered
<1> DEFINE E == IF LookEnds(l) /\ looks[l].reads
                  THEN {d \in recorded : d.t \in Seconds(looks[l])}
                  ELSE {}
<1>t. /\ now \in Nat /\ baseline \in Nat \cup {None}
      /\ watermark \in Nat \cup {None} /\ lastLook \in Nat \cup {None}
      /\ looks \in [Lookers -> Look \cup {None}]
      /\ \A d \in recorded : d.t \in 0..now
  BY DEF Typed, FeedTypes, LookTypes, StartTypes
<1>1. Concludes(l, E)
  <2>1. CASE LookEnds(l)
    BY <2>1 DEF LookEnds
  <2>2. CASE ~LookEnds(l)
    BY <2>2 DEF LookFails
  <2> QED
    BY <2>1, <2>2
<1>2. E \in SUBSET recorded
  OBVIOUS
<1>3. /\ UNCHANGED <<now, recorded, lastLook>>
      /\ looks[l] # None
      /\ \A o \in Lookers \ {l} : looks'[o] = looks[o]
      /\ missed \subseteq missed'
  BY LookEnded
<1>4. Reads(l) /\ ~read => Seconds(looks[l]) \subseteq missed'
  BY DEF LookEnds, LookFails, Reads
<1>5. CASE watermark = None /\ ~covered
  <2>1. baseline' = now
    <3> HIDE DEF E
    <3> QED
      BY <1>1, <1>2, <1>5, Conclusions
  <2>2. \A d \in recorded : ~Unreported(d)'
    BY <1>t, <2>1 DEF Unreported
  <2> QED
    BY <1>3, <2>2 DEF Ahead, Pending
<1>6. CASE watermark # None \/ covered
  <2>1. baseline' = baseline /\ reported \subseteq reported'
    <3> HIDE DEF E
    <3> QED
      BY <1>1, <1>2, <1>6, Conclusions
  <2>2. \A d : Unreported(d)' => Unreported(d)
    BY <1>3, <2>1 DEF Unreported
  <2>3. ASSUME NEW d \in recorded, Unreported(d), read,
               d.t \in Seconds(looks[l])
        PROVE  d \in reported'
    <3>1. d \in E
      BY <2>3
    <3>2. watermark # None
      BY <1>6, <2>3
    <3>3. d.t > watermark
      BY <2>3 DEF ReadInv, Ahead
    <3>4. ~covered
      BY <2>3
    <3> HIDE DEF E
    <3>5. ~(d.t <= watermark)
      BY <1>t, <3>2, <3>3
    <3> QED
      BY <1>1, <1>2, <3>1, <3>2, <3>3, <3>4, <3>5, Conclusions
  <2>4. ASSUME NEW d \in recorded, Unreported(d)', watermark' # watermark
        PROVE  d.t > watermark'
    <3> SUFFICES ASSUME ~(d.t > watermark') PROVE FALSE
      OBVIOUS
    <3>1. /\ ~covered /\ watermark # None /\ watermark' \in 0..now
          /\ \E e \in E : e.t = watermark'
      <4> HIDE DEF E
      <4> QED
        BY <1>1, <1>2, <1>6, <2>4, Conclusions
    <3>2. PICK e \in recorded :
            e.t = watermark' /\ e.t \in Seconds(looks[l])
      BY <3>1
    <3>3. read /\ Reads(l)
      BY <1>3, <3>1 DEF Reads
    <3>4. Unreported(d) /\ d.t \notin missed
      BY <1>3, <2>2, <2>4 DEF Unreported
    <3>5. d.t \notin Seconds(looks[l])
      BY <2>3, <2>4, <3>3, <3>4 DEF Unreported
    <3>6. /\ looks[l].since \in Nat /\ looks[l].upTo \in Nat
          /\ Full(l) /\ looks[l].upTo <= lastLook /\ lastLook # None
      BY <1>t, <1>3, <3>3 DEF Look, LookInv, LooksInv
    <3>7. d.t < looks[l].since /\ looks[l].since <= looks[l].upTo
      BY <1>t, <1>3, <3>1, <3>2, <3>5, <3>6 DEF Seconds
    <3>8. PICK o \in Lookers : Reads(o) /\ d.t \in Seconds(looks[o])
      BY <1>t, <3>4, <3>6, <3>7 DEF ReadInv, Pending
    <3>9. /\ o # l /\ Full(o) /\ looks[o].since \in Nat
          /\ looks[o].upTo \in Nat
          /\ looks[o].since <= d.t
      BY <1>t, <3>5, <3>8 DEF LookInv, LooksInv, Reads, Look, Seconds
    <3>10. After(l, o) \/ After(o, l)
      BY <3>6, <3>9 DEF LookInv, OneAfterAnother
    <3> QED
      BY <1>t, <3>4, <3>6, <3>7, <3>8, <3>9, <3>10 DEF After
  <2>5. Ahead'
    BY <1>3, <2>2, <2>4 DEF ReadInv, Ahead
  <2>6. ASSUME NEW d \in recorded, Unreported(d)', lastLook # None,
               d.t < lastLook
        PROVE  \E o \in Lookers : Reads(o)' /\ d.t \in Seconds(looks'[o])
    <3>1. PICK o \in Lookers : Reads(o) /\ d.t \in Seconds(looks[o])
      BY <2>2, <2>6 DEF ReadInv, Pending
    <3>2. o # l
      <4> SUFFICES ASSUME o = l PROVE FALSE
        OBVIOUS
      <4>1. read
        BY <1>4, <2>6, <3>1 DEF Unreported
      <4> QED
        BY <2>2, <2>3, <2>6, <3>1, <4>1 DEF Unreported
    <3> QED
      BY <1>3, <3>1, <3>2 DEF Reads, Seconds
  <2> QED
    BY <1>3, <2>5, <2>6 DEF Pending
<1> QED
  BY <1>5, <1>6

LEMMA ReadInvKept ==
  ASSUME Typed, LookInv, ReadInv, [Next]_vars
  PROVE  ReadInv'
<1>1. NothingLeft'
  BY NothingLeftKept DEF ReadInv
<1>2. ASSUME UNCHANGED <<recorded, watermark, lastLook, looks, baseline,
                         reported>>,
             missed \subseteq missed'
      PROVE  Ahead' /\ Pending'
  BY <1>2 DEF ReadInv, Ahead, Pending, Unreported, Reads, Seconds
<1>3. ASSUME Tick \/ Cover \/ Uncover \/ UNCHANGED vars
      PROVE  Ahead' /\ Pending'
  <2>1. /\ UNCHANGED <<recorded, watermark, lastLook, looks, baseline, reported>>
        /\ missed \subseteq missed'
    BY <1>3 DEF Tick, Cover, Uncover, vars, feed, history
  <2> QED
    BY <1>2, <2>1
<1>4. ASSUME NEW k \in Kinds, Detects(k) PROVE Ahead' /\ Pending'
  <2> DEFINE e == [t |-> now, kind |-> k]
  <2>1. /\ recorded' = recorded \cup {e}
        /\ UNCHANGED <<now, watermark, lastLook, looks, baseline>>
        /\ reported \subseteq reported' /\ missed \subseteq missed'
        /\ watermark = now => now \in missed'
    BY <1>4 DEF Detects, Report
  <2>2. \A d : Unreported(d)' => Unreported(d)
    BY <2>1 DEF Unreported
  <2>3. Unreported(e)' => e.t > watermark
    <3> SUFFICES ASSUME Unreported(e)' PROVE now > watermark
      OBVIOUS
    <3>1. watermark # None /\ watermark # now
      BY <2>1, FeedAssumption DEF Unreported, LookInv, ClockInv
    <3>2. watermark \in Nat /\ now \in Nat /\ watermark <= now
      BY <3>1 DEF Typed, FeedTypes, LookInv, ClockInv
    <3> QED
      BY <3>1, <3>2
  <2>4. lastLook # None => ~(e.t < lastLook)
    BY DEF LookInv, ClockInv, Typed, FeedTypes, LookTypes
  <2>5. Ahead'
    BY <2>1, <2>2, <2>3 DEF ReadInv, Ahead
  <2>6. Pending'
    BY <2>1, <2>2, <2>4 DEF ReadInv, Pending, Reads, Seconds
  <2> QED
    BY <2>5, <2>6
<1>5. ASSUME NEW l \in Lookers, NEW low \in BOOLEAN, LookStarts(l, low)
      PROVE  Ahead' /\ Pending'
  BY <1>5, StartedReads
<1>6. ASSUME NEW l \in Lookers, LookEnds(l) \/ LookFails(l)
      PROVE  Ahead' /\ Pending'
  BY <1>6, EndedReads
<1>7. Ahead' /\ Pending'
  BY <1>3, <1>4, <1>5, <1>6 DEF Next
<1> QED
  BY <1>1, <1>7 DEF ReadInv

(* ReportsSinceStart: history fires nothing after a sound start, and what  *)
(* comes after it is reported, for any lookers, windows and clock.         *)
THEOREM ReportsSinceStartHolds == Spec => []ReportsSinceStart
<1> DEFINE Inv == LookInv /\ StartInv /\ ReadInv
<1>1. Init => Inv
  <2> SUFFICES ASSUME Init PROVE Inv
    OBVIOUS
  <2>1. \A l \in Lookers : looks[l] = None
    BY DEF Init
  <2>2. LookInv
    BY <2>1, FeedAssumption DEF Init, LookInv, ClockInv, LooksInv,
       OneAfterAnother, Full
  <2>3. StartInv /\ ReadInv
    BY <2>1 DEF Init, StartInv, SoundStart, NoHistory, ReadInv, Ahead, Pending,
       NothingLeft, Unreported
  <2> QED
    BY <2>2, <2>3
<1>2. Typed /\ Inv /\ [Next]_vars => Inv'
  BY LookInvKept, StartInvKept, ReadInvKept
<1>3. Typed /\ Inv => ReportsSinceStart
  <2> SUFFICES ASSUME Typed, Inv PROVE ReportsSinceStart
    OBVIOUS
  <2>1. ASSUME AllAnswered, NEW d \in Elapsed
        PROVE  d \in reported \/ d.t \in missed
    <3>1. \A l \in Lookers : ~Reads(l)
      BY <2>1 DEF AllAnswered, Reads
    <3> QED
      BY <2>1, <3>1 DEF Elapsed, ReadInv, Pending, Unreported
  <2>2. ASSUME start \notin {"low", "overtaking"}, NEW d \in reported
        PROVE  d.t >= StartTime
    <3>1. d.t \in Nat /\ StartTime \in Nat
      BY <2>2, FeedAssumption DEF Typed, FeedTypes
    <3> QED
      BY <2>2, <3>1 DEF StartInv, NoHistory
  <2> QED
    BY <2>1, <2>2 DEF ReportsSinceStart
<1>4. Spec => []Typed
  <2>1. TypeOK /\ FeedTypes => Typed
    <3> SUFFICES ASSUME TypeOK, FeedTypes PROVE Typed
      OBVIOUS
    <3>1. LookTypes
      BY DEF TypeOK, LookTypes
    <3>2. StartTypes
      BY DEF TypeOK, StartTypes
    <3> QED
      BY <3>1, <3>2 DEF Typed
  <2> QED
    BY <2>1, TypeCorrect, FeedTypesHold, PTL
<1> QED
  BY <1>1, <1>2, <1>3, <1>4, PTL DEF Spec
===========================================================================
