--------------------------- MODULE MotionSensor ---------------------------
(***************************************************************************)
(* The motion sensor of one camera, as the event watcher of                *)
(* src/tapo/events.js drives it: edges pushed by the camera over ONVIF or  *)
(* found by the poll, the publication of a state to the Gladys host, the   *)
(* record of what the host accepted, the fall held back for two seconds    *)
(* and the reset armed as a safety net.                                    *)
(*                                                                         *)
(* A publication is a call in flight, of one of four handlers, first on    *)
(* its way to the host (sent), then with its answer on the way back        *)
(* (taken).  The host takes calls in any order and their answers come in   *)
(* any order; until its answer comes back, the rest of the handler that    *)
(* made a call has not run.  Timers carry no clock: an armed timer may     *)
(* fire at any moment.                                                     *)
(***************************************************************************)
EXTENDS Naturals

CONSTANTS
  MaxNotices,      \* bound: notifications and polled motions of a behaviour
  MaxRestarts,     \* bound: restarts of the watcher in a behaviour
  NoState          \* "nothing in this map for the camera"

MotionAssumption ==
  /\ MaxNotices \in Nat
  /\ MaxRestarts \in Nat
  /\ NoState \notin {0, 1}

VARIABLES
  shown,         \* the state Gladys shows for the motion feature
  motionStates,  \* last state the host accepted
  motionPending, \* state handed to the host and not yet acknowledged
  sent,          \* publishState calls on their way, by who made them
  taken,         \* those the host took, their answers on the way
  fallArmed,     \* the camera has an entry in motionFalls
  resetArmed,    \* the camera has an entry in motionResets
  raised,        \* history: the state shown came from this watcher
  dropped,       \* history: a restart, or a 0 of the reset the host did not
                 \* acknowledge, took the safety net away, and none was
                 \* armed since
  late,          \* history: the answer to a fall disarmed the reset of a
                 \* motion shown after it, and none was armed since
  overtaken,     \* history: the last acknowledged state is not known to be
                 \* the last the host took
  notices,       \* notifications handled so far
  restarts       \* restarts so far

calls == <<sent, taken>>
history == <<raised, dropped, late, overtaken>>
vars == <<shown, motionStates, motionPending, calls, fallArmed, resetArmed,
          history, notices, restarts>>

State == {0, 1}
Known == State \cup {NoState}

Raising == {"rise", "poll"}
Lowering == {"fall", "reset"}
Sources == Raising \cup Lowering
Value(s) == IF s \in Raising THEN 1 ELSE 0

FlagsOK ==
  /\ fallArmed \in BOOLEAN
  /\ resetArmed \in BOOLEAN
  /\ raised \in BOOLEAN
  /\ dropped \in BOOLEAN
  /\ late \in BOOLEAN
  /\ overtaken \in BOOLEAN

DataOK ==
  /\ shown \in State
  /\ motionStates \in Known
  /\ motionPending \in Known
  /\ sent \in [Sources -> Nat]
  /\ taken \in [Sources -> Nat]
  /\ notices \in Nat
  /\ restarts \in Nat

TypeOK == FlagsOK /\ DataOK

Init ==
  /\ shown \in State
  /\ motionStates = NoState
  /\ motionPending = NoState
  /\ sent = [s \in Sources |-> 0]
  /\ taken = [s \in Sources |-> 0]
  /\ fallArmed = FALSE
  /\ resetArmed = FALSE
  /\ raised = FALSE
  /\ dropped = FALSE
  /\ late = FALSE
  /\ overtaken = FALSE
  /\ notices = 0
  /\ restarts = 0

---------------------------------------------------------------------------
(* What Gladys is believed to show, a call in flight included.             *)
currentMotion ==
  IF motionPending # NoState THEN motionPending ELSE motionStates

(* The part of publishMotion before its await: the intent is recorded and  *)
(* the call handed to the host.                                            *)
StartPublish(source) ==
  /\ motionPending' = Value(source)
  /\ sent' = [sent EXCEPT ![source] = @ + 1]
  /\ UNCHANGED taken

CountNotice ==
  /\ notices < MaxNotices
  /\ notices' = notices + 1

ArmReset == resetArmed' = TRUE /\ dropped' = FALSE /\ late' = FALSE

(* The camera says a motion is going on: a held-back fall is cancelled, a  *)
(* change is published, and otherwise the safety net is re-armed at once.  *)
OnvifActive ==
  /\ CountNotice
  /\ fallArmed' = FALSE
  /\ \/ /\ currentMotion # 1
        /\ StartPublish("rise")
        /\ UNCHANGED <<resetArmed, dropped, late>>
     \/ /\ currentMotion = 1
        /\ ArmReset
        /\ UNCHANGED <<motionPending, calls>>
  /\ UNCHANGED <<shown, raised, overtaken, motionStates, restarts>>

(* The camera says the motion stopped: the fall waits.                     *)
OnvifInactive ==
  /\ CountNotice
  /\ currentMotion = 1
  /\ ~fallArmed
  /\ fallArmed' = TRUE
  /\ UNCHANGED <<shown, history, motionStates, motionPending, calls, resetArmed,
                 restarts>>

(* The poll found a new motion: it publishes whatever it believes shown.   *)
PolledMotion ==
  /\ CountNotice
  /\ StartPublish("poll")
  /\ UNCHANGED <<shown, history, motionStates, fallArmed, resetArmed, restarts>>

FallFires ==
  /\ fallArmed
  /\ fallArmed' = FALSE
  /\ StartPublish("fall")
  /\ UNCHANGED <<shown, history, motionStates, resetArmed, notices, restarts>>

ResetFiresIfRecorded ==
  /\ resetArmed
  /\ resetArmed' = FALSE
  /\ IF motionStates = 1
       THEN StartPublish("reset")
       ELSE UNCHANGED <<motionPending, calls>>
  /\ UNCHANGED <<shown, history, motionStates, fallArmed, notices, restarts>>

ResetFires ==
  /\ resetArmed
  /\ resetArmed' = FALSE
  /\ StartPublish("reset")
  /\ UNCHANGED <<shown, history, motionStates, fallArmed, notices, restarts>>

ContinueAlwaysDisarms(source, accepted) ==
  \/ source \in Raising /\ ArmReset
  \/ /\ source = "fall"
     /\ resetArmed' = FALSE
     /\ late' = (late \/ (accepted /\ resetArmed /\ shown = 1))
     /\ UNCHANGED dropped
  \/ /\ source = "reset"
     /\ dropped' = (dropped \/ (~accepted /\ ~resetArmed))
     /\ UNCHANGED <<resetArmed, late>>

(* What the handler does once publishMotion returned: a rise and a polled  *)
(* motion arm the safety net whatever the host said, a fall disarms it     *)
(* only when the 0 landed, whatever is shown by then.                      *)
Continue(source, accepted) ==
  \/ source \in Raising /\ ArmReset
  \/ /\ source = "fall"
     /\ resetArmed' = (resetArmed /\ ~accepted)
     /\ late' = (late \/ (accepted /\ resetArmed /\ shown = 1))
     /\ UNCHANGED dropped
  \/ /\ source = "reset"
     /\ dropped' = (dropped \/ (~accepted /\ ~resetArmed))
     /\ UNCHANGED <<resetArmed, late>>

(* publishMotion drops the pending entry when it holds the value of the    *)
(* call that ends.                                                         *)
Release(value) ==
  motionPending' = IF motionPending = value THEN NoState ELSE motionPending

(* The host takes a call: Gladys shows its state.                          *)
Takes(s) ==
  /\ sent[s] > 0
  /\ sent' = [sent EXCEPT ![s] = @ - 1]
  /\ taken' = [taken EXCEPT ![s] = @ + 1]
  /\ shown' = Value(s)
  /\ raised' = TRUE
  /\ UNCHANGED <<motionStates, motionPending, fallArmed, resetArmed, dropped,
                 late, overtaken, notices, restarts>>

(* The answer: the host took the state.                                    *)
Accepted(s) ==
  /\ taken[s] > 0
  /\ taken' = [taken EXCEPT ![s] = @ - 1]
  /\ motionStates' = Value(s)
  /\ overtaken' = (shown # Value(s))
  /\ Release(Value(s))
  /\ Continue(s, TRUE)
  /\ UNCHANGED <<shown, raised, sent, fallArmed, notices, restarts>>

RefusedRecords(s) ==
  /\ sent[s] > 0
  /\ sent' = [sent EXCEPT ![s] = @ - 1]
  /\ motionStates' = Value(s)
  /\ Release(Value(s))
  /\ Continue(s, FALSE)
  /\ UNCHANGED <<shown, raised, overtaken, taken, fallArmed, notices, restarts>>

(* The host turned the state down, for example over its rate limit.        *)
Refused(s) ==
  /\ sent[s] > 0
  /\ sent' = [sent EXCEPT ![s] = @ - 1]
  /\ Release(Value(s))
  /\ Continue(s, FALSE)
  /\ UNCHANGED <<shown, raised, overtaken, motionStates, taken, fallArmed,
                 notices, restarts>>

(* The host took the state and its answer was lost: an error for the       *)
(* caller, whose record is wrong if no other call was taken since.         *)
AnswerLost(s) ==
  /\ taken[s] > 0
  /\ taken' = [taken EXCEPT ![s] = @ - 1]
  /\ overtaken' = (overtaken \/ shown = Value(s))
  /\ Release(Value(s))
  /\ Continue(s, FALSE)
  /\ UNCHANGED <<shown, raised, motionStates, sent, fallArmed, notices,
                 restarts>>

(* start() on a running watcher goes through stop(), which clears both     *)
(* timers; the calls in flight and the two maps stay.                      *)
Restart ==
  /\ restarts < MaxRestarts
  /\ restarts' = restarts + 1
  /\ fallArmed' = FALSE
  /\ resetArmed' = FALSE
  /\ dropped' = TRUE
  /\ UNCHANGED <<shown, raised, late, overtaken, motionStates, motionPending,
                 calls, notices>>

Next ==
  \/ OnvifActive
  \/ OnvifInactive
  \/ PolledMotion
  \/ FallFires
  \/ ResetFires
  \/ \E s \in Sources : Takes(s) \/ Accepted(s) \/ Refused(s) \/ AnswerLost(s)
  \/ Restart

Spec == Init /\ [][Next]_vars

---------------------------------------------------------------------------
InFlight(S) == \E s \in S : sent[s] > 0 \/ taken[s] > 0

(* Something is still going to bring the sensor down, or to arm what will. *)
NetHeld == resetArmed \/ InFlight(Raising \cup {"reset"})

(* SafetyNet: once this watcher published anything, a motion Gladys shows  *)
(* always has a safety net behind it, whatever the camera leaves out,      *)
(* however falls, resets and new motions overlap and in whatever order the *)
(* host takes and answers their calls (events.js, the reset "still armed   *)
(* as the fallback for a camera that never reports the end").  A restart   *)
(* of the watcher, a reset the host does not acknowledge and the answer to *)
(* a fall that comes after a later motion take it away, until the next     *)
(* motion arms it again.                                                   *)
SafetyNet == shown = 1 /\ raised => NetHeld \/ dropped \/ late

(* NetKept: the same, as the code says it: only a 0 that did not land, or  *)
(* a restart, leaves a motion with nothing to bring it back down.          *)
NetKept == shown = 1 /\ raised => NetHeld \/ dropped

(* NeverDeaf: a motion is filtered out as already shown only while it is,  *)
(* or for as long as the safety net needs to clear the record.  While the  *)
(* record says 1 something is bound to lower it, whatever the order of the *)
(* answers; and once no call is on its way a record of 1 is what Gladys    *)
(* shows, but when it was left by an answer another call had overtaken, or *)
(* not corrected by one that was lost (publishMotion: a value the host     *)
(* never received "silences the sensor for good").                         *)
NeverDeaf ==
  currentMotion = 1 =>
    /\ NetHeld \/ dropped
    /\ ~InFlight(Sources) /\ ~overtaken => shown = 1

(* MotionComesDown: a motion feature this watcher raised comes back down,  *)
(* otherwise "it stays motion detected forever" (events.js:16), as long as *)
(* its safety net is not taken away.                                       *)
MotionComesDown ==
  (shown = 1 /\ raised) ~> (shown = 0 \/ dropped \/ late)
===========================================================================
