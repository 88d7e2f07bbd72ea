------------------------- MODULE CameraCaptureProofs -------------------------
(***************************************************************************)
(* For any callers, any number of captures, commands and failures: a       *)
(* capture started by a scheduled caller never wakes the camera before its *)
(* interval.                                                               *)
(*                                                                         *)
(* The interval is read when the capture is asked for and stamped when the *)
(* camera is woken.  Between the two only another capture could stamp it,  *)
(* and there is no other: everyone who asks meanwhile shares this one.     *)
(***************************************************************************)
EXTENDS CameraCapture, TLAPS

Shapes ==
  /\ due \in BOOLEAN
  /\ captures \subseteq Capture
  /\ asks \in Nat

(* At most one capture is in flight.                                       *)
OneCapture == \A k, l \in captures : k = l

(* The interval of a scheduled capture that is still locating has passed.  *)
LocatingIsDue ==
  \A k \in captures : k.by \in Scheduled /\ k.phase = "locating" => due

IInv == Shapes /\ OneCapture /\ LocatingIsDue

(* The steps of the private mode and of the guard leave the captures alone.*)
ModeStep ==
  \/ TapoAppToggles \/ PollStarts \/ PollReads \/ PollFails \/ PollApplies
  \/ PollShown \/ PollRefused
  \/ \E enabled \in BOOLEAN : Command(enabled)
  \/ CommandApplied \/ CommandReturns \/ CommandShown \/ CommandFails
  \/ CommandRefused
  \/ PolicyChanges

LEMMA ModeStepKeeps == ModeStep => UNCHANGED <<due, captures, waiting, asks>>
BY DEF ModeStep, TapoAppToggles, PollStarts, PollReads, PollFails,
       PollApplies, PollShown, PollRefused, Command, CommandApplied,
       CommandReturns, CommandShown, CommandFails, CommandRefused,
       PolicyChanges, capturing, bounds

LEMMA IInvInductive ==
  /\ Init => IInv
  /\ IInv /\ [Next]_vars => IInv'
<1>1. Init => IInv
  BY DEF Init, IInv, Shapes, OneCapture, LocatingIsDue
<1>2. IInv /\ [Next]_vars => IInv'
  <2> SUFFICES ASSUME IInv, [Next]_vars PROVE IInv'
    OBVIOUS
  <2> USE DEF IInv
  <2>1. CASE ModeStep \/ UNCHANGED vars
    <3>1. UNCHANGED <<due, captures>>
      BY <2>1, ModeStepKeeps DEF vars, capturing
    <3>2. asks' = asks
      BY <2>1, ModeStepKeeps DEF vars, bounds
    <3> QED
      BY <3>1, <3>2 DEF Shapes, OneCapture, LocatingIsDue
  <2>2. CASE Elapses
    BY <2>2 DEF Elapses, Shapes, OneCapture, LocatingIsDue, bounds
  <2>3. ASSUME NEW c \in Callers, Ask(c) PROVE IInv'
    <3>1. due' = due /\ asks' \in Nat
      BY <2>3 DEF Ask, Shapes
    <3>2. CASE captures' = captures
      BY <3>1, <3>2 DEF Shapes, OneCapture, LocatingIsDue
    <3>3. CASE captures' = {[by |-> c, phase |-> "locating"]}
      <4>1. captures' \subseteq Capture /\ OneCapture'
        BY <3>3 DEF Capture, OneCapture
      <4>2. c \in Scheduled => due
        BY <2>3 DEF Ask, Passes
      <4>3. LocatingIsDue'
        BY <3>1, <3>3, <4>2 DEF LocatingIsDue
      <4> QED
        BY <3>1, <4>1, <4>3 DEF Shapes
    <3> QED
      BY <2>3, <3>2, <3>3 DEF Ask
  <2>4. ASSUME NEW k \in captures, LocateFails(k) \/ CaptureEnds(k) PROVE IInv'
    <3>1. captures' = captures \ {k} /\ due' = due /\ asks' = asks
      BY <2>4 DEF LocateFails, CaptureEnds, bounds
    <3> QED
      BY <3>1 DEF Shapes, OneCapture, LocatingIsDue
  <2>5. ASSUME NEW k \in captures, Wake(k) PROVE IInv'
    <3> DEFINE awake == [k EXCEPT !.phase = "awake"]
    <3>1. k \in Capture /\ captures = {k}
      BY DEF Shapes, OneCapture
    <3>2. captures' = {awake} /\ due' = FALSE /\ asks' = asks
      BY <2>5, <3>1 DEF Wake, bounds
    <3>3. awake \in Capture /\ awake.phase = "awake"
      BY <3>1 DEF Capture
    <3> QED
      BY <3>2, <3>3 DEF Shapes, OneCapture, LocatingIsDue
  <2> QED
    BY <2>1, <2>2, <2>3, <2>4, <2>5 DEF Next, ModeStep
<1> QED
  BY <1>1, <1>2

(* The pace of the scheduled captures, for every value of the constants.   *)
THEOREM ScheduledAtPaceHolds == Spec => ScheduledAtPace
<1>1. IInv => [\A k \in captures : Wake(k) /\ k.by \in Scheduled => due]_vars
  BY DEF IInv, LocatingIsDue, Wake
<1> QED
  BY <1>1, IInvInductive, PTL DEF Spec, ScheduledAtPace

(* Types.  Someone waits exactly while a capture is in flight, which needs *)
(* OneCapture: the capture that ends is the only one.                      *)
ModeTypes ==
  /\ {hasMask, mask, gate} \subseteq BOOLEAN
  /\ {privacy, override} \subseteq BOOLEAN \cup {None}
  /\ poll \in Readings
  /\ command \in Commands \cup {None}
  /\ policy \in {"all", "onDemand", "blocked"}

WaitingTypes ==
  /\ waiting \subseteq Callers
  /\ (captures = {}) = (waiting = {})

BoundTypes == {asks, commands, toggles, failures} \subseteq Nat

LEMMA ModeTypesKept ==
  ASSUME ModeTypes, [Next]_vars
  PROVE  ModeTypes'
<1> USE DEF ModeTypes
<1>1. CASE TapoAppToggles
  BY <1>1 DEF TapoAppToggles
<1>2. CASE PollStarts \/ PollReads \/ PollFails
  BY <1>2 DEF PollStarts, PollReads, PollFails, Readings
<1>3. CASE PollApplies
  BY <1>3 DEF PollApplies, Shows, Readings
<1>4. CASE PollShown \/ PollRefused
  BY <1>4 DEF PollShown, PollRefused, Readings
<1>5. ASSUME NEW enabled \in BOOLEAN, Command(enabled) PROVE ModeTypes'
  <2>1. command' \in Commands
    BY <1>5 DEF Command, Commands
  <2> QED
    BY <1>5, <2>1 DEF Command
<1>6. CASE CommandApplied
  <2>1. command' \in Commands
    BY <1>6 DEF CommandApplied, Commands
  <2> QED
    BY <1>6, <2>1 DEF CommandApplied, Commands
<1>7. CASE CommandReturns
  <2>1. command \in Commands /\ command.enabled \in BOOLEAN
    BY <1>7 DEF CommandReturns, Commands
  <2>2. command' \in Commands \cup {None}
    BY <1>7, <2>1 DEF CommandReturns, Commands
  <2> QED
    BY <1>7, <2>1, <2>2 DEF CommandReturns
<1>8. CASE CommandShown
  <2>1. command.enabled \in BOOLEAN
    BY <1>8 DEF CommandShown, Commands
  <2> QED
    BY <1>8, <2>1 DEF CommandShown
<1>9. CASE CommandFails \/ CommandRefused
  BY <1>9 DEF CommandFails, CommandRefused
<1>10. CASE PolicyChanges
  BY <1>10 DEF PolicyChanges, private
<1>11. CASE \/ Elapses \/ UNCHANGED vars \/ \E c \in Callers : Ask(c)
            \/ \E k \in captures : LocateFails(k) \/ Wake(k) \/ CaptureEnds(k)
  BY <1>11 DEF Elapses, Ask, LocateFails, Wake, CaptureEnds, private, vars
<1> QED
  BY <1>1, <1>2, <1>3, <1>4, <1>5, <1>6, <1>7, <1>8, <1>9, <1>10, <1>11
  DEF Next

LEMMA WaitingTypesKept ==
  ASSUME IInv, WaitingTypes, [Next]_vars
  PROVE  WaitingTypes'
<1> USE DEF WaitingTypes
<1>1. CASE ModeStep \/ Elapses \/ UNCHANGED vars
  <2>1. UNCHANGED <<captures, waiting>>
    BY <1>1, ModeStepKeeps DEF Elapses, vars, capturing
  <2> QED
    BY <2>1
<1>2. ASSUME NEW c \in Callers, Ask(c) PROVE WaitingTypes'
  <2>1. captures' # {} /\ waiting' = waiting \cup {c}
    BY <1>2 DEF Ask
  <2> QED
    BY <2>1
<1>3. ASSUME NEW k \in captures, LocateFails(k) \/ CaptureEnds(k)
      PROVE  WaitingTypes'
  <2>1. captures' = {}
    BY <1>3 DEF LocateFails, CaptureEnds, IInv, OneCapture
  <2>2. waiting' = {}
    BY <1>3, <2>1 DEF LocateFails, CaptureEnds
  <2> QED
    BY <2>1, <2>2
<1>4. ASSUME NEW k \in captures, Wake(k) PROVE WaitingTypes'
  BY <1>4 DEF Wake
<1> QED
  BY <1>1, <1>2, <1>3, <1>4 DEF Next, ModeStep

LEMMA BoundTypesKept ==
  ASSUME BoundTypes, [Next]_vars
  PROVE  BoundTypes'
<1> USE DEF BoundTypes, bounds
<1>1. CASE \/ TapoAppToggles \/ PollStarts \/ PollReads \/ PollFails
           \/ PollApplies \/ PollShown \/ PollRefused
  BY <1>1 DEF TapoAppToggles, PollStarts, PollReads, PollFails, PollApplies,
              PollShown, PollRefused
<1>2. CASE \/ CommandApplied \/ CommandReturns \/ CommandShown
           \/ CommandFails \/ CommandRefused
           \/ \E enabled \in BOOLEAN : Command(enabled)
  BY <1>2 DEF CommandApplied, CommandReturns, CommandShown, CommandFails,
              CommandRefused, Command
<1>3. CASE PolicyChanges \/ Elapses \/ UNCHANGED vars
  BY <1>3 DEF PolicyChanges, Elapses, vars
<1>4. CASE \/ \E c \in Callers : Ask(c)
           \/ \E k \in captures : LocateFails(k) \/ Wake(k) \/ CaptureEnds(k)
  BY <1>4 DEF Ask, LocateFails, Wake, CaptureEnds
<1> QED
  BY <1>1, <1>2, <1>3, <1>4 DEF Next

(* TypeCorrect: someone awaits a capture exactly while one is in flight    *)
(* (app.js, captureDeviceImage), and the others keep their types.          *)
THEOREM TypeCorrect == Spec => []TypeOK
<1> DEFINE Types == ModeTypes /\ WaitingTypes /\ BoundTypes
<1>1. Init => Types
  <2> SUFFICES ASSUME Init PROVE Types
    OBVIOUS
  <2>1. hasMask \in BOOLEAN /\ mask \in BOOLEAN /\ gate \in BOOLEAN
    BY DEF Init
  <2>2. ModeTypes
    BY <2>1 DEF Init, ModeTypes, Readings
  <2>3. WaitingTypes
    BY DEF Init, WaitingTypes
  <2>4. BoundTypes
    BY DEF Init, BoundTypes
  <2> QED
    BY <2>2, <2>3, <2>4
<1>2. IInv /\ Types /\ [Next]_vars => Types'
  BY ModeTypesKept, WaitingTypesKept, BoundTypesKept
<1>3. IInv /\ Types => TypeOK
  BY DEF IInv, Shapes, ModeTypes, WaitingTypes, BoundTypes, TypeOK
<1> QED
  BY <1>1, <1>2, <1>3, IInvInductive, PTL DEF Spec
=============================================================================
