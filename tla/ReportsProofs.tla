----------------------------- MODULE ReportsProofs -----------------------------
(***************************************************************************)
(* Proofs about what the devices report of their own accord: each          *)
(* component of MCReports, for every value of its constants.               *)
(*                                                                         *)
(* The components keep no state in common, so a step of one is a step of   *)
(* it or a stutter for each (ComponentSteps), and each has its own         *)
(* inductive invariant: LinkInv for the transports, ButtonInv for the log  *)
(* of presses, SwitchInv for the value and its badge, PullInv for the      *)
(* subscription of a pulling client.                                       *)
(***************************************************************************)
EXTENDS MCReports, SequenceTheorems, FiniteSetTheorems, TLAPS

LEMMA ComponentSteps ==
  ASSUME [Next]_vars
  PROVE  /\ [O!Next]_(O!vars) /\ [W!Next]_(W!vars) /\ [S!Next]_(S!vars)
         /\ [T!Next]_(T!vars)
         /\ [M!Next]_(M!vars) /\ [B!Next]_(B!vars) /\ [E!Next]_(E!vars)
<1>1. /\ UNCHANGED pullPoint => UNCHANGED O!vars
      /\ UNCHANGED sensor => UNCHANGED W!vars
      /\ UNCHANGED scenes => UNCHANGED S!vars
      /\ UNCHANGED link => UNCHANGED T!vars
  BY DEF pullPoint, O!vars, O!client, O!camera, O!net, O!bounds,
         sensor, W!vars, W!calls, W!history, scenes, S!vars, link, T!vars, T!device,
         T!link, T!progress, T!bounds
<1>2. /\ UNCHANGED switch => UNCHANGED M!vars
      /\ UNCHANGED button => UNCHANGED B!vars
      /\ UNCHANGED plug => UNCHANGED E!vars
  BY DEF switch, M!vars, M!plug, M!record, M!rounds, M!badges, M!bounds,
         button, B!vars, B!seen, B!facts, B!counters,
         plug, E!vars, E!meter, E!index, E!roundState, E!energyBounds
<1>3. CASE Watches(O!Next) \/ Senses(W!Next) \/ Fires(S!Next)
  BY <1>1, <1>2, <1>3 DEF Watches, Senses, Fires
<1>4. CASE Reaches(T!Next) \/ Polls(M!Next)
  BY <1>1, <1>2, <1>4 DEF Reaches, Polls
<1>5. CASE Presses(B!Next) \/ Meters(E!Next)
  BY <1>1, <1>2, <1>5 DEF Presses, Meters
<1>6. CASE UNCHANGED vars
  BY <1>1, <1>2, <1>6 DEF vars
<1> QED
  BY <1>3, <1>4, <1>5, <1>6 DEF Next

LEMMA Initially ==
  Init => /\ O!Init /\ W!Init /\ S!Init /\ T!Init
          /\ M!Init /\ B!Init /\ E!Init
BY DEF Init

LEMMA Assumed ==
  /\ O!ClientAssumption /\ W!MotionAssumption /\ S!SceneAssumption
  /\ T!SmartClientAssumption /\ M!SmartAssumption
  /\ B!ButtonAssumption /\ E!EnergyAssumption
BY ReportsAssumption

---------------------------------------------------------------------------
(* MotionSensor: whatever the host does with each call, in whatever order, *)
(* for every number of notifications and restarts.                         *)

(* A call more on its way, or one less, and those of the others as before. *)
LEMMA CallCounts ==
  ASSUME NEW f \in [W!Sources -> Nat], NEW s \in W!Sources
  PROVE  /\ [f EXCEPT ![s] = @ + 1] \in [W!Sources -> Nat]
         /\ [f EXCEPT ![s] = @ + 1][s] > 0
         /\ \A t \in W!Sources : f[t] > 0 => [f EXCEPT ![s] = @ + 1][t] > 0
         /\ f[s] > 0 => [f EXCEPT ![s] = @ - 1] \in [W!Sources -> Nat]
         /\ \A t \in W!Sources : t # s => [f EXCEPT ![s] = @ - 1][t] = f[t]
  OBVIOUS

LEMMA FourSources ==
  /\ W!Sources = {"rise", "poll", "fall", "reset"}
  /\ \A s \in W!Sources : W!Value(s) \in W!State
  /\ \A s \in W!Sources : W!Value(s) = 1 <=> s \in {"rise", "poll"}
  BY DEF W!Sources, W!Raising, W!Lowering, W!Value, W!State

(* The timers are armed or not, whatever the host answers.                 *)
LEMMA FlagsCorrect == Spec => []W!FlagsOK
<1>1. W!Init => W!FlagsOK
  BY DEF W!Init, W!FlagsOK
<1>2. W!FlagsOK /\ [W!Next]_(W!vars) => W!FlagsOK'
  <2> SUFFICES ASSUME W!FlagsOK, [W!Next]_(W!vars) PROVE W!FlagsOK'
    OBVIOUS
  <2> USE DEF W!FlagsOK
  <2>1. CASE \/ W!OnvifActive \/ W!OnvifInactive \/ W!PolledMotion
             \/ W!FallFires \/ W!ResetFires \/ W!Restart \/ UNCHANGED W!vars
    BY <2>1 DEF W!vars, W!OnvifActive, W!OnvifInactive, W!PolledMotion,
       W!FallFires, W!ResetFires, W!Restart, W!ArmReset, W!history
  <2>2. ASSUME NEW s \in W!Sources,
               W!Takes(s) \/ W!Accepted(s) \/ W!Refused(s) \/ W!AnswerLost(s)
        PROVE  W!FlagsOK'
    BY <2>2 DEF W!Takes, W!Accepted, W!Refused, W!AnswerLost, W!Continue,
       W!ArmReset
  <2> QED
    BY <2>1, <2>2 DEF W!Next
<1> QED
  BY <1>1, <1>2, Initially, ComponentSteps, PTL DEF Spec

(* The maps of the watcher, the calls in flight and the state of the       *)
(* feature only ever hold what their types say.                            *)
LEMMA SensorTyped == Spec => []W!TypeOK
<1>1. W!Init => W!DataOK
  BY DEF W!Init, W!DataOK, W!Known
<1>2. W!DataOK /\ [W!Next]_(W!vars) => W!DataOK'
  <2> SUFFICES ASSUME W!DataOK, [W!Next]_(W!vars)
               PROVE  W!DataOK'
    OBVIOUS
  <2> USE DEF W!DataOK
  <2>1. ASSUME NEW s \in W!Sources, W!StartPublish(s)
        PROVE  /\ motionPending' \in W!Known
               /\ sent' \in [W!Sources -> Nat] /\ taken' = taken
    BY <2>1, CallCounts, FourSources DEF W!StartPublish, W!Known
  <2>2. {"rise", "poll", "fall", "reset"} \subseteq W!Sources
    BY FourSources
  <2>3. CASE W!OnvifActive
    <3>1. CASE W!StartPublish("rise")
      BY <2>1, <2>2, <2>3, <3>1 DEF W!OnvifActive, W!CountNotice
    <3>2. CASE UNCHANGED <<motionPending, sent, taken>>
      BY <2>3, <3>2 DEF W!OnvifActive, W!CountNotice
    <3> QED BY <2>3, <3>1, <3>2 DEF W!OnvifActive, W!calls
  <2>4. CASE W!OnvifInactive
    BY <2>4 DEF W!OnvifInactive, W!CountNotice, W!calls
  <2>5. CASE W!PolledMotion
    BY <2>1, <2>2, <2>5 DEF W!PolledMotion, W!CountNotice
  <2>6. CASE W!FallFires
    BY <2>1, <2>2, <2>6 DEF W!FallFires
  <2>7. CASE W!ResetFires
    BY <2>1, <2>2, <2>7 DEF W!ResetFires
  <2>8. ASSUME NEW s \in W!Sources, W!Takes(s) PROVE W!DataOK'
    BY <2>8, CallCounts, FourSources DEF W!Takes
  <2>9. ASSUME NEW s \in W!Sources,
               W!Accepted(s) \/ W!Refused(s) \/ W!AnswerLost(s)
        PROVE  W!DataOK'
    <3>1. motionPending' \in W!Known
      BY <2>9 DEF W!Accepted, W!Refused, W!AnswerLost, W!Release, W!Known
    <3>2. motionStates' \in W!Known
      BY <2>9, FourSources DEF W!Accepted, W!Refused, W!AnswerLost, W!Known
    <3>3. \/ /\ sent[s] > 0 /\ sent' = [sent EXCEPT ![s] = @ - 1]
             /\ taken' = taken
          \/ /\ taken[s] > 0 /\ taken' = [taken EXCEPT ![s] = @ - 1]
             /\ sent' = sent
      BY <2>9 DEF W!Accepted, W!Refused, W!AnswerLost
    <3>4. sent' \in [W!Sources -> Nat] /\ taken' \in [W!Sources -> Nat]
      BY <3>3, CallCounts
    <3> QED
      BY <2>9, <3>1, <3>2, <3>4 DEF W!Accepted, W!Refused, W!AnswerLost
  <2>10. CASE W!Restart
    BY <2>10 DEF W!Restart, W!calls
  <2>11. CASE UNCHANGED W!vars
    BY <2>11 DEF W!vars, W!calls
  <2> QED
    BY <2>3, <2>4, <2>5, <2>6, <2>7, <2>8, <2>9, <2>10, <2>11 DEF W!Next
<1> QED
  BY <1>1, <1>2, FlagsCorrect, Initially, ComponentSteps, PTL
  DEF Spec, W!TypeOK

---------------------------------------------------------------------------
(* A call of a rise or of a poll in flight, which will arm the reset.      *)
Raises ==
  \/ sent["rise"] > 0 \/ taken["rise"] > 0
  \/ sent["poll"] > 0 \/ taken["poll"] > 0

Lowers ==
  \/ sent["fall"] > 0 \/ taken["fall"] > 0
  \/ sent["reset"] > 0 \/ taken["reset"] > 0

(* What the safety net of a motion that is shown hangs on: the reset that  *)
(* counts is one the host has not taken yet.                               *)
Netted ==
  motion = 1 /\ raised =>
    resetArmed \/ Raises \/ sent["reset"] > 0 \/ dropped \/ shownLate

(* The handlers that start a call keep those in flight.                    *)
LEMMA Started ==
  ASSUME W!DataOK, NEW s \in W!Sources, W!StartPublish(s)
  PROVE  /\ sent'[s] > 0
         /\ \A t \in W!Sources : sent[t] > 0 => sent'[t] > 0
         /\ taken' = taken
         /\ motionPending' = W!Value(s)
BY CallCounts DEF W!StartPublish, W!DataOK

(* The end of a call leaves every other one in flight.                     *)
LEMMA Ended ==
  ASSUME W!DataOK, NEW s \in W!Sources,
         W!Accepted(s) \/ W!Refused(s) \/ W!AnswerLost(s)
  PROVE  /\ motion' = motion
         /\ raised' = raised
         /\ \A t \in W!Sources : t # s => sent'[t] = sent[t] /\ taken'[t] = taken[t]
         /\ s \in {"rise", "poll"} => resetArmed'
         /\ s \in {"fall", "reset"} => (dropped => dropped')
         /\ s \in {"fall", "reset"} => (shownLate => shownLate')
         /\ s = "reset" => resetArmed' = resetArmed
<1>1. motion' = motion /\ raised' = raised
  BY DEF W!Accepted, W!Refused, W!AnswerLost
<1>2. \A t \in W!Sources : t # s => sent'[t] = sent[t] /\ taken'[t] = taken[t]
  <2>1. \/ sent' = [sent EXCEPT ![s] = @ - 1] /\ taken' = taken
        \/ taken' = [taken EXCEPT ![s] = @ - 1] /\ sent' = sent
    BY DEF W!Accepted, W!Refused, W!AnswerLost
  <2> QED
    BY <2>1, CallCounts DEF W!DataOK
<1>3. W!Continue(s, TRUE) \/ W!Continue(s, FALSE)
  BY DEF W!Accepted, W!Refused, W!AnswerLost
<1>4. s \in {"rise", "poll"} => resetArmed'
  BY <1>3 DEF W!Continue, W!ArmReset
<1>5. s = "fall" => dropped' = dropped /\ (shownLate => shownLate')
  <2>1. s = "fall" => dropped' = dropped
    BY <1>3 DEF W!Continue, W!Raising
  <2>2. s = "fall" /\ shownLate => shownLate'
    BY <1>3, Zenon DEF W!Continue, W!Raising
  <2> QED
    BY <2>1, <2>2
<1>6. s = "reset" => resetArmed' = resetArmed /\ shownLate' = shownLate
  BY <1>3 DEF W!Continue, W!Raising
<1>7. s = "reset" /\ dropped => dropped'
  BY <1>3, Zenon DEF W!Continue, W!Raising
<1> QED
  BY <1>1, <1>2, <1>4, <1>5, <1>6, <1>7

(* A 0 of the reset that did not land leaves a newer reset, or nothing.    *)
LEMMA Unheeded ==
  W!Continue("reset", FALSE) => resetArmed' \/ dropped'
<1>1. SUFFICES ASSUME W!Continue("reset", FALSE) PROVE resetArmed' \/ dropped'
  OBVIOUS
<1>2. /\ dropped' = (dropped \/ (~FALSE /\ ~resetArmed))
      /\ resetArmed' = resetArmed
  BY <1>1 DEF W!Continue, W!Raising
<1> QED
  BY <1>2, Zenon

LEMMA NettedKept ==
  ASSUME W!DataOK, Netted, [W!Next]_(W!vars)
  PROVE  Netted'
<1> USE DEF Netted, Raises
<1>1. {"rise", "poll", "fall", "reset"} = W!Sources
  BY FourSources
<1>2. CASE W!OnvifActive
  <2>1. CASE W!StartPublish("rise")
    BY <1>1, <1>2, <2>1, Started DEF W!OnvifActive
  <2>2. CASE W!ArmReset
    BY <2>2 DEF W!ArmReset
  <2> QED
    BY <1>2, <2>1, <2>2 DEF W!OnvifActive
<1>3. CASE W!OnvifInactive
  BY <1>3 DEF W!OnvifInactive, W!history, W!calls
<1>4. CASE W!PolledMotion
  <2>1. sent'["poll"] > 0
    BY <1>1, <1>4, Started DEF W!PolledMotion
  <2> QED
    BY <2>1
<1>5. CASE W!FallFires
  <2>1. /\ \A t \in W!Sources : sent[t] > 0 => sent'[t] > 0
        /\ taken' = taken
    BY <1>1, <1>5, Started DEF W!FallFires
  <2> QED
    BY <1>1, <1>5, <2>1 DEF W!FallFires, W!history
<1>6. CASE W!ResetFires
  <2>1. sent'["reset"] > 0
    BY <1>1, <1>6, Started DEF W!ResetFires
  <2> QED
    BY <2>1
<1>7. ASSUME NEW s \in W!Sources, W!Takes(s) PROVE Netted'
  <2>1. motion' = W!Value(s) /\ taken'[s] > 0
    BY <1>7, CallCounts DEF W!Takes, W!DataOK
  <2>2. motion' = 1 => s \in {"rise", "poll"}
    BY <2>1, FourSources
  <2> QED
    BY <2>1, <2>2
<1>8. ASSUME NEW s \in W!Sources,
             W!Accepted(s) \/ W!Refused(s) \/ W!AnswerLost(s)
      PROVE  Netted'
  <2>1. CASE s \in {"rise", "poll"}
    BY <1>8, <2>1, Ended
  <2>2. CASE s = "fall"
    <3>1. resetArmed => resetArmed' \/ (motion = 1 => shownLate')
      BY <1>8, <2>2 DEF W!Accepted, W!Refused, W!AnswerLost, W!Continue,
         W!Raising, W!ArmReset
    <3> QED
      BY <1>1, <1>8, <2>2, <3>1, Ended
  <2>3. CASE s = "reset"
    <3>1. W!Refused(s) => resetArmed' \/ dropped'
      BY <2>3, Unheeded DEF W!Refused
    <3>2. ~W!Refused(s) => sent' = sent
      BY <1>8 DEF W!Accepted, W!AnswerLost
    <3> QED
      BY <1>1, <1>8, <2>3, <3>1, <3>2, Ended
  <2> QED
    BY <1>1, <2>1, <2>2, <2>3
<1>9. CASE W!Restart
  BY <1>9 DEF W!Restart
<1>10. CASE UNCHANGED W!vars
  BY <1>10 DEF W!vars, W!history, W!calls
<1> QED
  BY <1>2, <1>3, <1>4, <1>5, <1>6, <1>7, <1>8, <1>9, <1>10 DEF W!Next

(* There is always a safety net behind the motion the watcher shows, in    *)
(* whatever order the host takes and answers its calls, but for a restart, *)
(* a refused 0 or a fall answered after a later motion (events.js,         *)
(* scheduleMotionReset and the fall of handleOnvifEvent).                  *)
THEOREM SafetyNetHolds == Spec => []SafetyNet
<1>1. W!Init => Netted
  BY DEF W!Init, Netted
<1>2. Netted => SafetyNet
  <2>1. Raises \/ sent["reset"] > 0 =>
          W!InFlight(W!Raising \cup {"reset"})
    BY DEF Raises, W!InFlight, W!Raising
  <2> QED
    BY <2>1 DEF Netted, SafetyNet, W!SafetyNet, W!NetHeld
<1>3. W!TypeOK => W!DataOK
  BY DEF W!TypeOK
<1> QED
  BY <1>1, <1>2, <1>3, NettedKept, SensorTyped, Initially, ComponentSteps, PTL
  DEF Spec

---------------------------------------------------------------------------
(* A value is pending for a call in flight that carries it; a record of 1  *)
(* has a reset behind it; and a record that is not what is shown has a     *)
(* call on its way back that will correct it, or was overtaken.            *)
PendingOwned ==
  /\ motionPending = 1 => Raises
  /\ motionPending = 0 => Lowers

RecordFalls ==
  motionStates = 1 =>
    \/ resetArmed \/ Raises \/ dropped
    \/ sent["reset"] > 0 \/ taken["reset"] > 0

RecordFollows ==
  motionStates # None /\ ~overtaken /\ motionStates # motion =>
    \E s \in W!Sources : taken[s] > 0 /\ W!Value(s) = motion

Hearing == PendingOwned /\ RecordFalls /\ RecordFollows

LEMMA PendingOwnedKept ==
  ASSUME W!DataOK, PendingOwned, [W!Next]_(W!vars)
  PROVE  PendingOwned'
<1> USE DEF PendingOwned, Raises, Lowers
<1>1. {"rise", "poll", "fall", "reset"} = W!Sources
  BY FourSources
<1>2. ASSUME NEW s \in W!Sources, W!StartPublish(s) PROVE PendingOwned'
  <2>1. motionPending' = W!Value(s) /\ sent'[s] > 0
    BY <1>2, Started
  <2>2. \/ motionPending' = 1 /\ s \in {"rise", "poll"}
        \/ motionPending' = 0 /\ s \in {"fall", "reset"}
    BY <1>1, <2>1 DEF W!Value, W!Raising
  <2> QED
    BY <2>1, <2>2
<1>3. CASE /\ UNCHANGED <<motionPending, sent, taken>>
  BY <1>3
<1>4. CASE \/ W!OnvifActive \/ W!OnvifInactive \/ W!PolledMotion
           \/ W!FallFires \/ W!ResetFires \/ W!Restart \/ UNCHANGED W!vars
  BY <1>1, <1>2, <1>3, <1>4 DEF W!OnvifActive, W!OnvifInactive, W!PolledMotion,
     W!FallFires, W!ResetFires, W!Restart, W!vars, W!calls
<1>5. ASSUME NEW s \in W!Sources, W!Takes(s) PROVE PendingOwned'
  <2>1. /\ taken'[s] > 0 /\ motionPending' = motionPending
        /\ \A t \in W!Sources : taken[t] > 0 => taken'[t] > 0
        /\ \A t \in W!Sources : t # s => sent'[t] = sent[t]
    BY <1>5, CallCounts DEF W!Takes, W!DataOK
  <2> QED
    BY <1>1, <2>1
<1>6. ASSUME NEW s \in W!Sources,
             W!Accepted(s) \/ W!Refused(s) \/ W!AnswerLost(s)
      PROVE  PendingOwned'
  <2>1. \A t \in W!Sources : t # s => sent'[t] = sent[t] /\ taken'[t] = taken[t]
    BY <1>6, Ended
  <2>2. /\ motionPending' \in {motionPending, None}
        /\ motionPending' # W!Value(s)
    BY <1>6, FourSources, Assumed
    DEF W!Accepted, W!Refused, W!AnswerLost, W!Release, W!MotionAssumption,
        W!State
  <2>3. /\ s \in {"rise", "poll"} => motionPending' # 1
        /\ s \in {"fall", "reset"} => motionPending' # 0
    BY <2>2 DEF W!Value, W!Raising
  <2>4. None # 0 /\ None # 1
    BY Assumed DEF W!MotionAssumption
  <2>5. CASE s \in {"rise", "poll"}
    BY <1>1, <2>1, <2>2, <2>3, <2>4, <2>5
  <2>6. CASE s \in {"fall", "reset"}
    BY <1>1, <2>1, <2>2, <2>3, <2>4, <2>6
  <2> QED
    BY <1>1, <2>5, <2>6
<1> QED
  BY <1>4, <1>5, <1>6 DEF W!Next

LEMMA RecordFallsKept ==
  ASSUME W!DataOK, RecordFalls, [W!Next]_(W!vars)
  PROVE  RecordFalls'
<1> USE DEF RecordFalls, Raises
<1>1. {"rise", "poll", "fall", "reset"} = W!Sources
  BY FourSources
<1>2. CASE W!OnvifActive
  <2>1. CASE W!StartPublish("rise")
    BY <1>1, <2>1, Started
  <2>2. CASE W!ArmReset
    BY <2>2 DEF W!ArmReset
  <2> QED
    BY <1>2, <2>1, <2>2 DEF W!OnvifActive
<1>3. CASE W!OnvifInactive
  BY <1>3 DEF W!OnvifInactive, W!history, W!calls
<1>4. CASE W!PolledMotion
  <2>1. sent'["poll"] > 0
    BY <1>1, <1>4, Started DEF W!PolledMotion
  <2> QED
    BY <2>1
<1>5. CASE W!FallFires
  <2>1. /\ \A t \in W!Sources : sent[t] > 0 => sent'[t] > 0
        /\ taken' = taken
    BY <1>1, <1>5, Started DEF W!FallFires
  <2> QED
    BY <1>1, <1>5, <2>1 DEF W!FallFires, W!history
<1>6. CASE W!ResetFires
  <2>1. sent'["reset"] > 0
    BY <1>1, <1>6, Started DEF W!ResetFires
  <2> QED
    BY <2>1
<1>7. ASSUME NEW s \in W!Sources, W!Takes(s) PROVE RecordFalls'
  <2>1. /\ taken'[s] > 0
        /\ \A t \in W!Sources : taken[t] > 0 => taken'[t] > 0
        /\ \A t \in W!Sources : t # s => sent'[t] = sent[t]
        /\ UNCHANGED <<motionStates, resetArmed, dropped>>
    BY <1>7, CallCounts DEF W!Takes, W!DataOK
  <2> QED
    BY <1>1, <2>1
<1>8. ASSUME NEW s \in W!Sources,
             W!Accepted(s) \/ W!Refused(s) \/ W!AnswerLost(s)
      PROVE  RecordFalls'
  <2>1. CASE s \in {"rise", "poll"}
    BY <1>8, <2>1, Ended
  <2>2. CASE s \in {"fall", "reset"} /\ W!Accepted(s)
    <3>1. motionStates' = 0
      BY <2>2 DEF W!Accepted, W!Value, W!Raising
    <3> QED
      BY <3>1
  <2>3. CASE s = "fall" /\ ~W!Accepted(s)
    <3>1. motionStates' = motionStates /\ (resetArmed => resetArmed')
      BY <1>8, <2>3 DEF W!Refused, W!AnswerLost, W!Continue, W!Raising,
         W!ArmReset
    <3> QED
      BY <1>1, <1>8, <2>3, <3>1, Ended
  <2>4. CASE s = "reset" /\ ~W!Accepted(s)
    <3>1. resetArmed' \/ dropped'
      BY <1>8, <2>4, Unheeded DEF W!Refused, W!AnswerLost
    <3> QED
      BY <3>1
  <2> QED
    BY <1>1, <2>1, <2>2, <2>3, <2>4
<1>9. CASE W!Restart
  BY <1>9 DEF W!Restart
<1>10. CASE UNCHANGED W!vars
  BY <1>10 DEF W!vars, W!history, W!calls
<1> QED
  BY <1>2, <1>3, <1>4, <1>5, <1>6, <1>7, <1>8, <1>9, <1>10 DEF W!Next

LEMMA RecordFollowsKept ==
  ASSUME W!DataOK, RecordFollows, [W!Next]_(W!vars)
  PROVE  RecordFollows'
<1> USE DEF RecordFollows
<1>1. {"rise", "poll", "fall", "reset"} = W!Sources
  BY FourSources
<1>2. CASE UNCHANGED <<motion, motionStates, overtaken, taken>>
  BY <1>2
<1>3. CASE \/ W!OnvifActive \/ W!OnvifInactive \/ W!PolledMotion
           \/ W!FallFires \/ W!ResetFires \/ W!Restart \/ UNCHANGED W!vars
  BY <1>2, <1>3 DEF W!OnvifActive, W!OnvifInactive, W!PolledMotion,
     W!FallFires, W!ResetFires, W!Restart, W!vars, W!calls, W!history,
     W!StartPublish
<1>4. ASSUME NEW s \in W!Sources, W!Takes(s) PROVE RecordFollows'
  <2>1. motion' = W!Value(s) /\ taken'[s] > 0
    BY <1>4, CallCounts DEF W!Takes, W!DataOK
  <2> QED
    BY <2>1
<1>5. ASSUME NEW s \in W!Sources, W!Accepted(s) PROVE RecordFollows'
  BY <1>5 DEF W!Accepted
<1>6. ASSUME NEW s \in W!Sources, W!Refused(s) PROVE RecordFollows'
  BY <1>2, <1>6 DEF W!Refused
<1>7. ASSUME NEW s \in W!Sources, W!AnswerLost(s) PROVE RecordFollows'
  <2>1. /\ UNCHANGED <<motion, motionStates>>
        /\ overtaken' = (overtaken \/ motion = W!Value(s))
    BY <1>7 DEF W!AnswerLost
  <2>2. \A t \in W!Sources : t # s => taken'[t] = taken[t]
    BY <1>7, Ended
  <2> SUFFICES ASSUME motionStates # None, ~overtaken',
                      motionStates # motion
               PROVE  \E t \in W!Sources : taken'[t] > 0 /\ W!Value(t) = motion
    BY <2>1
  <2>3. ~overtaken /\ motion # W!Value(s)
    BY <2>1
  <2>4. PICK t \in W!Sources : taken[t] > 0 /\ W!Value(t) = motion
    BY <2>3
  <2>5. t # s
    BY <2>3, <2>4
  <2> QED
    BY <2>2, <2>4, <2>5
<1> QED
  BY <1>3, <1>4, <1>5, <1>6, <1>7 DEF W!Next

(* A motion is filtered out as already shown only while something is still *)
(* to lower the record, in whatever order calls are answered; and, all     *)
(* calls answered, only while Gladys shows it, but for a record left by an *)
(* answer another call had overtaken (events.js, publishMotion).           *)
THEOREM NeverDeafHolds == Spec => []NeverDeaf
<1>1. W!Init => Hearing
  BY Assumed
  DEF W!Init, Hearing, PendingOwned, RecordFalls, RecordFollows,
      W!MotionAssumption
<1>2. W!DataOK /\ Hearing /\ [W!Next]_(W!vars) => Hearing'
  BY PendingOwnedKept, RecordFallsKept, RecordFollowsKept DEF Hearing
<1>3. W!DataOK /\ Hearing => NeverDeaf
  <2> SUFFICES ASSUME W!DataOK, Hearing, W!currentMotion = 1
               PROVE  /\ W!NetHeld \/ dropped
                      /\ ~W!InFlight(W!Sources) /\ ~overtaken => motion = 1
    BY DEF NeverDeaf, W!NeverDeaf
  <2>1. /\ Raises => W!NetHeld
        /\ sent["reset"] > 0 \/ taken["reset"] > 0 => W!NetHeld
        /\ resetArmed => W!NetHeld
    BY DEF Raises, W!NetHeld, W!InFlight, W!Raising
  <2>2. CASE motionPending # None
    <3>1. motionPending = 1
      BY <2>2 DEF W!currentMotion
    <3>2. Raises
      BY <3>1 DEF Hearing, PendingOwned
    <3>3. W!InFlight(W!Sources)
      BY <3>2, FourSources DEF Raises, W!InFlight
    <3> QED
      BY <2>1, <3>2, <3>3
  <2>3. CASE motionPending = None
    <3>1. motionStates = 1 /\ None # 1
      BY <2>3, Assumed DEF W!currentMotion, W!MotionAssumption
    <3>2. W!NetHeld \/ dropped
      BY <2>1, <3>1 DEF Hearing, RecordFalls
    <3>3. ~W!InFlight(W!Sources) /\ ~overtaken => motion = 1
      BY <3>1 DEF Hearing, RecordFollows, W!InFlight
    <3> QED
      BY <3>2, <3>3
  <2> QED
    BY <2>2, <2>3
<1>4. W!TypeOK => W!DataOK
  BY DEF W!TypeOK
<1> QED
  BY <1>1, <1>2, <1>3, <1>4, SensorTyped, Initially, ComponentSteps, PTL
  DEF Spec

---------------------------------------------------------------------------
(* SmartClient: the fallbacks of the client of a SMART device never leave  *)
(* encryptType and the transport apart.                                    *)

(* While TPAP is tried on a refusal, what was announced before still       *)
(* stands for the KLAP transport that comes back.                          *)
LinkInv ==
  /\ T!TransportAgrees
  /\ encryptType \in T!Protocols \cup {None}
  /\ stage # "idle" => transport # None
  /\ stage = "tpap" =>
       /\ announced \in T!Protocols \cup {None}
       /\ T!Built(announced) = "KLAP"

(* Only a KLAP transport is told that third parties are refused.           *)
LEMMA RefusedByKlap ==
  ASSUME "refused403" \in T!Reply
  PROVE  transport = "KLAP"
<1>1. "refused403" \notin T!AesOutcomes
  BY DEF T!AesOutcomes, T!OnSession, T!Login
<1>2. "refused403" \notin T!TpapOutcomes
  <2>1. mode = "TPAP" => T!TpapOutcomes = IF session THEN T!OnSession ELSE T!Login
    BY DEF T!TpapOutcomes
  <2>2. mode # "TPAP" =>
          T!TpapOutcomes = IF session THEN {"retryable", "error"}
                         ELSE IF info THEN {"error"} ELSE {"notTpap"}
    BY DEF T!TpapOutcomes
  <2>3. CASE mode = "TPAP"
    BY <2>1, <2>3 DEF T!OnSession, T!Login
  <2>4. CASE mode # "TPAP"
    BY <2>2, <2>4
  <2> QED
    BY <2>3, <2>4
<1>3. plugged
  BY DEF T!Reply
<1>4. T!Reply = CASE transport = "KLAP" -> T!KlapOutcomes
                [] transport = "AES"  -> T!AesOutcomes
                [] OTHER              -> T!TpapOutcomes
  BY <1>3 DEF T!Reply, T!Reachable
<1> QED
  BY <1>1, <1>2, <1>4

LEMMA LinkInvKept ==
  ASSUME T!SmartClientAssumption, LinkInv, [T!Next]_(T!vars)
  PROVE  LinkInv'
<1> USE DEF T!SmartClientAssumption, T!Protocols
<1> USE DEF LinkInv, T!TransportAgrees, T!Built
<1>1. CASE T!CallStarts
  BY <1>1 DEF T!CallStarts
<1>2. CASE T!Exchange
  <2>1. PICK o \in T!Reply :
          \/ T!FallsBackToAes(o) \/ T!TriesTpap(o) \/ T!LeavesTpap(o)
          \/ T!Resends(o) \/ T!TurnsBack(o) \/ T!Returns(o)
    BY <1>2 DEF T!Exchange
  <2>2. CASE T!FallsBackToAes(o)
    BY <2>2 DEF T!FallsBackToAes, T!SwitchTo
  <2>3. CASE T!TriesTpap(o)
    <3>1. transport = "KLAP"
      BY <2>3, RefusedByKlap DEF T!TriesTpap
    <3>2. /\ announced' = encryptType /\ encryptType' = "TPAP"
          /\ transport' = "TPAP" /\ stage' = "tpap"
      BY <2>3 DEF T!TriesTpap, T!SwitchTo
    <3> QED
      BY <3>1, <3>2
  <2>4. CASE T!LeavesTpap(o)
    BY <2>4 DEF T!LeavesTpap, T!SwitchTo
  <2>5. CASE T!Resends(o)
    BY <1>2, <2>5 DEF T!Exchange, T!Resends
  <2>6. CASE T!TurnsBack(o)
    BY <2>6 DEF T!TurnsBack
  <2>7. CASE T!Returns(o)
    BY <2>7 DEF T!Returns, T!Ends
  <2> QED
    BY <2>1, <2>2, <2>3, <2>4, <2>5, <2>6, <2>7
<1>3. CASE \/ (\E m \in T!AllModes : T!ChangesMode(m))
           \/ T!DropsSession \/ T!GoesAway \/ T!ComesBack
  BY <1>3 DEF T!ChangesMode, T!DropsSession, T!GoesAway, T!ComesBack, T!link, T!progress
<1>4. CASE T!CallBlocked \/ T!PauseEnds \/ T!SessionExpires \/ UNCHANGED T!vars
  BY <1>4 DEF T!CallBlocked, T!PauseEnds, T!SessionExpires, T!link, T!progress, T!vars
<1> QED
  BY <1>1, <1>2, <1>3, <1>4 DEF T!Next

(* Types.  A session and a discover answer belong to a transport that can  *)
(* hold them.                                                              *)
DeviceTypes ==
  /\ mode \in T!AllModes
  /\ {plugged, known, blocked} \subseteq BOOLEAN
  /\ stage \in {"idle", "first", "switched", "tpap", "again"}
  /\ result \in T!Outcomes \cup {"none", "backoff"}

LinkTypes ==
  /\ transport \in T!Protocols \cup {None}
  /\ session \in BOOLEAN /\ info \in BOOLEAN
  /\ session => transport # None
  /\ info => transport = "TPAP"
  /\ announced \in {None, "KLAP"}

(* Every reply is one of the outcomes.                                     *)
LEMMA ReplyOutcomes == T!Reply \subseteq T!Outcomes
<1>1. T!KlapOutcomes \subseteq T!Outcomes
  BY DEF T!KlapOutcomes, T!OnSession, T!Login, T!Outcomes
<1>2. T!AesOutcomes \subseteq T!Outcomes
  BY DEF T!AesOutcomes, T!OnSession, T!Login, T!Outcomes
<1>3. T!TpapOutcomes \subseteq T!Outcomes
  BY DEF T!TpapOutcomes, T!OnSession, T!Login, T!Outcomes
<1>4. T!Reachable \subseteq T!Outcomes
  BY <1>1, <1>2, <1>3 DEF T!Reachable
<1> QED
  BY <1>4 DEF T!Reply, T!Outcomes

LEMMA DeviceTypesKept ==
  ASSUME T!SmartClientAssumption, DeviceTypes, [T!Next]_(T!vars)
  PROVE  DeviceTypes'
<1> USE DEF T!SmartClientAssumption, DeviceTypes
<1>1. ASSUME NEW m \in T!AllModes, T!ChangesMode(m) PROVE DeviceTypes'
  BY <1>1 DEF T!ChangesMode, T!progress
<1>2. CASE T!DropsSession \/ T!GoesAway \/ T!ComesBack
  BY <1>2 DEF T!DropsSession, T!GoesAway, T!ComesBack, T!progress
<1>3. CASE T!CallStarts \/ T!CallBlocked \/ T!PauseEnds \/ T!SessionExpires
  BY <1>3 DEF T!CallStarts, T!CallBlocked, T!PauseEnds, T!SessionExpires, T!device,
              T!progress
<1>4. CASE T!Exchange
  <2>1. PICK o \in T!Reply :
          /\ \/ T!FallsBackToAes(o) \/ T!TriesTpap(o) \/ T!LeavesTpap(o)
             \/ T!Resends(o) \/ T!TurnsBack(o) \/ T!Returns(o)
          /\ known' = T!KnownAfter(o)
    BY <1>4 DEF T!Exchange
  <2>2. mode' = mode /\ plugged' = plugged /\ known' \in BOOLEAN
    BY <1>4, <2>1 DEF T!Exchange, T!KnownAfter
  <2>3. CASE T!FallsBackToAes(o) \/ T!TriesTpap(o) \/ T!LeavesTpap(o)
    BY <2>2, <2>3 DEF T!FallsBackToAes, T!TriesTpap, T!LeavesTpap, T!SwitchTo
  <2>4. CASE T!Resends(o) \/ T!TurnsBack(o)
    BY <2>2, <2>4 DEF T!Resends, T!TurnsBack, T!Outcomes
  <2>5. CASE T!Returns(o)
    <3>1. stage' = "idle" /\ result' = o /\ o \in T!Outcomes
      BY <2>5, ReplyOutcomes DEF T!Returns, T!Ends
    <3>2. blocked' \in BOOLEAN
      BY <2>5 DEF T!Returns, T!Ends, T!AsksPause
    <3> QED
      BY <2>2, <3>1, <3>2
  <2> QED
    BY <2>1, <2>3, <2>4, <2>5
<1>5. CASE UNCHANGED T!vars
  BY <1>5 DEF T!vars, T!device, T!progress
<1> QED
  BY <1>1, <1>2, <1>3, <1>4, <1>5 DEF T!Next

LEMMA LinkTypesKept ==
  ASSUME T!SmartClientAssumption, LinkInv, LinkTypes, [T!Next]_(T!vars)
  PROVE  LinkTypes'
<1> USE DEF T!SmartClientAssumption, LinkTypes, T!Protocols
<1>1. CASE \/ (\E m \in T!AllModes : T!ChangesMode(m))
           \/ T!DropsSession \/ T!GoesAway \/ T!ComesBack
           \/ T!CallBlocked \/ T!PauseEnds \/ UNCHANGED T!vars
  <2>1. UNCHANGED <<transport, session, info, announced>>
    BY <1>1 DEF T!ChangesMode, T!DropsSession, T!GoesAway, T!ComesBack, T!CallBlocked,
                T!PauseEnds, T!link, T!progress, T!vars
  <2> QED
    BY <2>1
<1>2. CASE T!SessionExpires
  <2>1. UNCHANGED <<transport, info, announced>> /\ session' = FALSE
    BY <1>2 DEF T!SessionExpires, T!progress
  <2> QED
    BY <2>1
<1>3. CASE T!CallStarts
  <2>1. UNCHANGED <<session, info, announced>>
    BY <1>3 DEF T!CallStarts
  <2>2. transport' \in T!Protocols /\ (transport # None => transport' = transport)
    BY <1>3 DEF T!CallStarts, T!Built, LinkInv
  <2> QED
    BY <2>1, <2>2
<1>4. CASE T!Exchange
  <2>1. PICK o \in T!Reply :
          \/ T!FallsBackToAes(o) \/ T!TriesTpap(o) \/ T!LeavesTpap(o)
          \/ T!Resends(o) \/ T!TurnsBack(o) \/ T!Returns(o)
    BY <1>4 DEF T!Exchange
  <2>2. CASE T!FallsBackToAes(o) \/ T!LeavesTpap(o)
    BY <2>2 DEF T!FallsBackToAes, T!LeavesTpap, T!SwitchTo
  <2>3. CASE T!TriesTpap(o)
    <3>1. transport = "KLAP"
      BY <2>3, RefusedByKlap DEF T!TriesTpap
    <3>2. encryptType \in {None, "KLAP"}
      BY <3>1 DEF LinkInv, T!TransportAgrees, T!Built
    <3> QED
      BY <2>3, <3>2 DEF T!TriesTpap, T!SwitchTo
  <2>4. CASE T!Resends(o)
    <3>1. UNCHANGED <<transport, info, announced>> /\ session' = FALSE
      BY <2>4 DEF T!Resends
    <3> QED
      BY <3>1
  <2>6. CASE T!TurnsBack(o)
    <3>1. /\ transport' = "KLAP" /\ announced' = announced
          /\ session' = FALSE /\ info' = FALSE
      BY <2>6 DEF T!TurnsBack
    <3> QED
      BY <3>1
  <2>5. CASE T!Returns(o)
    <3>1. stage # "idle" /\ transport # None
      BY <1>4 DEF T!Exchange, LinkInv
    <3>2. transport' = transport /\ announced' = announced
      BY <2>5 DEF T!Returns, T!Ends
    <3>3. session' \in BOOLEAN
      BY <2>5 DEF T!Returns, T!Ends, T!SessionAfter
    <3>4. info' \in T!InfoAfter(o)
      BY <2>5 DEF T!Returns, T!Ends
    <3>5. CASE transport = "TPAP"
      <4>1. T!InfoAfter(o) \subseteq BOOLEAN
        BY <3>5 DEF T!InfoAfter
      <4> QED
        BY <3>2, <3>3, <3>4, <3>5, <4>1
    <3>6. CASE transport # "TPAP"
      <4>1. T!InfoAfter(o) = {FALSE}
        BY <3>6 DEF T!InfoAfter
      <4>2. ~info'
        BY <3>4, <4>1
      <4>3. info' \in BOOLEAN
        BY <3>4, <4>1
      <4> QED
        BY <3>1, <3>2, <3>3, <4>2, <4>3
    <3> QED
      BY <3>5, <3>6
  <2> QED
    BY <2>1, <2>2, <2>3, <2>4, <2>5, <2>6
<1> QED
  BY <1>1, <1>2, <1>3, <1>4 DEF T!Next

LinkSafe == LinkInv /\ DeviceTypes /\ LinkTypes

LEMMA LinkHolds == Spec => []LinkSafe
<1>1. Init => LinkSafe
  BY Assumed, Initially
     DEF T!SmartClientAssumption, T!Init, LinkSafe, LinkInv, DeviceTypes,
         LinkTypes, T!TransportAgrees, T!AllModes, T!Protocols
<1>2. LinkSafe /\ [Next]_vars => LinkSafe'
  BY Assumed, ComponentSteps, LinkInvKept, DeviceTypesKept,
     LinkTypesKept
     DEF LinkSafe
<1> QED
  BY <1>1, <1>2, PTL DEF Spec

(* Whatever is announced, tried, refused or given up, and however often    *)
(* the device changes, the transport is the one encryptType stands for     *)
(* (client.js, send and switchTo).                                         *)
THEOREM TransportAgreesHolds == Spec => []TransportAgrees
<1>1. LinkSafe => TransportAgrees
  BY DEF LinkSafe, LinkInv, TransportAgrees
<1> QED
  BY <1>1, LinkHolds, PTL

LEMMA LinkTyped == LinkSafe => T!TypeOK
  BY DEF LinkSafe, LinkInv, DeviceTypes, LinkTypes, T!TypeOK

---------------------------------------------------------------------------
(* SceneTrigger: an event of the last COOLDOWN_MS is the last one of its   *)
(* kind that was recorded, or an older one.                                *)
Times == 0..MaxTime
Fired == [kind : S!DetectionKinds, at : Times]

SceneTypes ==
  /\ clock \in Times
  /\ last \in [S!DetectionKinds -> Times \cup {S!Never}]
  /\ sending \subseteq S!DetectionKinds
  /\ fired \in Seq(Fired)

Recorded ==
  \A i \in 1..Len(fired) :
    fired[i].at <= last[fired[i].kind] /\ clock - fired[i].at < Cooldown

SceneSafe == SceneTypes /\ Recorded /\ S!AtPace

LEMMA Sensible ==
  ASSUME S!SceneAssumption
  PROVE  /\ Cooldown \in Nat /\ Cooldown > 0 /\ MaxTime \in Nat
         /\ S!Never \in Int /\ S!Never = 0 - Cooldown
         /\ \A t \in Times : t \in Int
BY DEF S!SceneAssumption, S!Never, Times

(* Every event fired is of a kind that is still quiet.                     *)
LEMMA FiredIsRecent ==
  ASSUME S!SceneAssumption, SceneTypes, Recorded, NEW i \in 1..Len(fired)
  PROVE  fired[i] \in Fired /\ S!Recent(fired[i].kind)
<1>1. fired[i] \in Fired
  BY DEF SceneTypes
<1>2. /\ fired[i].at \in Int /\ clock \in Int /\ last[fired[i].kind] \in Int
  BY <1>1, Sensible DEF SceneTypes, Fired
<1>3. fired[i].at <= last[fired[i].kind] /\ clock - fired[i].at < Cooldown
  BY DEF Recorded
<1> QED
  BY <1>1, <1>2, <1>3, Sensible DEF S!Recent

LEMMA DetectionKept ==
  ASSUME S!SceneAssumption, SceneSafe, NEW kind \in S!DetectionKinds,
         S!detection(kind)
  PROVE  SceneSafe'
<1> USE DEF SceneSafe
<1>1. /\ fired' = Append(fired, [kind |-> kind, at |-> clock])
      /\ last' = [last EXCEPT ![kind] = clock]
      /\ sending' = sending \cup {kind} /\ clock' = clock
      /\ ~S!Recent(kind)
      /\ kind = "motion" => \A k \in S!Recognised : ~S!Recent(k)
  BY DEF S!detection, S!Sends
<1>2. [kind |-> kind, at |-> clock] \in Fired
  BY DEF SceneTypes, Fired
<1>3. SceneTypes'
  BY <1>1, <1>2 DEF SceneTypes
<1>4. /\ Len(fired') = Len(fired) + 1 /\ Len(fired) \in Nat
      /\ \A i \in 1..Len(fired) : fired'[i] = fired[i]
      /\ fired'[Len(fired) + 1] = [kind |-> kind, at |-> clock]
  BY <1>1, <1>2 DEF SceneTypes
<1>5. \A i \in 1..Len(fired) :
        /\ fired[i] \in Fired /\ S!Recent(fired[i].kind)
        /\ fired[i].kind # kind
        /\ fired[i].kind \in S!Recognised => kind # "motion"
  BY <1>1, FiredIsRecent
<1>6. Recorded'
  <2> SUFFICES ASSUME NEW i \in 1..Len(fired')
               PROVE  /\ fired'[i].at <= last'[fired'[i].kind]
                      /\ clock' - fired'[i].at < Cooldown
    BY DEF Recorded
  <2>1. CASE i \in 1..Len(fired)
    <3>1. fired'[i] = fired[i] /\ last'[fired[i].kind] = last[fired[i].kind]
      BY <1>1, <1>4, <1>5, <2>1 DEF SceneTypes, Fired
    <3> QED
      BY <1>1, <2>1, <3>1 DEF Recorded
  <2>2. CASE i = Len(fired) + 1
    <3>1. fired'[i].at = clock /\ last'[fired'[i].kind] = clock
      BY <1>1, <1>4, <2>2 DEF SceneTypes
    <3> QED
      BY <1>1, <3>1, Sensible DEF SceneTypes
  <2> QED
    BY <1>4, <2>1, <2>2
<1>7. S!AtPace'
  <2> SUFFICES ASSUME NEW i \in 1..Len(fired'), NEW j \in 1..Len(fired'), i < j
               PROVE  /\ fired'[i].kind # fired'[j].kind
                      /\ fired'[i].kind \in S!Recognised
                           => fired'[j].kind # "motion"
    BY <1>3 DEF S!AtPace, SceneTypes
  <2>1. i \in 1..Len(fired) /\ fired'[i] = fired[i]
    BY <1>4
  <2>2. CASE j \in 1..Len(fired)
    <3>1. fired'[j] = fired[j] /\ i \in DOMAIN fired /\ j \in DOMAIN fired
      BY <1>4, <2>1, <2>2 DEF SceneTypes
    <3> QED
      BY <2>1, <3>1 DEF S!AtPace
  <2>3. CASE j = Len(fired) + 1
    BY <1>4, <1>5, <2>1, <2>3
  <2> QED
    BY <1>4, <2>2, <2>3
<1> QED
  BY <1>3, <1>6, <1>7

LEMMA PassesKept ==
  ASSUME S!SceneAssumption, SceneSafe, S!Passes
  PROVE  SceneSafe'
<1> USE DEF SceneSafe
<1>1. PICK n \in 0..Len(fired) :
        /\ \A i \in DOMAIN fired : clock' - fired[i].at < Cooldown <=> i > n
        /\ fired' = SubSeq(fired, n + 1, Len(fired))
  BY DEF S!Passes
<1>2. /\ clock' \in Times /\ last' = last /\ sending' = sending
  BY Sensible DEF S!Passes, SceneTypes, Times
<1>3. /\ fired' \in Seq(Fired) /\ Len(fired) \in Nat
      /\ Len(fired') = Len(fired) - n
      /\ \A i \in 1..Len(fired') : fired'[i] = fired[i + n]
  BY <1>1, SubSeqProperties DEF SceneTypes
<1>4. \A i \in 1..Len(fired') :
        i + n \in 1..Len(fired) /\ i + n > n /\ i + n \in DOMAIN fired
  BY <1>3 DEF SceneTypes
<1>5. Recorded'
  BY <1>1, <1>2, <1>3, <1>4 DEF Recorded
<1>6. S!AtPace'
  <2> SUFFICES ASSUME NEW i \in 1..Len(fired'), NEW j \in 1..Len(fired'), i < j
               PROVE  /\ fired'[i].kind # fired'[j].kind
                      /\ fired'[i].kind \in S!Recognised
                           => fired'[j].kind # "motion"
    BY <1>3 DEF S!AtPace
  <2> QED
    BY <1>3, <1>4 DEF S!AtPace
<1> QED
  BY <1>2, <1>3, <1>5, <1>6 DEF SceneTypes

LEMMA SceneKept ==
  ASSUME S!SceneAssumption, SceneSafe, [S!Next]_(S!vars)
  PROVE  SceneSafe'
<1>1. ASSUME NEW kind \in S!DetectionKinds, S!Notified(kind) PROVE SceneSafe'
  BY <1>1, DetectionKept DEF S!Notified
<1>2. ASSUME NEW found \in SUBSET (S!Recognised \cup {"motion"}),
             S!Looked(found)
      PROVE  SceneSafe'
  <2>1. S!detectionOf(found) \in S!DetectionKinds
    BY DEF S!detectionOf, S!DetectionKinds, S!Recognised
  <2> QED
    BY <1>2, <2>1, DetectionKept DEF S!Looked
<1>3. ASSUME NEW kind \in sending, S!Answered(kind) PROVE SceneSafe'
  BY <1>3 DEF S!Answered, SceneSafe, SceneTypes, Recorded, S!AtPace
<1>4. CASE S!Passes
  BY <1>4, PassesKept
<1>5. CASE S!Starts
  <2>1. fired' = << >> /\ SceneTypes'
    BY <1>5 DEF S!Starts, SceneSafe, SceneTypes
  <2> QED
    BY <2>1 DEF SceneSafe, Recorded, S!AtPace
<1>6. CASE UNCHANGED S!vars
  BY <1>6 DEF S!vars, SceneSafe, SceneTypes, Recorded, S!AtPace
<1> QED
  BY <1>1, <1>2, <1>3, <1>4, <1>5, <1>6 DEF S!Next

LEMMA ScenesHold == Spec => []SceneSafe
<1>1. Init => SceneSafe
  <2> SUFFICES ASSUME S!Init PROVE SceneSafe
    BY Initially
  <2>1. MaxTime \in Nat
    BY Assumed, Sensible
  <2>2. fired = << >> /\ SceneTypes
    BY <2>1 DEF S!Init, SceneTypes, Times
  <2> QED
    BY <2>2 DEF SceneSafe, Recorded, S!AtPace
<1>2. SceneSafe /\ [Next]_vars => SceneSafe'
  BY Assumed, ComponentSteps, SceneKept
<1> QED
  BY <1>1, <1>2, PTL DEF Spec

(* No kind of detection starts scenes twice within the cooldown, nor a     *)
(* plain motion after a recognised one, however the notifications, the     *)
(* looks, the answers and the restarts interleave (sceneEvents.js,         *)
(* detection).                                                             *)
THEOREM AtPaceHolds == Spec => []AtPace
<1>1. SceneSafe => AtPace
  BY DEF SceneSafe, AtPace
<1> QED
  BY <1>1, ScenesHold, PTL

LEMMA ScenesTyped == SceneSafe => S!TypeOK
  BY DEF SceneSafe, SceneTypes, Times, Fired, S!TypeOK

---------------------------------------------------------------------------
(* EnergyIndex: what the plug counted since the last reading is known      *)
(* apart from whether midnight passed, and the index follows it.           *)
Counters == today \in Nat /\ due \in Nat /\ late \in Nat /\ fresh \in Nat
Accounting == missed \in Nat /\ start \in Nat /\ lastValue \in Nat
Rounds ==
  /\ reading \in {"idle", "asking", "flushing"}
  /\ reading = "asking" <=> given # None
  /\ pending # None => reading = "flushing"
  /\ sentIndex \in Nat \cup {None}

(* The counter of the plug started again at midnight, or went on from the  *)
(* last reading.                                                           *)
Metered ==
  /\ crossed \in BOOLEAN
  /\ energy \in [lastToday : Nat, index : Nat] \cup {None}
  /\ energy # None =>
       today = (IF crossed THEN fresh ELSE energy.lastToday + fresh)

(* What a round lists and publishes is never behind what Gladys holds.     *)
Forward ==
  /\ given # None => given = lastValue
  /\ energy # None => lastValue <= energy.index
  /\ pending # None =>
       /\ pending \in Nat /\ lastValue <= pending
       /\ energy # None => pending = energy.index

EnergySafe ==
  /\ Counters /\ Accounting /\ Rounds /\ Metered /\ Forward
  /\ E!Balanced

LEMMA NoneIsNoNumber == None \notin Nat
BY Assumed DEF E!EnergyAssumption

LEMMA EnergyFields ==
  ASSUME EnergySafe, energy # None
  PROVE  energy.lastToday \in Nat /\ energy.index \in Nat
BY DEF EnergySafe, Metered

LEMMA OneMore ==
  \A x, m, l, f, s, d \in Nat :
    x + m + l + f = s + d => x + m + l + (f + 1) = s + (d + 1)
OBVIOUS

LEMMA PlugKept ==
  ASSUME EnergySafe, E!Consumes \/ E!Midnight
  PROVE  EnergySafe' /\ lastValue' = lastValue
<1> USE DEF EnergySafe, Counters, Metered
<1>1. /\ UNCHANGED <<missed, start, energy, sentIndex, lastValue, reading,
                     given, pending>>
  BY DEF E!Consumes, E!Midnight, E!index, E!roundState
<1>2. /\ Accounting' /\ Rounds' /\ Forward'
  BY <1>1 DEF Accounting, Rounds, Forward
<1>3. CASE E!Consumes
  <2>1. /\ today' = today + 1 /\ due' = due + 1 /\ fresh' = fresh + 1
        /\ late' = late /\ crossed' = crossed
    BY <1>3 DEF E!Consumes
  <2>2. Counters' /\ Metered'
    BY <1>1, <2>1, EnergyFields
  <2>3. E!Balanced'
    <3> SUFFICES ASSUME energy # None
                 PROVE  energy.index + missed + late + (fresh + 1)
                          = start + (due + 1)
      BY <1>1, <2>1 DEF E!Balanced
    <3>1. energy.index + missed + late + fresh = start + due
      BY DEF E!Balanced
    <3>2. /\ energy.index \in Nat /\ missed \in Nat /\ start \in Nat
          /\ late \in Nat /\ fresh \in Nat /\ due \in Nat
      BY EnergyFields DEF Accounting
    <3>3. PICK x \in Nat : x = energy.index
      BY <3>2
    <3>4. x + missed + late + (fresh + 1) = start + (due + 1)
      <4>1. x + missed + late + fresh = start + due
        BY ONLY <3>1, <3>3
      <4>2. /\ missed \in Nat /\ start \in Nat /\ late \in Nat
            /\ fresh \in Nat /\ due \in Nat
        BY ONLY <3>2
      <4>3. x \in Nat
        BY ONLY <3>3
      <4> QED
        BY ONLY <4>1, <4>2, <4>3, OneMore
    <3> QED
      BY ONLY <3>3, <3>4
  <2> QED
    BY <1>1, <1>2, <2>2, <2>3
<1>4. CASE E!Midnight
  <2>1. /\ today' = 0 /\ due' = due /\ fresh' = 0
        /\ late' = late + fresh /\ crossed' = TRUE
    BY <1>4 DEF E!Midnight
  <2>2. Counters' /\ Metered'
    BY <1>1, <2>1, EnergyFields
  <2>3. E!Balanced'
    <3> SUFFICES ASSUME energy # None
                 PROVE  energy.index + missed + (late + fresh) + 0 = start + due
      BY <1>1, <2>1 DEF E!Balanced
    <3>1. energy.index + missed + late + fresh = start + due
      BY DEF E!Balanced
    <3>2. energy.index \in Nat /\ missed \in Nat /\ late \in Nat /\ fresh \in Nat
      BY EnergyFields DEF Accounting
    <3> QED
      BY <3>1, <3>2, OneMore
  <2> QED
    BY <1>1, <1>2, <2>2, <2>3
<1> QED
  BY <1>3, <1>4

LEMMA ReadingKept ==
  ASSUME EnergySafe, E!Reading
  PROVE  EnergySafe' /\ lastValue' = lastValue
<1> USE DEF EnergySafe
<1>0. /\ reading = "asking" /\ given \in Nat /\ given = lastValue
      /\ lastValue' = lastValue /\ today' = today /\ sentIndex' = sentIndex
      /\ late' = 0 /\ fresh' = 0 /\ crossed' = FALSE
      /\ reading' = "flushing" /\ given' = None
      /\ energy' = E!accumulateEnergy(energy, today, given)
      /\ pending' = IF energy'.index = sentIndex THEN None ELSE energy'.index
  BY DEF E!Reading, E!Accounts, Rounds, Forward, Accounting
<1>1. CASE energy = None
  <2>1. /\ energy' = [lastToday |-> today, index |-> given]
        /\ due' = 0 /\ missed' = 0 /\ start' = given
    BY <1>0, <1>1 DEF E!accumulateEnergy, E!Reading, E!Accounts
  <2>2. energy' \in [lastToday : Nat, index : Nat]
    BY <1>0, <2>1, NoneIsNoNumber DEF Counters
  <2>3. energy'.lastToday = today /\ energy'.index = given
    BY <2>1
  <2>4. Counters' /\ Accounting'
    BY <1>0, <2>1 DEF Counters, Accounting
  <2>5. Metered'
    <3>1. today = today + 0
      BY DEF Counters
    <3> QED
      BY <1>0, <2>2, <2>3, <3>1 DEF Metered
  <2>8. Rounds'
    BY <1>0, <2>2, <2>3 DEF Rounds
  <2>6. Forward'
    BY <1>0, <2>3, NoneIsNoNumber DEF Forward
  <2>7. E!Balanced'
    BY <1>0, <2>1, <2>3 DEF E!Balanced
  <2> QED
    BY <1>0, <2>4, <2>5, <2>6, <2>7, <2>8
<1>2. CASE energy # None
  <2>1. PICK l \in Nat, x \in Nat : energy = [lastToday |-> l, index |-> x]
    BY <1>2 DEF Metered
  <2> DEFINE gain == IF today >= l THEN today - l ELSE today
             hidden == IF crossed /\ today >= l THEN l ELSE 0
  <2>2. /\ energy' = [lastToday |-> today, index |-> x + gain]
        /\ due' = due /\ start' = start /\ missed' = missed + (late + hidden)
    BY <1>0, <1>2, <2>1 DEF E!accumulateEnergy, E!Reading, E!Accounts, E!Hidden
  <2>3. gain \in Nat /\ hidden \in Nat
    BY DEF Counters
  <2>4. gain + hidden = fresh
    BY <1>2, <2>1 DEF Counters, Metered
  <2>5. /\ x + gain \in Nat /\ lastValue <= x + gain
        /\ missed + (late + hidden) \in Nat
    BY <1>2, <2>1, <2>3 DEF Counters, Accounting, Forward
  <2>6. x + missed + late + fresh = start + due
    BY <1>2, <2>1 DEF E!Balanced
  <2>7. (x + gain) + (missed + (late + hidden)) + 0 + 0 = start + due
    BY <2>3, <2>4, <2>6 DEF Counters, Accounting
  <2> HIDE DEF gain, hidden
  <2>8. energy' \in [lastToday : Nat, index : Nat] /\ energy'.index = x + gain
    BY <2>2, <2>5 DEF Counters
  <2>9. E!Balanced'
    BY <1>0, <2>2, <2>7, <2>8 DEF E!Balanced
  <2>10. Counters' /\ Accounting'
    BY <1>0, <2>2, <2>5 DEF Counters, Accounting
  <2>13. energy'.lastToday = today
    BY <2>2
  <2>11. Metered' /\ Rounds'
    <3>1. today = today + 0
      BY DEF Counters
    <3>2. Metered'
      BY <1>0, <2>8, <2>13, <3>1 DEF Metered
    <3> QED
      BY <1>0, <2>8, <3>2 DEF Rounds
  <2>12. Forward'
    BY <1>0, <2>5, <2>8, NoneIsNoNumber DEF Forward
  <2> QED
    BY <1>0, <2>9, <2>10, <2>11, <2>12
<1> QED
  BY <1>1, <1>2

(* The rest of a round moves neither the meter nor the index; what it      *)
(* publishes is the index.                                                 *)
LEMMA RoundKept ==
  ASSUME EnergySafe,
         \/ E!Lists \/ E!NoReading \/ E!NothingToFlush \/ E!IndexTaken
         \/ E!IndexRefused \/ E!IndexUnanswered \/ E!Restarts
         \/ UNCHANGED E!vars
  PROVE  EnergySafe' /\ lastValue' >= lastValue
<1> USE NoneIsNoNumber DEF EnergySafe
<1>1. UNCHANGED <<today, due, late, fresh, crossed, missed, start>>
  BY DEF E!Lists, E!NoReading, E!NothingToFlush, E!IndexTaken, E!IndexRefused,
         E!IndexUnanswered, E!Flushed, E!Restarts, E!vars, E!meter
<1>2. energy' = energy \/ energy' = None
  BY DEF E!Lists, E!NoReading, E!NothingToFlush, E!IndexTaken, E!IndexRefused,
         E!IndexUnanswered, E!Flushed, E!Restarts, E!vars, E!index
<1>3. Counters' /\ Metered' /\ E!Balanced'
  BY <1>1, <1>2 DEF Counters, Metered, E!Balanced
<1>4. CASE E!Lists
  BY <1>1, <1>3, <1>4 DEF E!Lists, E!index, Accounting, Rounds, Forward
<1>5. CASE E!NoReading
  BY <1>1, <1>3, <1>5 DEF E!NoReading, E!index, Accounting, Rounds, Forward
<1>6. CASE E!NothingToFlush \/ E!IndexRefused
  BY <1>1, <1>3, <1>6
  DEF E!NothingToFlush, E!IndexRefused, E!Flushed, Accounting, Rounds, Forward
<1>7. CASE E!IndexTaken \/ E!IndexUnanswered
  BY <1>1, <1>3, <1>7
  DEF E!IndexTaken, E!IndexUnanswered, E!Flushed, Accounting, Rounds, Forward
<1>8. CASE E!Restarts
  BY <1>1, <1>3, <1>8 DEF E!Restarts, Accounting, Rounds, Forward
<1>9. CASE UNCHANGED E!vars
  BY <1>1, <1>3, <1>9
  DEF E!vars, E!index, E!roundState, Accounting, Rounds, Forward
<1> QED
  BY <1>4, <1>5, <1>6, <1>7, <1>8, <1>9

LEMMA EnergyKept ==
  ASSUME EnergySafe, [E!Next]_(E!vars)
  PROVE  EnergySafe' /\ lastValue' >= lastValue
<1>1. lastValue >= lastValue
  BY DEF EnergySafe, Accounting
<1>2. CASE E!Consumes \/ E!Midnight
  BY <1>1, <1>2, PlugKept
<1>3. CASE E!Reading
  BY <1>1, <1>3, ReadingKept
<1> QED
  BY <1>2, <1>3, RoundKept DEF E!Next

LEMMA EnergyHolds == Spec => []EnergySafe
<1>1. Init => EnergySafe
  <2> SUFFICES ASSUME E!Init PROVE EnergySafe
    BY Initially
  <2>1. Counters /\ Accounting /\ Rounds
    BY DEF E!Init, Counters, Accounting, Rounds
  <2>2. Metered /\ Forward /\ E!Balanced
    BY DEF E!Init, Metered, Forward, E!Balanced
  <2> QED
    BY <2>1, <2>2 DEF EnergySafe
<1>2. EnergySafe /\ [Next]_vars => EnergySafe'
  BY ComponentSteps, EnergyKept
<1> QED
  BY <1>1, <1>2, PTL DEF Spec

(* The index Gladys shows never goes back and counts what the plug         *)
(* consumed once, for any number of midnights, silences, refusals, lost    *)
(* answers and restarts (manager.js, accumulateEnergy).                    *)
THEOREM IndexTrueHolds == Spec => IndexTrue
<1>1. EnergySafe /\ [Next]_vars
      => [lastValue' >= lastValue /\ E!Balanced']_(E!vars)
  BY ComponentSteps, EnergyKept DEF EnergySafe
<1> QED
  BY <1>1, EnergyHolds, PTL DEF Spec, IndexTrue, E!IndexTrue

LEMMA EnergyTyped == EnergySafe => E!TypeOK
  BY DEF EnergySafe, Counters, Accounting, Rounds, Metered, Forward, E!TypeOK


---------------------------------------------------------------------------
(* ButtonLog: the presses of a button are told once and in order, and      *)
(* every one seen is told, turned down or forgotten by the hub.            *)

Lists(q, p) == \E i \in DOMAIN q : q[i] = p

ButtonTypes ==
  /\ presses \in Seq(BOOLEAN) /\ Len(presses) <= MaxPresses
  /\ mark = None \/ (mark \in Nat /\ mark <= Len(presses))
  /\ since = None \/ since \in Nat
  /\ mark = None <=> since = None
  /\ looking \in {"idle", "asking", "flushing"}
  /\ queue \in Seq(B!Ids) /\ told \in Seq(B!Ids)
  /\ queue = << >> \/ looking = "flushing"
  /\ turnedDown \subseteq B!Ids /\ rolled \subseteq B!Ids
  /\ blind \in BOOLEAN

(* What is queued comes after all that was told, and up to the mark.       *)
Ordered ==
  /\ B!Increasing(queue)
  /\ \A j \in DOMAIN queue : mark # None /\ queue[j] <= mark
  /\ ~blind =>
       /\ B!Increasing(told)
       /\ \A i \in DOMAIN told :
            told[i] <= Len(presses) /\ (mark # None => told[i] <= mark)
       /\ \A i \in DOMAIN told, j \in DOMAIN queue : told[i] < queue[j]

(* A press between the first look and the mark is accounted for.           *)
Accounted(p) ==
  p \in turnedDown \cup rolled \/ Lists(told, p) \/ Lists(queue, p)
AllAccounted ==
  mark # None => \A p \in (since + 1)..mark : presses[p] => Accounted(p)

ButtonInv == ButtonTypes /\ Ordered /\ AllAccounted

LEMMA NoneIsNoMark == None \notin Nat
BY Assumed DEF B!ButtonAssumption

LEMMA IdsAreNumbers == MaxPresses \in Nat \ {0} /\ B!Ids \subseteq Nat
BY Assumed DEF B!ButtonAssumption, B!Ids

(* A call takes the beginning of the queue and leaves the rest.            *)
LEMMA CallSplits ==
  ASSUME NEW Els, NEW q \in Seq(Els), NEW n \in 1..Len(q)
  PROVE  /\ SubSeq(q, 1, n) \in Seq(Els)
         /\ DOMAIN SubSeq(q, 1, n) = 1..n
         /\ Len(SubSeq(q, 1, n)) = n
         /\ \A i \in 1..n : SubSeq(q, 1, n)[i] = q[i]
         /\ SubSeq(q, n + 1, Len(q)) \in Seq(Els)
         /\ DOMAIN SubSeq(q, n + 1, Len(q)) = 1..(Len(q) - n)
         /\ \A i \in 1..(Len(q) - n) :
              SubSeq(q, n + 1, Len(q))[i] = q[n + i]
<1>1. Len(q) \in Nat /\ n \in Nat /\ n <= Len(q) /\ n >= 1
  BY LenProperties
<1>2. \A i \in 1..Len(q) : q[i] \in Els
  BY ElementOfSeq
<1>3. /\ SubSeq(q, 1, n) \in Seq(Els)
      /\ Len(SubSeq(q, 1, n)) = n
      /\ \A i \in 1..n : SubSeq(q, 1, n)[i] = q[i]
  <2>1. \A i \in 1..n : q[i] \in Els
    BY <1>1, <1>2
  <2>2. 1 \in Int /\ n \in Int
    BY <1>1
  <2>3. /\ SubSeq(q, 1, n) \in Seq(Els)
        /\ Len(SubSeq(q, 1, n)) = IF 1 <= n THEN n - 1 + 1 ELSE 0
        /\ \A i \in 1..(n - 1 + 1) : SubSeq(q, 1, n)[i] = q[1 + i - 1]
    BY <2>1, <2>2, SubSeqProperties
  <2> QED
    BY <1>1, <2>3
<1>4. /\ SubSeq(q, n + 1, Len(q)) \in Seq(Els)
      /\ Len(SubSeq(q, n + 1, Len(q))) = Len(q) - n
      /\ \A i \in 1..(Len(q) - n) : SubSeq(q, n + 1, Len(q))[i] = q[n + i]
  <2>1. \A i \in (n + 1)..Len(q) : q[i] \in Els
    BY <1>1, <1>2
  <2>2. n + 1 \in Int /\ Len(q) \in Int
    BY <1>1
  <2>3. /\ SubSeq(q, n + 1, Len(q)) \in Seq(Els)
        /\ Len(SubSeq(q, n + 1, Len(q)))
             = IF n + 1 <= Len(q) THEN Len(q) - (n + 1) + 1 ELSE 0
        /\ \A i \in 1..(Len(q) - (n + 1) + 1) :
             SubSeq(q, n + 1, Len(q))[i] = q[(n + 1) + i - 1]
    BY <2>1, <2>2, SubSeqProperties
  <2> QED
    BY <1>1, <2>3
<1> QED
  BY <1>1, <1>3, <1>4, LenProperties

(* The presses a look queues are queued in order.                          *)
LEMMA Listed ==
  ASSUME NEW logs, logs \subseteq B!Ids, NEW q \in B!Listings(logs)
  PROVE  /\ q \in Seq(B!Ids) /\ B!Increasing(q)
         /\ \A i \in DOMAIN q : q[i] \in logs
         /\ \A p \in logs : Lists(q, p)
<1>1. Cardinality(logs) \in Nat
  <2>1. IsFiniteSet(B!Ids)
    BY IdsAreNumbers, FS_Interval DEF B!Ids
  <2> QED
    BY <2>1, FS_Subset, FS_CardinalityType
<1>2. /\ q \in [1..Cardinality(logs) -> logs] /\ B!Increasing(q)
      /\ \A p \in logs : \E i \in DOMAIN q : q[i] = p
  <2>1. B!Cardinality(logs) = Cardinality(logs)
    BY DEF B!Cardinality, Cardinality
  <2> QED
    BY <2>1 DEF B!Listings
<1>3. q \in Seq(B!Ids)
  <2>1. q \in [1..Cardinality(logs) -> B!Ids]
    BY <1>2
  <2> QED
    BY <1>1, <2>1, SeqDef
<1> QED
  BY <1>2, <1>3 DEF Lists

(* The log only grows.                                                     *)
LEMMA PressKept ==
  ASSUME ButtonInv, NEW knows \in BOOLEAN, B!Pressed(knows)
  PROVE  ButtonInv'
<1>1. /\ presses \in Seq(BOOLEAN) /\ Len(presses) \in Nat
      /\ Len(presses) < MaxPresses
      /\ presses' = Append(presses, knows)
      /\ UNCHANGED <<mark, looking, queue, told, turnedDown, rolled, since,
                     blind>>
  BY LenProperties DEF ButtonInv, ButtonTypes, B!Pressed, B!latest, B!seen,
     B!facts
<1>2. /\ presses' \in Seq(BOOLEAN) /\ Len(presses') = Len(presses) + 1
      /\ \A p \in 1..Len(presses) : presses'[p] = presses[p]
  BY <1>1, AppendProperties
<1>3. Len(presses') <= MaxPresses
  BY <1>1, <1>2, IdsAreNumbers
<1>4. mark = None \/ (mark \in Nat /\ mark <= Len(presses'))
  BY <1>1, <1>2 DEF ButtonInv, ButtonTypes
<1>5. ButtonTypes'
  BY <1>1, <1>2, <1>3, <1>4 DEF ButtonInv, ButtonTypes
<1>6. Ordered'
  <2>1. \A i \in DOMAIN told : told[i] \in Nat
    BY IdsAreNumbers, LenProperties, ElementOfSeq DEF ButtonInv, ButtonTypes
  <2>2. \A i \in DOMAIN told : ~blind => told[i] <= Len(presses')
    BY <1>1, <1>2, <2>1 DEF ButtonInv, Ordered
  <2> QED
    BY <1>1, <2>2 DEF ButtonInv, Ordered
<1>7. AllAccounted'
  <2> SUFFICES ASSUME mark # None, NEW p \in (since + 1)..mark, presses'[p]
               PROVE  Accounted(p)'
    BY <1>1 DEF AllAccounted
  <2>1. p \in 1..Len(presses)
    BY <1>1 DEF ButtonInv, ButtonTypes
  <2>2. Accounted(p)
    BY <1>2, <2>1 DEF ButtonInv, AllAccounted
  <2> QED
    BY <1>1, <2>2 DEF Accounted, Lists
<1> QED
  BY <1>5, <1>6, <1>7 DEF ButtonInv

(* A look at the log, or at what passes for it: it lists no event after    *)
(* newest, and those it leaves out after the mark are recorded.            *)
LEMMA LookKept ==
  ASSUME ButtonInv, NEW logs, NEW newest \in Nat,
         logs \subseteq DOMAIN presses, newest <= Len(presses),
         \A p \in logs : p <= newest,
         B!Collects(logs, newest),
         mark # None =>
           \A p \in (mark + 1)..newest : p \in logs \/ p \in rolled',
         rolled \subseteq rolled', rolled' \subseteq B!Ids,
         mark = None => blind' \/ newest = Len(presses),
         blind => blind', blind' \in BOOLEAN,
         UNCHANGED <<presses, told, turnedDown>>
  PROVE  ButtonInv'
<1>1. /\ looking = "asking" /\ looking' = "flushing" /\ queue = << >>
      /\ mark' = B!Larger(newest, B!OrZero(mark))
      /\ since' = IF mark = None THEN newest ELSE since
  BY DEF ButtonInv, ButtonTypes, B!Collects, B!Marks
<1>2. /\ DOMAIN presses = 1..Len(presses) /\ Len(presses) \in Nat
      /\ 1..Len(presses) \subseteq B!Ids
  BY LenProperties, IdsAreNumbers DEF ButtonInv, ButtonTypes, B!Ids
<1>3. CASE mark = None
  <2>1. mark' = newest /\ since' = newest /\ queue' = << >>
    BY <1>1, <1>3 DEF B!Larger, B!OrZero, B!Collects, B!Queues
  <2>2. ButtonTypes'
    <3>1. mark' \in Nat /\ mark' <= Len(presses') /\ since' \in Nat
      BY <2>1
    <3>2. mark' # None /\ since' # None
      BY <3>1, NoneIsNoMark
    <3> QED
      BY <1>1, <2>1, <3>1, <3>2, EmptySeq DEF ButtonInv, ButtonTypes
  <2>3. Ordered'
    BY <1>3, <2>1, EmptySeq DEF ButtonInv, Ordered, B!Increasing
  <2>4. AllAccounted'
    BY <2>1 DEF AllAccounted
  <2> QED
    BY <2>2, <2>3, <2>4 DEF ButtonInv
<1>4. CASE mark # None
  <2>1. /\ mark \in Nat /\ mark <= Len(presses) /\ since \in Nat
        /\ since' = since
    BY <1>1, <1>4 DEF ButtonInv, ButtonTypes
  <2>2. /\ mark' \in Nat /\ mark <= mark' /\ mark' <= Len(presses)
        /\ newest <= mark' /\ (mark' = newest \/ mark' = mark)
    <3>1. mark' = IF newest > mark THEN newest ELSE mark
      BY <1>1, <1>4 DEF B!Larger, B!OrZero
    <3>2. Len(presses) \in Nat /\ newest \in Nat /\ newest <= Len(presses)
      BY <1>2
    <3> QED
      BY ONLY <2>1, <3>1, <3>2
  <2> DEFINE new == {p \in logs : p > mark /\ presses[p]}
  <2>3. new \subseteq B!Ids
    BY <1>2
  <2>4. queue' \in B!Listings(new)
    BY <1>4 DEF B!Collects, B!Queues
  <2>5. /\ queue' \in Seq(B!Ids) /\ B!Increasing(queue)'
        /\ \A i \in DOMAIN queue' : queue'[i] \in new
        /\ \A p \in new : Lists(queue, p)'
    <3> HIDE DEF new
    <3>1. /\ queue' \in Seq(B!Ids) /\ B!Increasing(queue')
          /\ \A i \in DOMAIN queue' : queue'[i] \in new
          /\ \A p \in new : Lists(queue', p)
      BY <2>3, <2>4, Listed
    <3> QED
      BY <3>1 DEF B!Increasing, Lists
  <2>6. \A i \in DOMAIN queue' :
          queue'[i] \in Nat /\ queue'[i] > mark /\ queue'[i] <= mark'
    <3> SUFFICES ASSUME NEW i \in DOMAIN queue'
                 PROVE  queue'[i] \in Nat /\ queue'[i] > mark /\ queue'[i] <= mark'
      OBVIOUS
    <3>1. PICK p \in logs : p = queue'[i] /\ p > mark
      BY <2>5
    <3>2. p \in 1..Len(presses) /\ p <= newest
      BY ONLY <1>2, <3>1, logs \subseteq DOMAIN presses,
              \A e \in logs : e <= newest
    <3>3. p \in Nat
      BY ONLY <3>2
    <3> QED
      BY ONLY <2>1, <2>2, <3>1, <3>2, <3>3, newest \in Nat
  <2>7. ButtonTypes'
    BY <1>1, <1>4, <2>1, <2>2, <2>5, NoneIsNoMark DEF ButtonInv, ButtonTypes
  <2>8. Ordered'
    <3>1. \A i \in DOMAIN told : told[i] \in Nat
      BY IdsAreNumbers, LenProperties, ElementOfSeq DEF ButtonInv, ButtonTypes
    <3>2. ~blind' =>
            /\ B!Increasing(told)
            /\ \A i \in DOMAIN told : told[i] <= Len(presses) /\ told[i] <= mark
      BY <1>4 DEF ButtonInv, ButtonTypes, Ordered
    <3>3. ~blind' =>
            /\ B!Increasing(told)'
            /\ \A i \in DOMAIN told' :
                 told'[i] <= Len(presses') /\ told'[i] <= mark'
            /\ \A i \in DOMAIN told', j \in DOMAIN queue' :
                 told'[i] < queue'[j]
      BY <2>1, <2>2, <2>6, <3>1, <3>2 DEF B!Increasing
    <3> QED
      BY <2>2, <2>5, <2>6, <3>3, NoneIsNoMark DEF Ordered
  <2>9. AllAccounted'
    <3> SUFFICES ASSUME NEW p \in (since + 1)..mark', presses[p]
                 PROVE  Accounted(p)'
      BY <2>1 DEF AllAccounted
    <3>1. CASE p <= mark
      <4>1. Accounted(p)
        BY <1>4, <2>1, <2>2, <3>1 DEF ButtonInv, AllAccounted
      <4>2. ~Lists(queue, p)
        BY <1>1, EmptySeq DEF Lists
      <4> QED
        BY <4>1, <4>2 DEF Accounted, Lists
    <3>2. CASE p > mark
      <4>1. p \in (mark + 1)..newest
        BY <2>1, <2>2, <3>2
      <4>2. p \in new \/ p \in rolled'
        BY <1>4, <3>2, <4>1
      <4> QED
        BY <2>5, <4>2 DEF Accounted
    <3> QED
      BY <2>1, <2>2, <3>1, <3>2
  <2> QED
    BY <2>7, <2>8, <2>9 DEF ButtonInv
<1> QED
  BY <1>3, <1>4

(* A call takes presses off the queue, told or turned down.                *)
LEMMA CallKept ==
  ASSUME ButtonInv, NEW n \in 1..Len(queue),
         B!CallTaken(n) \/ B!CallRefused(n)
  PROVE  ButtonInv'
<1>1. /\ UNCHANGED <<presses, mark, looking, rolled, since, blind>>
      /\ queue' = SubSeq(queue, n + 1, Len(queue))
  BY DEF B!CallTaken, B!CallRefused, B!Sent
<1>2. /\ queue \in Seq(B!Ids) /\ Len(queue) \in Nat /\ n \in Nat
      /\ DOMAIN queue = 1..Len(queue) /\ n <= Len(queue) /\ n >= 1
  BY LenProperties DEF ButtonInv, ButtonTypes
<1>3. \A i \in DOMAIN queue : queue[i] \in B!Ids /\ queue[i] \in Nat
  BY <1>2, ElementOfSeq, IdsAreNumbers
<1>4. /\ queue' \in Seq(B!Ids) /\ DOMAIN queue' = 1..(Len(queue) - n)
      /\ \A i \in DOMAIN queue' : n + i \in DOMAIN queue /\ queue'[i] = queue[n + i]
  BY <1>1, <1>2, CallSplits
<1>5. B!Increasing(queue)'
  <2> SUFFICES ASSUME NEW i \in DOMAIN queue', NEW j \in DOMAIN queue', i < j
               PROVE  queue'[i] < queue'[j]
    BY DEF B!Increasing
  <2>1. n + i < n + j
    BY <1>2, <1>4
  <2> QED
    BY <1>4, <2>1 DEF ButtonInv, Ordered, B!Increasing
<1>6. \A j \in DOMAIN queue' : mark' # None /\ queue'[j] <= mark'
  BY <1>1, <1>4 DEF ButtonInv, Ordered
<1>7. queue # << >> /\ looking = "flushing" /\ looking' = "flushing"
  BY <1>1, <1>2, EmptySeq DEF ButtonInv, ButtonTypes
<1>8. \A p : Lists(queue, p)
        => Lists(queue, p)' \/ \E i \in 1..n : queue[i] = p
  <2> SUFFICES ASSUME NEW i \in DOMAIN queue, ~(i \in 1..n)
               PROVE  \E j \in DOMAIN queue' : queue'[j] = queue[i]
    BY DEF Lists
  <2>1. i - n \in DOMAIN queue' /\ n + (i - n) = i
    BY <1>2, <1>4
  <2> QED
    BY <1>4, <2>1
<1>9. CASE B!CallTaken(n)
  <2>1. told' = told \o SubSeq(queue, 1, n) /\ turnedDown' = turnedDown
    BY <1>9 DEF B!CallTaken
  <2>2. /\ told \in Seq(B!Ids) /\ Len(told) \in Nat
        /\ DOMAIN told = 1..Len(told)
    BY LenProperties DEF ButtonInv, ButtonTypes
  <2>3. /\ told' \in Seq(B!Ids) /\ DOMAIN told' = 1..(Len(told) + n)
        /\ \A i \in 1..(Len(told) + n) :
             told'[i] = IF i <= Len(told) THEN told[i]
                          ELSE SubSeq(queue, 1, n)[i - Len(told)]
    <3>1. SubSeq(queue, 1, n) \in Seq(B!Ids) /\ Len(SubSeq(queue, 1, n)) = n
      BY <1>2, CallSplits
    <3> HIDE DEF B!Ids
    <3>2. /\ told' \in Seq(B!Ids) /\ Len(told') = Len(told) + n
          /\ \A i \in 1..(Len(told) + n) :
               told'[i] = IF i <= Len(told) THEN told[i]
                            ELSE SubSeq(queue, 1, n)[i - Len(told)]
      BY <2>1, <2>2, <3>1, ConcatProperties
    <3> QED
      BY <3>2, LenProperties
  <2>4. /\ \A i \in 1..Len(told) : told'[i] = told[i]
        /\ \A i \in 1..n : /\ Len(told) + i \in DOMAIN told'
                           /\ told'[Len(told) + i] = queue[i]
    <3>1. \A i \in 1..n : SubSeq(queue, 1, n)[i] = queue[i]
      BY <1>2, CallSplits
    <3> QED
      BY <1>2, <2>2, <2>3, <3>1
  <2>5. \A i \in DOMAIN told' :
          \/ i \in DOMAIN told
          \/ \E k \in 1..n : k \in DOMAIN queue /\ i = Len(told) + k
    <3> SUFFICES ASSUME NEW i \in DOMAIN told', i \notin DOMAIN told
                 PROVE  \E k \in 1..n : k \in DOMAIN queue /\ i = Len(told) + k
      OBVIOUS
    <3>1. i - Len(told) \in 1..n /\ i = Len(told) + (i - Len(told))
      BY <1>2, <2>2, <2>3
    <3> QED
      BY <1>2, <3>1
  <2>6. ButtonTypes'
    BY <1>1, <1>4, <1>7, <2>1, <2>3 DEF ButtonInv, ButtonTypes
  <2>7. ASSUME ~blind
        PROVE  /\ B!Increasing(told)'
               /\ \A i \in DOMAIN told' :
                    /\ told'[i] <= Len(presses)
                    /\ mark # None => told'[i] <= mark
               /\ \A i \in DOMAIN told', j \in DOMAIN queue' :
                    told'[i] < queue'[j]
    <3>1. /\ B!Increasing(told) /\ B!Increasing(queue)
          /\ \A i \in DOMAIN told :
               told[i] <= Len(presses) /\ (mark # None => told[i] <= mark)
          /\ \A i \in DOMAIN told, j \in DOMAIN queue : told[i] < queue[j]
          /\ \A j \in DOMAIN queue : mark # None /\ queue[j] <= mark
      BY <2>7 DEF ButtonInv, Ordered
    <3>2. mark # None => mark \in Nat /\ mark <= Len(presses)
      BY DEF ButtonInv, ButtonTypes
    <3>3. Len(presses) \in Nat
      BY LenProperties DEF ButtonInv, ButtonTypes
    <3>4. ASSUME NEW i \in DOMAIN told', NEW j \in DOMAIN told', i < j
          PROVE  told'[i] < told'[j]
      <4>1. CASE i \in DOMAIN told /\ j \in DOMAIN told
        BY <2>2, <2>4, <3>1, <3>4, <4>1 DEF B!Increasing
      <4>2. CASE i \in DOMAIN told /\ j \notin DOMAIN told
        <5>1. PICK k \in 1..n : k \in DOMAIN queue /\ j = Len(told) + k
          BY <2>5, <4>2
        <5> QED
          BY <2>2, <2>4, <3>1, <4>2, <5>1
      <4>3. CASE i \notin DOMAIN told
        <5>1. PICK k \in 1..n : k \in DOMAIN queue /\ i = Len(told) + k
          BY <2>5, <4>3
        <5>2. j \notin DOMAIN told
          BY <2>2, <2>3, <3>4, <5>1
        <5>3. PICK m \in 1..n : m \in DOMAIN queue /\ j = Len(told) + m
          BY <2>5, <5>2
        <5>4. k < m
          BY <2>2, <3>4, <5>1, <5>3
        <5> QED
          BY <2>4, <3>1, <5>1, <5>3, <5>4 DEF B!Increasing
      <4> QED
        BY <4>1, <4>2, <4>3
    <3>5. ASSUME NEW i \in DOMAIN told'
          PROVE  /\ told'[i] <= Len(presses)
                 /\ mark # None => told'[i] <= mark
                 /\ \A j \in DOMAIN queue' : told'[i] < queue'[j]
      <4>1. CASE i \in DOMAIN told
        BY <1>4, <2>2, <2>4, <3>1, <4>1
      <4>2. CASE i \notin DOMAIN told
        <5>1. PICK k \in 1..n : k \in DOMAIN queue /\ i = Len(told) + k
          BY <2>5, <4>2
        <5>2. told'[i] = queue[k] /\ queue[k] \in Nat
          BY <1>3, <2>4, <5>1
        <5>3. \A j \in DOMAIN queue' : k < n + j
          BY <1>2, <1>4, <5>1
        <5> QED
          BY <1>4, <3>1, <3>2, <3>3, <5>1, <5>2, <5>3 DEF B!Increasing
      <4> QED
        BY <4>1, <4>2
    <3> QED
      BY <3>4, <3>5 DEF B!Increasing
  <2>8. Ordered'
    BY <1>1, <1>5, <1>6, <2>7 DEF Ordered
  <2>9. \A p : Accounted(p) => Accounted(p)'
    <3>1. \A p : Lists(told, p) => Lists(told, p)'
      BY <2>2, <2>3, <2>4 DEF Lists
    <3>2. \A i \in 1..n : Lists(told', queue[i])
      BY <2>4 DEF Lists
    <3>3. \A p : Lists(queue, p) => Lists(queue, p)' \/ Lists(told, p)'
      BY <1>8, <3>2
    <3> QED
      BY <1>1, <2>1, <3>1, <3>3 DEF Accounted
  <2>10. AllAccounted'
    BY <1>1, <2>9 DEF ButtonInv, AllAccounted
  <2> QED
    BY <2>6, <2>8, <2>10 DEF ButtonInv
<1>10. CASE B!CallRefused(n)
  <2>1. /\ told' = told
        /\ turnedDown' = turnedDown \cup {queue[i] : i \in 1..n}
    BY <1>10 DEF B!CallRefused, B!SentUpTo
  <2>2. ButtonTypes'
    <3>1. turnedDown' \subseteq B!Ids
      <4>1. turnedDown \subseteq B!Ids
        BY DEF ButtonInv, ButtonTypes
      <4>2. \A i \in 1..n : queue[i] \in B!Ids
        BY <1>2, <1>3
      <4> QED
        BY <2>1, <4>1, <4>2
    <3> QED
      BY <1>1, <1>4, <1>7, <2>1, <3>1 DEF ButtonInv, ButtonTypes
  <2>3. Ordered'
    BY <1>1, <1>4, <1>5, <1>6, <2>1 DEF ButtonInv, Ordered, B!Increasing
  <2>4. \A p : Accounted(p) => Accounted(p)'
    BY <1>1, <1>8, <2>1 DEF Accounted, Lists
  <2>5. AllAccounted'
    BY <1>1, <2>4 DEF ButtonInv, AllAccounted
  <2> QED
    BY <2>2, <2>3, <2>5 DEF ButtonInv
<1> QED
  BY <1>9, <1>10

LEMMA ButtonKept ==
  ASSUME ButtonInv, [B!Next]_(B!vars)
  PROVE  ButtonInv'
<1>1. CASE \E knows \in BOOLEAN : B!Pressed(knows)
  BY <1>1, PressKept
<1>2. CASE B!Read
  <2>1. /\ presses \in Seq(BOOLEAN) /\ Len(presses) \in Nat
        /\ DOMAIN presses = 1..Len(presses)
        /\ 1..Len(presses) \subseteq B!Ids
    BY LenProperties, IdsAreNumbers DEF ButtonInv, ButtonTypes, B!Ids
  <2>2. /\ B!Collects(B!Logged, Len(presses))
        /\ UNCHANGED <<presses, told, turnedDown, blind>>
    BY <1>2 DEF B!Read, B!latest
  <2>3. B!Logged \subseteq DOMAIN presses
    BY DEF B!Logged
  <2>4. \A p \in B!Logged : p <= Len(presses)
    BY <2>1, <2>3
  <2>5. /\ mark # None =>
             \A p \in (mark + 1)..Len(presses) : p \in B!Logged \/ p \in rolled'
        /\ rolled \subseteq rolled'
    BY <1>2 DEF B!Read, B!latest
  <2>6. rolled' \subseteq B!Ids
    <3>1. mark # None => mark \in Nat
      BY DEF ButtonInv, ButtonTypes
    <3>2. mark # None => (mark + 1)..Len(presses) \subseteq B!Ids
      BY <2>1, <3>1
    <3>3. rolled \subseteq B!Ids
      BY DEF ButtonInv, ButtonTypes
    <3>4. \/ rolled' = rolled
          \/ /\ mark # None
             /\ rolled' = rolled \cup
                  {p \in (mark + 1)..Len(presses) : p \notin B!Logged}
      BY <1>2 DEF B!Read, B!latest
    <3> QED
      BY <3>2, <3>3, <3>4
  <2>7. /\ blind' \in BOOLEAN /\ (blind => blind')
        /\ UNCHANGED <<presses, told, turnedDown>>
    BY <2>2 DEF ButtonInv, ButtonTypes
  <2> HIDE DEF B!Logged
  <2>8. PICK newest \in Nat : newest = Len(presses)
    BY <2>1
  <2> QED
    BY <2>2, <2>3, <2>4, <2>5, <2>6, <2>7, <2>8, LookKept
<1>3. CASE B!Unread
  <2>1. /\ B!Collects({}, 0) /\ UNCHANGED <<presses, told, turnedDown, rolled>>
        /\ blind' = (blind \/ mark = None)
    BY <1>3 DEF B!Unread
  <2>2. blind \in BOOLEAN /\ rolled \subseteq B!Ids /\ Len(presses) \in Nat
    BY LenProperties DEF ButtonInv, ButtonTypes
  <2>3. mark # None => \A p \in (mark + 1)..0 : FALSE
    BY DEF ButtonInv, ButtonTypes
  <2>4. /\ blind' \in BOOLEAN /\ (blind => blind')
        /\ (mark = None => blind' \/ 0 = Len(presses))
    BY <2>1, <2>2
  <2> QED
    BY <2>1, <2>2, <2>3, <2>4, LookKept
<1>4. CASE \E n \in 1..Len(queue) :
             B!CallPublished(n) \/ B!CallUnanswered(n) \/ B!CallRefused(n)
  BY <1>4, CallKept DEF B!CallPublished, B!CallUnanswered
<1>5. CASE B!Asks \/ B!RoundOver \/ UNCHANGED B!vars
  <2>1. /\ UNCHANGED <<presses, mark, queue, told, turnedDown, rolled, since,
                       blind>>
        /\ looking' \in {"idle", "asking", "flushing"}
        /\ queue = << >> \/ looking' = "flushing"
    BY <1>5 DEF B!Asks, B!RoundOver, B!vars, B!seen, B!facts, ButtonInv,
       ButtonTypes
  <2>2. ButtonTypes'
    BY <2>1 DEF ButtonInv, ButtonTypes
  <2>3. Ordered' /\ AllAccounted'
    BY <2>1 DEF ButtonInv, Ordered, AllAccounted, Accounted, Lists, B!Increasing
  <2> QED
    BY <2>2, <2>3 DEF ButtonInv
<1>6. CASE B!Starts
  <2>1. /\ mark' = None /\ looking' = "idle" /\ queue' = << >> /\ since' = None
        /\ UNCHANGED <<presses, told, turnedDown, rolled, blind>>
    BY <1>6 DEF B!Starts
  <2>2. ButtonTypes'
    BY <2>1, EmptySeq DEF ButtonInv, ButtonTypes
  <2>3. Ordered' /\ AllAccounted'
    BY <2>1, EmptySeq DEF ButtonInv, Ordered, AllAccounted, B!Increasing
  <2> QED
    BY <2>2, <2>3 DEF ButtonInv
<1> QED
  BY <1>1, <1>2, <1>3, <1>4, <1>5, <1>6 DEF B!Next

LEMMA ButtonHolds == Spec => []ButtonInv
<1>1. Init => ButtonInv
  <2> SUFFICES ASSUME B!Init PROVE ButtonInv
    BY Initially
  <2>1. /\ mark = None /\ since = None /\ looking = "idle" /\ queue = << >>
        /\ told = << >> /\ turnedDown = {} /\ rolled = {} /\ blind = FALSE
    BY DEF B!Init
  <2>2. presses \in Seq(BOOLEAN) /\ Len(presses) <= MaxPresses
    <3>1. PICK n \in 0..1 : presses \in [1..n -> {TRUE}]
      BY DEF B!Init
    <3>2. n \in Nat /\ {TRUE} \subseteq BOOLEAN
      OBVIOUS
    <3>3. presses \in Seq({TRUE})
      BY <3>1, <3>2, SeqDef
    <3>4. DOMAIN presses = 1..n /\ DOMAIN presses = 1..Len(presses)
      BY <3>1, <3>3, LenProperties
    <3>5. Len(presses) \in Nat /\ Len(presses) = n
      <4>1. Len(presses) \in Nat /\ 1..n = 1..Len(presses)
        BY <3>3, <3>4, LenProperties
      <4> QED
        BY ONLY <3>2, <4>1
    <3>6. presses \in Seq(BOOLEAN)
      BY <3>2, <3>3, SeqMonotonic
    <3> QED
      BY <3>1, <3>5, <3>6, IdsAreNumbers
  <2>3. ButtonTypes
    BY <2>1, <2>2, EmptySeq DEF ButtonTypes
  <2>4. Ordered /\ AllAccounted
    BY <2>1, EmptySeq DEF Ordered, AllAccounted, B!Increasing
  <2> QED
    BY <2>3, <2>4 DEF ButtonInv
<1>2. ButtonInv /\ [Next]_vars => ButtonInv'
  BY ComponentSteps, ButtonKept
<1> QED
  BY <1>1, <1>2, PTL DEF Spec

(* Every press is told once and in order, unless a first look failed, and  *)
(* those seen since the first look are told but for the ones the host      *)
(* refused or the hub forgot, whatever the calls end as and however often  *)
(* the integration restarts (manager.js, collectButton and flush).         *)
THEOREM PressesToldHolds == Spec => []PressesTold
<1>1. ASSUME ButtonInv PROVE PressesTold
  <2>1. blind \/ B!InOrder
    BY <1>1 DEF ButtonInv, ButtonTypes, Ordered, B!InOrder
  <2>2. ASSUME looking = "idle", mark # None,
               NEW p \in (since + 1)..mark, presses[p]
        PROVE  \/ p \in turnedDown \cup rolled
               \/ \E i \in DOMAIN told : told[i] = p
    <3>1. queue = << >>
      BY <1>1, <2>2 DEF ButtonInv, ButtonTypes
    <3>2. Accounted(p)
      BY <1>1, <2>2 DEF ButtonInv, AllAccounted
    <3> QED
      BY <3>1, <3>2, EmptySeq DEF Accounted, Lists
  <2> QED
    BY <2>1, <2>2 DEF PressesTold, B!PressesTold, B!Settled
<1> QED
  BY <1>1, ButtonHolds, PTL

LEMMA ButtonTyped == ButtonInv => B!TypeOK
<1> SUFFICES ASSUME ButtonInv PROVE B!TypeOK
  OBVIOUS
<1>1. {mark, since} \subseteq Nat \cup {None}
  BY DEF ButtonInv, ButtonTypes
<1> QED
  BY <1>1 DEF ButtonInv, ButtonTypes, B!TypeOK

---------------------------------------------------------------------------
(* SmartStates: a round nothing interfered with leaves Gladys showing the  *)
(* value of the device, in whatever order calls are taken and answered.    *)

SwitchTypes ==
  /\ device \in Values /\ online \in BOOLEAN
  /\ shown \in M!Maybe /\ published \in M!Maybe /\ answer \in M!Maybe
  /\ aged \in BOOLEAN /\ alone \in BOOLEAN /\ misled \in BOOLEAN
  /\ round \in {"idle", "asking", "answering", "collected", "flushing", "badges"}
  /\ batch \in M!Maybe /\ (batch # None => round = "collected")
  /\ command = None \/ command \in [value : Values, applied : BOOLEAN]
  /\ calls \subseteq M!Call
  /\ commands \in M!Senders /\ (command # None => commands # 0)
  /\ badge \in M!Badges /\ shownBadge \in M!Badges

(* A round publishes once, in its turn.                                    *)
Queue ==
  /\ round = "flushing" <=> \E c \in calls : c.by = 0
  /\ \A c, d \in calls : c.by = 0 /\ d.by = 0 => c = d

(* What a round that is alone knows of the device is true, up to what      *)
(* Gladys shows at its end.                                                *)
Undisturbed ==
  alone =>
    /\ command = None
    /\ \A c \in calls :
         c.by = 0 /\ c.value = device /\ (c.taken => shown = device)
    /\ round = "answering" => answer = device
    /\ round = "collected" =>
         batch = device \/ (batch = None /\ published = device)
    /\ round = "badges" => shown = device \/ misled

(* A record that is not what is shown has an answer on its way that will   *)
(* correct it, or is known to be wrong.                                    *)
Trusted ==
  published # None /\ ~misled /\ published # shown =>
    \E c \in calls : c.taken /\ c.value = shown

SwitchInv == SwitchTypes /\ Queue /\ Undisturbed /\ Trusted

LEMMA NoneIsNoValue == None \notin Values
BY Assumed DEF M!SmartAssumption

(* An undisturbed round that does not publish leaves no call in flight.    *)
LEMMA NoCall ==
  ASSUME SwitchInv, alone, round # "flushing"
  PROVE  calls = {}
BY DEF SwitchInv, Queue, Undisturbed

(* The device and its commands.                                            *)
LEMMA DeviceKept ==
  ASSUME SwitchInv,
         \/ \E v \in Values : M!Toggled(v) \/ M!Command(v)
         \/ M!GoesAway \/ M!ComesBack \/ M!CommandApplied \/ M!CommandFails
         \/ UNCHANGED M!vars
  PROVE  SwitchInv'
<1>1. UNCHANGED <<shown, published, aged, misled, round, answer, batch, calls,
                  badge, shownBadge>>
  BY DEF M!Toggled, M!Command, M!GoesAway, M!ComesBack, M!CommandApplied,
     M!CommandFails, M!vars, M!record, M!rounds, M!badges
<1>2. Queue' /\ Trusted'
  BY <1>1 DEF SwitchInv, Queue, Trusted
<1>3. ASSUME NEW v \in Values, M!Toggled(v) \/ M!Command(v)
      PROVE  SwitchInv'
  <2>1. /\ device' \in Values /\ online' = online /\ alone' = FALSE
        /\ \/ command' = command /\ commands' = commands
           \/ /\ command' = [value |-> v, applied |-> FALSE]
              /\ commands' = commands + 1 /\ commands < MaxCommands
    BY <1>3 DEF M!Toggled, M!Command, M!plug, SwitchInv, SwitchTypes
  <2>2. command' = None \/ command' \in [value : Values, applied : BOOLEAN]
    <3>1. [value |-> v, applied |-> FALSE] \in [value : Values, applied : BOOLEAN]
      BY Zenon
    <3>2. command = None \/ command \in [value : Values, applied : BOOLEAN]
      BY DEF SwitchInv, SwitchTypes
    <3> QED
      BY <2>1, <3>1, <3>2, Zenon
  <2>3. commands' \in M!Senders /\ (command' # None => commands' # 0)
    <3>1. MaxCommands \in Nat /\ commands \in M!Senders
      BY Assumed DEF M!SmartAssumption, SwitchInv, SwitchTypes
    <3>2. CASE command' = command /\ commands' = commands
      BY <3>2 DEF SwitchInv, SwitchTypes
    <3>3. CASE commands' = commands + 1 /\ commands < MaxCommands
      BY <3>1, <3>3 DEF M!Senders
    <3> QED
      BY <2>1, <3>2, <3>3
  <2>4. alone' \in BOOLEAN /\ online' \in BOOLEAN
    BY <2>1 DEF SwitchInv, SwitchTypes
  <2>5. SwitchTypes'
    BY <1>1, <2>1, <2>2, <2>3, <2>4 DEF SwitchInv, SwitchTypes
  <2> QED
    BY <1>2, <2>1, <2>5 DEF SwitchInv, Undisturbed
<1>4. CASE M!CommandApplied
  <2>1. /\ command # None /\ device' = command.value /\ online' = online
        /\ command' = [command EXCEPT !.applied = TRUE] /\ alone' = alone
        /\ commands' = commands
    BY <1>4 DEF M!CommandApplied, M!bounds
  <2>2. ~alone
    BY <2>1 DEF SwitchInv, Undisturbed
  <2>3. command \in [value : Values, applied : BOOLEAN]
    BY <2>1 DEF SwitchInv, SwitchTypes
  <2>4. device' \in Values /\ command' \in [value : Values, applied : BOOLEAN]
    BY <2>1, <2>3
  <2>5. SwitchTypes'
    BY <1>1, <2>1, <2>4 DEF SwitchInv, SwitchTypes
  <2> QED
    BY <1>2, <2>1, <2>2, <2>5 DEF SwitchInv, Undisturbed
<1>5. CASE M!GoesAway \/ M!ComesBack \/ M!CommandFails \/ UNCHANGED M!vars
  <2>1. /\ device' = device /\ online' \in BOOLEAN /\ alone' = alone
        /\ command' = command \/ command' = None
        /\ commands' = commands
    BY <1>5 DEF M!GoesAway, M!ComesBack, M!CommandFails, M!vars, M!plug,
       M!bounds, SwitchInv, SwitchTypes
  <2>2. SwitchTypes'
    BY <1>1, <2>1 DEF SwitchInv, SwitchTypes
  <2>3. Undisturbed'
    BY <1>1, <2>1 DEF SwitchInv, Undisturbed
  <2> QED
    BY <1>2, <2>2, <2>3 DEF SwitchInv
<1> QED
  BY <1>3, <1>4, <1>5

(* The round, up to its publication.                                       *)
LEMMA AskingKept ==
  ASSUME SwitchInv,
         \/ M!Tick \/ M!Answers \/ M!collect \/ M!RoundFails \/ M!RoundEnds
         \/ M!Ages
  PROVE  SwitchInv'
<1>1. UNCHANGED <<device, online, shown, published, misled, command, calls,
                  commands>>
  BY DEF M!Tick, M!Answers, M!collect, M!RoundFails, M!RoundEnds, M!Ages,
     M!plug, M!record, M!bounds
<1>2. round # "flushing" \/ round' = round
  BY DEF M!Tick, M!Answers, M!collect, M!RoundFails, M!RoundEnds, M!Ages,
     M!rounds
<1>3. round' # "flushing" \/ round' = round
  BY DEF M!Tick, M!Answers, M!collect, M!RoundFails, M!RoundEnds, M!Ages,
     M!rounds
<1>4. Queue' /\ Trusted'
  BY <1>1, <1>2, <1>3 DEF SwitchInv, Queue, Trusted
<1>5. CASE M!Tick
  <2>1. /\ round = "idle" /\ round' = "asking"
        /\ alone' = (command = None /\ calls = {})
        /\ UNCHANGED <<aged, answer, batch, badge, shownBadge>>
    BY <1>5 DEF M!Tick, M!record, M!badges
  <2>2. SwitchTypes'
    BY <1>1, <2>1 DEF SwitchInv, SwitchTypes
  <2>3. Undisturbed'
    BY <1>1, <2>1 DEF Undisturbed
  <2> QED
    BY <1>4, <2>2, <2>3 DEF SwitchInv
<1>6. CASE M!Answers
  <2>1. /\ round' = "answering" /\ answer' = device /\ round = "asking"
        /\ UNCHANGED <<aged, batch, badge, shownBadge, alone>>
    BY <1>6 DEF M!Answers, M!record, M!badges
  <2>2. SwitchTypes'
    BY <1>1, <2>1 DEF SwitchInv, SwitchTypes, M!Maybe
  <2>3. Undisturbed'
    BY <1>1, <2>1 DEF SwitchInv, Undisturbed
  <2> QED
    BY <1>4, <2>2, <2>3 DEF SwitchInv
<1>7. CASE M!collect
  <2>1. /\ round = "answering" /\ round' = "collected" /\ answer' = None
        /\ \/ batch' = answer
           \/ batch' = None /\ answer = published
        /\ UNCHANGED <<aged, badge, shownBadge, alone>>
    BY <1>7 DEF M!collect, M!record, M!badges
  <2>2. SwitchTypes'
    BY <1>1, <2>1 DEF SwitchInv, SwitchTypes, M!Maybe
  <2>3. Undisturbed'
    BY <1>1, <2>1 DEF SwitchInv, Undisturbed
  <2> QED
    BY <1>4, <2>2, <2>3 DEF SwitchInv
<1>8. CASE M!RoundFails \/ M!RoundEnds
  <2>1. /\ round' = "idle" /\ round \in {"asking", "badges"}
        /\ UNCHANGED <<aged, answer, batch, alone>>
    BY <1>8 DEF M!RoundFails, M!RoundEnds, M!record
  <2>2. badge' \in M!Badges /\ shownBadge' \in M!Badges
    BY <1>8 DEF M!RoundFails, M!RoundEnds, M!NoBadge, M!PublishBadge, M!badges,
       M!Badges, SwitchInv, SwitchTypes
  <2>3. SwitchTypes'
    BY <1>1, <2>1, <2>2 DEF SwitchInv, SwitchTypes
  <2>4. Undisturbed'
    BY <1>1, <2>1 DEF SwitchInv, Undisturbed
  <2> QED
    BY <1>4, <2>3, <2>4 DEF SwitchInv
<1>9. CASE M!Ages
  <2>1. /\ aged' = TRUE
        /\ UNCHANGED <<round, answer, batch, badge, shownBadge, alone>>
    BY <1>9 DEF M!Ages, M!rounds, M!badges
  <2>2. SwitchTypes'
    BY <1>1, <2>1 DEF SwitchInv, SwitchTypes
  <2>3. Undisturbed'
    BY <1>1, <2>1 DEF SwitchInv, Undisturbed
  <2> QED
    BY <1>4, <2>2, <2>3 DEF SwitchInv
<1> QED
  BY <1>5, <1>6, <1>7, <1>8, <1>9

(* A call handed to the host is one more of those in flight.               *)
LEMMA Handed ==
  ASSUME NEW by \in M!Senders, NEW value \in Values, M!Hand(by, value)
  PROVE  \E c \in M!Call : /\ calls' = calls \cup {c}
                           /\ c.by = by /\ c.value = value /\ c.taken = FALSE
<1>1. [by |-> by, value |-> value, taken |-> FALSE] \in M!Call
  BY DEF M!Call
<1> QED
  BY <1>1 DEF M!Hand

LEMMA PublishingKept ==
  ASSUME SwitchInv, M!FlushStarts \/ M!CommandReturns
  PROVE  SwitchInv'
<1>1. UNCHANGED <<device, online, shown, published, aged, misled, answer, badge,
                  shownBadge, alone, commands>>
  BY DEF M!FlushStarts, M!CommandReturns, M!plug, M!record, M!rounds,
     M!badges, M!bounds
<1>2. calls \subseteq calls'
  BY DEF M!FlushStarts, M!CommandReturns, M!Hand
<1>3. Trusted'
  BY <1>1, <1>2 DEF SwitchInv, Trusted
<1>4. CASE M!CommandReturns
  <2>1. /\ command # None /\ M!Hand(commands, command.value)
        /\ command' = None /\ UNCHANGED <<round, batch>>
    BY <1>4 DEF M!CommandReturns, M!rounds
  <2>2. command.value \in Values /\ commands \in M!Senders /\ commands # 0
    BY <2>1 DEF SwitchInv, SwitchTypes
  <2>3. PICK c \in M!Call : calls' = calls \cup {c} /\ c.by = commands
    BY <2>1, <2>2, Handed
  <2>4. ~alone
    BY <2>1 DEF SwitchInv, Undisturbed
  <2>5. Queue'
    BY <2>1, <2>2, <2>3 DEF SwitchInv, Queue
  <2>6. SwitchTypes'
    BY <1>1, <2>1, <2>3 DEF SwitchInv, SwitchTypes
  <2> QED
    BY <1>1, <1>3, <2>4, <2>5, <2>6 DEF SwitchInv, Undisturbed
<1>5. CASE M!FlushStarts /\ batch = None
  <2>1. /\ round = "collected" /\ round' = "badges" /\ batch' = None
        /\ UNCHANGED <<calls, command>>
    BY <1>5 DEF M!FlushStarts
  <2>2. SwitchTypes'
    BY <1>1, <2>1 DEF SwitchInv, SwitchTypes, M!Maybe
  <2>3. Queue'
    BY <2>1 DEF SwitchInv, Queue
  <2>4. alone => shown = device \/ misled
    <3>1. alone => (batch = device \/ published = device) /\ calls = {}
      BY <2>1, NoCall DEF SwitchInv, Undisturbed
    <3>2. device # None
      BY NoneIsNoValue DEF SwitchInv, SwitchTypes
    <3> QED
      BY <1>5, <3>1, <3>2 DEF SwitchInv, Trusted
  <2>5. Undisturbed'
    BY <1>1, <2>1, <2>4 DEF SwitchInv, Undisturbed
  <2> QED
    BY <1>3, <2>2, <2>3, <2>5 DEF SwitchInv
<1>6. CASE M!FlushStarts /\ batch # None
  <2>1. /\ round = "collected" /\ round' = "flushing" /\ batch' = None
        /\ M!Hand(0, batch) /\ command' = command
    BY <1>6 DEF M!FlushStarts
  <2>2. batch \in Values /\ 0 \in M!Senders
    BY <1>6, Assumed
    DEF SwitchInv, SwitchTypes, M!Maybe, M!Senders, M!SmartAssumption
  <2>3. PICK c \in M!Call :
          calls' = calls \cup {c} /\ c.by = 0 /\ c.value = batch /\ ~c.taken
    BY <2>1, <2>2, Handed
  <2>4. Queue'
    BY <2>1, <2>3 DEF SwitchInv, Queue
  <2>5. SwitchTypes'
    BY <1>1, <2>1, <2>3 DEF SwitchInv, SwitchTypes, M!Maybe
  <2>6. Undisturbed'
    <3>1. alone => calls' = {c} /\ batch = device /\ command = None
      BY <1>6, <2>1, <2>3, NoCall DEF SwitchInv, Undisturbed
    <3> QED
      BY <1>1, <2>1, <2>3, <3>1 DEF Undisturbed
  <2> QED
    BY <1>3, <2>4, <2>5, <2>6 DEF SwitchInv
<1> QED
  BY <1>4, <1>5, <1>6

(* The host takes a call: it is the same call, on its way back.            *)
LEMMA TakenKept ==
  ASSUME SwitchInv, NEW c \in calls, M!Takes(c)
  PROVE  SwitchInv'
<1>1. UNCHANGED <<device, online, published, aged, misled, round, answer, batch,
                  command, badge, shownBadge, alone, commands>>
  BY DEF M!Takes, M!plug, M!record, M!rounds, M!badges, M!bounds
<1>2. c \in M!Call /\ c.value \in Values
  BY DEF SwitchInv, SwitchTypes, M!Call
<1>3. PICK d \in M!Call :
        /\ calls' = (calls \ {c}) \cup {d}
        /\ d.by = c.by /\ d.value = c.value /\ d.taken
  <2>1. [c EXCEPT !.taken = TRUE] \in M!Call
    BY <1>2 DEF M!Call
  <2>2. /\ [c EXCEPT !.taken = TRUE].by = c.by
        /\ [c EXCEPT !.taken = TRUE].value = c.value
        /\ [c EXCEPT !.taken = TRUE].taken
    BY <1>2 DEF M!Call
  <2> QED
    BY <2>1, <2>2 DEF M!Takes
<1>4. shown' = c.value
  BY DEF M!Takes
<1>5. SwitchTypes'
  BY <1>1, <1>2, <1>3, <1>4 DEF SwitchInv, SwitchTypes, M!Maybe
<1>6. Queue'
  BY <1>1, <1>3 DEF SwitchInv, Queue
<1>7. Undisturbed'
  BY <1>1, <1>3, <1>4 DEF SwitchInv, Undisturbed, Queue
<1>8. Trusted'
  BY <1>3, <1>4 DEF Trusted
<1> QED
  BY <1>5, <1>6, <1>7, <1>8 DEF SwitchInv

(* A call that ends leaves the others in flight.                           *)
LEMMA EndedKept ==
  ASSUME SwitchInv, NEW c \in calls,
         M!Accepted(c) \/ M!Refused(c) \/ M!Unanswered(c)
  PROVE  SwitchInv'
<1>1. /\ calls' = calls \ {c}
      /\ round' = IF c.by = 0 THEN "badges" ELSE round
      /\ UNCHANGED <<device, online, shown, answer, batch, command, badge,
                     shownBadge, commands>>
  BY DEF M!Accepted, M!Refused, M!Unanswered, M!CallEnds, M!ByRound, M!plug,
     M!badges, M!bounds
<1>2. c \in M!Call /\ c.value \in Values
  BY DEF SwitchInv, SwitchTypes, M!Call
<1>3. Queue'
  BY <1>1 DEF SwitchInv, Queue
<1>4. published' \in M!Maybe
  BY <1>2 DEF M!Accepted, M!Refused, M!Unanswered, M!record, M!Maybe, SwitchInv,
     SwitchTypes
<1>5. /\ aged' \in BOOLEAN /\ alone' \in BOOLEAN /\ misled' \in BOOLEAN
      /\ alone' => alone /\ c.taken
  <2>1. /\ aged' = aged \/ aged' = FALSE
        /\ (alone' = alone /\ c.taken) \/ alone' = FALSE
    BY Zenon DEF M!Accepted, M!Refused, M!Unanswered, M!record
  <2>2. \/ misled' = misled \/ misled' = (shown # c.value)
        \/ misled' = (misled \/ shown = c.value)
    BY Zenon DEF M!Accepted, M!Refused, M!Unanswered, M!record
  <2>3. aged \in BOOLEAN /\ alone \in BOOLEAN /\ misled \in BOOLEAN
    BY DEF SwitchInv, SwitchTypes
  <2>4. aged' \in BOOLEAN /\ alone' \in BOOLEAN
    BY <2>1, <2>3, Zenon
  <2>5. misled' \in BOOLEAN
    BY <2>2, <2>3, Zenon
  <2>6. alone' => alone /\ c.taken
    BY <2>1, Zenon
  <2> QED
    BY <2>4, <2>5, <2>6
<1>6. round' \in {"idle", "asking", "answering", "collected", "flushing", "badges"}
      /\ (batch # None => round' = "collected")
  <2>1. c.by = 0 => round = "flushing"
    BY DEF SwitchInv, Queue
  <2> QED
    BY <1>1, <2>1 DEF SwitchInv, SwitchTypes
<1>7. SwitchTypes'
  BY <1>1, <1>4, <1>5, <1>6 DEF SwitchInv, SwitchTypes
<1>8. Undisturbed'
  <2> SUFFICES ASSUME alone' PROVE Undisturbed'
    BY DEF Undisturbed
  <2>1. alone /\ c.by = 0 /\ shown = device
    BY <1>5 DEF SwitchInv, Undisturbed
  <2> QED
    BY <1>1, <2>1 DEF SwitchInv, Undisturbed
<1>9. Trusted'
  <2>1. CASE M!Accepted(c)
    <3>1. published' = c.value /\ misled' = (shown # c.value) /\ shown' = shown
      BY <1>1, <2>1 DEF M!Accepted
    <3> QED
      BY <3>1 DEF Trusted
  <2>2. CASE M!Refused(c)
    <3>1. ~c.taken /\ UNCHANGED <<published, misled, shown>>
      BY <1>1, <2>2 DEF M!Refused, M!record
    <3> QED
      BY <1>1, <3>1 DEF SwitchInv, Trusted
  <2>3. CASE M!Unanswered(c)
    <3>1. /\ misled' = (misled \/ shown = c.value)
          /\ UNCHANGED <<published, shown>>
      BY <1>1, <2>3 DEF M!Unanswered
    <3> QED
      BY <1>1, <3>1 DEF SwitchInv, Trusted
  <2> QED
    BY <2>1, <2>2, <2>3
<1> QED
  BY <1>3, <1>7, <1>8, <1>9 DEF SwitchInv

LEMMA SwitchKept ==
  ASSUME SwitchInv, [M!Next]_(M!vars)
  PROVE  SwitchInv'
BY DeviceKept, AskingKept, PublishingKept, TakenKept, EndedKept DEF M!Next

LEMMA SwitchHolds == Spec => []SwitchInv
<1>1. Init => SwitchInv
  <2> SUFFICES ASSUME M!Init PROVE SwitchInv
    BY Initially
  <2>1. commands \in M!Senders
    BY Assumed DEF M!Init, M!Senders, M!SmartAssumption
  <2>2. SwitchTypes
    BY <2>1 DEF M!Init, SwitchTypes, M!Maybe, M!Badges
  <2>3. Queue /\ Undisturbed /\ Trusted
    BY DEF M!Init, Queue, Undisturbed, Trusted
  <2> QED
    BY <2>2, <2>3 DEF SwitchInv
<1>2. SwitchInv /\ [Next]_vars => SwitchInv'
  BY ComponentSteps, SwitchKept
<1> QED
  BY <1>1, <1>2, PTL DEF Spec

(* A round with which nothing interfered, whatever went before it and in   *)
(* whatever order calls were answered, ends with Gladys showing the value  *)
(* of the device, unless the record was left by an answer another call had *)
(* overtaken, or not corrected by one that was lost (manager.js, collect   *)
(* and flush).                                                             *)
THEOREM RoundShowsHolds == Spec => RoundShows
<1>1. SwitchInv => [M!RoundEnds /\ alone => shown = device \/ misled]_(M!vars)
  BY DEF SwitchInv, Undisturbed, M!RoundEnds
<1> QED
  BY <1>1, SwitchHolds, PTL DEF RoundShows, M!RoundShows

LEMMA SwitchTyped == SwitchInv => M!TypeOK
<1> SUFFICES ASSUME SwitchInv PROVE M!TypeOK
  OBVIOUS
<1>1. /\ {shown, published, answer} \subseteq M!Maybe
      /\ {badge, shownBadge} \subseteq M!Badges
      /\ command \in [value : Values, applied : BOOLEAN] \cup {None}
  BY DEF SwitchInv, SwitchTypes
<1>2. (round = "flushing") = (\E c \in calls : M!ByRound(c))
  BY DEF SwitchInv, Queue, M!ByRound
<1> QED
  BY <1>1, <1>2 DEF SwitchInv, SwitchTypes, M!TypeOK

---------------------------------------------------------------------------
(* OnvifClient: a client leaves a subscription behind on the camera only   *)
(* when a message is lost.                                                 *)

PullTypes ==
  /\ phase \in O!Phases
  /\ running \in BOOLEAN /\ stopped \in BOOLEAN
  /\ url \in O!MaybeSub /\ target \in O!MaybeSub /\ reply \in O!MaybeSub
  /\ quiet \in Nat /\ quiet < QuietLimit
  /\ up \in BOOLEAN
  /\ held \subseteq Subs /\ queued \subseteq held /\ unsubs \subseteq Subs
  /\ losses \in Nat /\ losses <= MaxLosses
  /\ reboots \in Nat /\ reboots <= MaxReboots

(* The client never holds two subscriptions: it asks for one when it has   *)
(* none, pulls the one it has, and has none once it is stopped.            *)
HoldsOne ==
  /\ phase \in {"built", "opening", "subscribing", "backoff"} => url = None
  /\ reply # None => phase \in {"opening", "subscribing"}
  /\ phase = "pulling" => url \in {None, target}
  /\ stopped => url = None /\ ~running
  /\ ~up => held = {}

Leak == held \ O!Used

PullInv ==
  /\ PullTypes /\ HoldsOne
  /\ Cardinality(held) <= Slots
  /\ Cardinality(Leak) <= losses

LEMMA PullAssumed ==
  /\ IsFiniteSet(Subs) /\ None \notin Subs
  /\ Slots \in Nat \ {0} /\ QuietLimit \in Nat \ {0}
  /\ MaxLosses \in Nat /\ MaxReboots \in Nat
<1>1. \A H : O!IsFiniteSet(H) <=> IsFiniteSet(H)
  BY DEF O!IsFiniteSet, IsFiniteSet
<1>2. O!IsFiniteSet(Subs)
  BY Assumed DEF O!ClientAssumption
<1>3. /\ None \notin Subs /\ {Slots, QuietLimit} \subseteq Nat \ {0}
      /\ {MaxLosses, MaxReboots} \subseteq Nat
  BY Assumed DEF O!ClientAssumption
<1> QED
  BY <1>1, <1>2, <1>3

(* The cardinality the component counts with.                              *)
LEMMA Counted == \A H : O!Cardinality(H) = Cardinality(H)
BY DEF O!Cardinality, Cardinality

LEMMA HeldCounts ==
  ASSUME NEW H, H \subseteq Subs
  PROVE  IsFiniteSet(H) /\ Cardinality(H) \in Nat
BY PullAssumed, FS_Subset, FS_CardinalityType

(* Types and HoldsOne, handler by handler.                                 *)
LEMMA CameraShape ==
  ASSUME PullTypes, HoldsOne,
         \/ O!CameraSubscribes
         \/ \E s \in Subs :
              O!CameraUnsubscribes(s) \/ O!UnsubscribeLost(s) \/ O!Expires(s)
         \/ O!Detects \/ O!GoesDown \/ O!ComesUp \/ UNCHANGED O!vars
  PROVE  PullTypes' /\ HoldsOne'
<1>1. UNCHANGED <<phase, running, stopped, url, target, quiet>>
  BY DEF O!CameraSubscribes, O!CameraUnsubscribes, O!UnsubscribeLost,
     O!Expires, O!Detects, O!GoesDown, O!ComesUp, O!vars, O!client
<1>2. CASE O!CameraSubscribes
  <2>1. PICK s \in Subs : held' = held \cup {s} /\ reply' = s
    BY <1>2 DEF O!CameraSubscribes
  <2>2. /\ up /\ phase \in {"opening", "subscribing"}
        /\ UNCHANGED <<up, queued, unsubs, losses, reboots>>
    BY <1>2 DEF O!CameraSubscribes, O!bounds
  <2>3. PullTypes'
    BY <1>1, <2>1, <2>2 DEF PullTypes, O!MaybeSub
  <2>4. HoldsOne'
    BY <1>1, <2>2 DEF HoldsOne
  <2> QED
    BY <2>3, <2>4
<1>3. ASSUME NEW s \in Subs,
             O!CameraUnsubscribes(s) \/ O!UnsubscribeLost(s) \/ O!Expires(s)
      PROVE  PullTypes' /\ HoldsOne'
  <2>1. /\ held' \subseteq held /\ queued' \subseteq held' /\ unsubs' \subseteq Subs
        /\ UNCHANGED <<up, reply, reboots>>
    BY <1>3 DEF O!CameraUnsubscribes, O!UnsubscribeLost, O!Expires, O!net,
       O!bounds, O!camera, PullTypes
  <2>2. losses' \in Nat /\ losses' <= MaxLosses
    <3>1. losses' = losses \/ (losses' = losses + 1 /\ losses < MaxLosses)
      BY <1>3 DEF O!CameraUnsubscribes, O!UnsubscribeLost, O!Expires, O!bounds
    <3> QED
      BY <3>1, PullAssumed DEF PullTypes
  <2>3. PullTypes'
    BY <1>1, <2>1, <2>2 DEF PullTypes
  <2>4. HoldsOne'
    BY <1>1, <2>1 DEF HoldsOne
  <2> QED
    BY <2>3, <2>4
<1>4. CASE O!Detects \/ O!GoesDown \/ O!ComesUp \/ UNCHANGED O!vars
  <2>1. /\ held' = held \/ held' = {}
        /\ up' \in BOOLEAN /\ (~up' => held' = {})
        /\ UNCHANGED <<reply, unsubs, losses>>
    BY <1>4 DEF O!Detects, O!GoesDown, O!ComesUp, O!vars, O!net, O!camera,
       O!bounds, PullTypes, HoldsOne
  <2>2. (held' = held /\ queued' = queued) \/ queued' = held'
    BY <1>4 DEF O!Detects, O!GoesDown, O!ComesUp, O!vars, O!camera
  <2>3. reboots' \in Nat /\ reboots' <= MaxReboots
    <3>1. reboots' = reboots \/ (reboots' = reboots + 1 /\ reboots < MaxReboots)
      BY <1>4 DEF O!Detects, O!GoesDown, O!ComesUp, O!vars, O!bounds
    <3> QED
      BY <3>1, PullAssumed DEF PullTypes
  <2>4. PullTypes'
    BY <1>1, <2>1, <2>2, <2>3 DEF PullTypes
  <2>5. HoldsOne'
    BY <1>1, <2>1 DEF HoldsOne
  <2> QED
    BY <2>4, <2>5
<1> QED
  BY <1>2, <1>3, <1>4

LEMMA ClientShape ==
  ASSUME PullTypes, HoldsOne, O!ClientStep \/ O!Stop
  PROVE  PullTypes' /\ HoldsOne'
<1>1. UNCHANGED <<up, held, reboots>>
  BY DEF O!ClientStep, O!Open, O!Subscribed, O!SubscribeFails, O!Start,
     O!LoopTop, O!Renewed, O!PullReturns, O!PullCut, O!PullTimesOut,
     O!PullFails, O!WaitEnds, O!Stop, O!camera, O!bounds
<1>2. queued' \subseteq held
  BY DEF O!ClientStep, O!Open, O!Subscribed, O!SubscribeFails, O!Start,
     O!LoopTop, O!Renewed, O!PullReturns, O!PullCut, O!PullTimesOut,
     O!PullFails, O!WaitEnds, O!Stop, O!camera, PullTypes
<1>3. losses' \in Nat /\ losses' <= MaxLosses
  <2>1. losses' = losses \/ (losses' = losses + 1 /\ losses < MaxLosses)
    BY DEF O!ClientStep, O!Open, O!Subscribed, O!SubscribeFails, O!Start,
       O!LoopTop, O!Renewed, O!PullReturns, O!PullCut, O!PullTimesOut,
       O!PullFails, O!WaitEnds, O!Stop, O!bounds
  <2> QED
    BY <2>1, PullAssumed DEF PullTypes
<1>4. quiet' \in Nat /\ quiet' < QuietLimit
  <2>1. \/ quiet' = quiet \/ quiet' = 0
        \/ quiet' = quiet + 1 /\ quiet + 1 < QuietLimit
    BY DEF O!ClientStep, O!Open, O!Subscribed, O!SubscribeFails, O!Start,
       O!LoopTop, O!Renewed, O!PullReturns, O!PullCut, O!PullTimesOut,
       O!PullFails, O!DropSubscription, O!WaitEnds, O!Stop
  <2> QED
    BY <2>1, PullAssumed DEF PullTypes
<1>5. SUFFICES /\ phase' \in O!Phases
               /\ running' \in BOOLEAN /\ stopped' \in BOOLEAN
               /\ url' \in O!MaybeSub /\ target' \in O!MaybeSub
               /\ reply' \in O!MaybeSub /\ unsubs' \subseteq Subs
               /\ HoldsOne'
  BY <1>1, <1>2, <1>3, <1>4 DEF PullTypes
<1> USE DEF PullTypes, HoldsOne, O!Phases, O!MaybeSub
<1>6. CASE O!Open \/ O!WaitEnds
  BY <1>1, <1>6 DEF O!Open, O!WaitEnds, O!net
<1>6a. CASE O!Start
  <2>1. /\ phase = "opened" /\ ~stopped /\ running' = TRUE /\ phase' = "top"
        /\ UNCHANGED <<stopped, url, target, reply, unsubs>>
    BY <1>6a DEF O!Start, O!net
  <2>2. running' \in BOOLEAN
    BY <2>1
  <2> QED
    BY <1>1, <2>1, <2>2
<1>7. CASE O!Subscribed
  BY <1>1, <1>7 DEF O!Subscribed
<1>8. CASE O!SubscribeFails
  BY <1>1, <1>8 DEF O!SubscribeFails
<1>9. CASE O!LoopTop
  BY <1>1, <1>9 DEF O!LoopTop, O!net
<1>10. CASE O!Renewed
  BY <1>1, <1>10 DEF O!Renewed, O!net
<1>11. CASE O!PullReturns \/ O!PullCut
  BY <1>1, <1>11 DEF O!PullReturns, O!PullCut, O!net
<1>12. CASE O!PullTimesOut
  BY <1>1, <1>12 DEF O!PullTimesOut, O!DropSubscription
<1>13. CASE O!PullFails
  BY <1>1, <1>13 DEF O!PullFails, O!DropSubscription
<1>14. CASE O!Stop
  BY <1>1, <1>14 DEF O!Stop
<1> QED
  BY <1>6, <1>6a, <1>7, <1>8, <1>9, <1>10, <1>11, <1>12, <1>13, <1>14 DEF O!ClientStep

(* A subscription is left behind only with a message lost: every handler   *)
(* keeps what it stops using among what is released or handed over.        *)
Leaves == Leak' \subseteq Leak /\ losses' >= losses
LeavesOne == \E s : Leak' \subseteq Leak \cup {s} /\ losses' = losses + 1

LEMMA CameraLeaves ==
  ASSUME PullTypes, HoldsOne,
         \/ O!CameraSubscribes
         \/ \E s \in Subs :
              O!CameraUnsubscribes(s) \/ O!UnsubscribeLost(s) \/ O!Expires(s)
         \/ O!Detects \/ O!GoesDown \/ O!ComesUp \/ UNCHANGED O!vars
  PROVE  Leaves \/ LeavesOne
<1> USE DEF Leaves, LeavesOne, Leak, O!Used
<1>1. losses \in Nat
  BY DEF PullTypes
<1>2. UNCHANGED <<stopped, url>>
  BY DEF O!CameraSubscribes, O!CameraUnsubscribes, O!UnsubscribeLost,
     O!Expires, O!Detects, O!GoesDown, O!ComesUp, O!vars, O!client
<1>3. CASE O!CameraSubscribes
  <2>1. PICK s \in Subs : held' = held \cup {s} /\ reply' = s
    BY <1>3 DEF O!CameraSubscribes
  <2>2. reply = None /\ UNCHANGED <<unsubs, losses>> /\ None \notin held
    BY <1>3, PullAssumed DEF O!CameraSubscribes, O!bounds, PullTypes
  <2> QED
    BY <1>1, <1>2, <2>1, <2>2
<1>4. ASSUME NEW s \in Subs,
             O!CameraUnsubscribes(s) \/ O!UnsubscribeLost(s) \/ O!Expires(s)
      PROVE  Leaves \/ LeavesOne
  <2>1. CASE O!CameraUnsubscribes(s)
    <3>1. /\ unsubs' = unsubs \ {s} /\ held' = held \ {s}
          /\ UNCHANGED <<reply, losses>>
      BY <2>1 DEF O!CameraUnsubscribes, O!bounds
    <3> QED
      BY <1>1, <1>2, <3>1
  <2>2. CASE O!UnsubscribeLost(s) /\ up
    <3>1. /\ unsubs' = unsubs \ {s} /\ losses' = losses + 1
          /\ UNCHANGED <<reply, held>>
      BY <2>2 DEF O!UnsubscribeLost, O!camera
    <3>2. Leak' \subseteq Leak \cup {s}
      BY <1>2, <3>1
    <3> QED
      BY <3>1, <3>2
  <2>3. CASE O!UnsubscribeLost(s) /\ ~up
    <3>1. held' = {} /\ losses' = losses
      BY <2>3 DEF O!UnsubscribeLost, O!camera, HoldsOne
    <3> QED
      BY <1>1, <3>1
  <2>4. CASE O!Expires(s)
    <3>1. held' \subseteq held /\ UNCHANGED <<reply, unsubs, losses>>
      BY <2>4 DEF O!Expires, O!net, O!bounds
    <3> QED
      BY <1>1, <1>2, <3>1
  <2> QED
    BY <1>4, <2>1, <2>2, <2>3, <2>4
<1>5. CASE O!Detects \/ O!GoesDown \/ O!ComesUp \/ UNCHANGED O!vars
  <2>1. held' \subseteq held /\ UNCHANGED <<reply, unsubs, losses>>
    BY <1>5 DEF O!Detects, O!GoesDown, O!ComesUp, O!vars, O!net, O!camera,
       O!bounds
  <2> QED
    BY <1>1, <1>2, <2>1
<1> QED
  BY <1>3, <1>4, <1>5

LEMMA ClientLeaves ==
  ASSUME PullTypes, HoldsOne, O!ClientStep \/ O!Stop
  PROVE  Leaves \/ LeavesOne
<1> USE DEF Leak, O!Used
<1>1. losses \in Nat /\ None \notin held
  BY PullAssumed DEF PullTypes
<1>2. held' = held
  BY DEF O!ClientStep, O!Open, O!Subscribed, O!SubscribeFails, O!Start,
     O!LoopTop, O!Renewed, O!PullReturns, O!PullCut, O!PullTimesOut,
     O!PullFails, O!WaitEnds, O!Stop, O!camera
<1>3. CASE \/ O!Open \/ O!Start \/ O!LoopTop \/ O!PullReturns \/ O!PullCut
           \/ O!WaitEnds
  <2>1. UNCHANGED <<stopped, url, reply, unsubs, losses>>
    BY <1>3 DEF O!Open, O!Start, O!LoopTop, O!PullReturns, O!PullCut,
       O!WaitEnds, O!net, O!camera, O!bounds
  <2> QED
    BY <1>1, <1>2, <2>1 DEF Leaves
<1>4. CASE O!Subscribed
  <2>1. url = None /\ UNCHANGED <<stopped, losses>> /\ reply' = None
    BY <1>4 DEF O!Subscribed, O!bounds, HoldsOne
  <2>2. \/ stopped /\ unsubs' = unsubs \cup {reply} /\ url' = url
        \/ ~stopped /\ unsubs' = unsubs /\ url' = reply
    BY <1>4 DEF O!Subscribed
  <2> QED
    BY <1>1, <1>2, <2>1, <2>2 DEF Leaves
<1>5. CASE O!SubscribeFails
  <2>1. UNCHANGED <<stopped, url, unsubs>> /\ reply' = None
    BY <1>5 DEF O!SubscribeFails
  <2>2. \/ reply = None /\ losses' = losses
        \/ reply \notin held /\ losses' = losses
        \/ losses' = losses + 1
    BY <1>5 DEF O!SubscribeFails
  <2>3. Leak' \subseteq Leak \cup {reply}
    BY <1>2, <2>1
  <2>4. reply \notin held => Leak' \subseteq Leak
    BY <1>2, <2>1
  <2> QED
    BY <1>1, <2>2, <2>3, <2>4 DEF Leaves, LeavesOne
<1>6. CASE O!Renewed
  <2>1. UNCHANGED <<stopped, reply, unsubs, losses>>
    BY <1>6 DEF O!Renewed, O!net, O!bounds
  <2>2. url' = url \/ url \notin held
    BY <1>6 DEF O!Renewed
  <2> QED
    BY <1>1, <1>2, <2>1, <2>2 DEF Leaves
<1>7. CASE O!PullTimesOut
  <2>1. UNCHANGED <<stopped, reply, losses>>
    BY <1>7 DEF O!PullTimesOut, O!bounds
  <2>2. \/ url' = url /\ unsubs' = unsubs
        \/ url = None /\ unsubs' = unsubs
        \/ unsubs' = unsubs \cup {url}
    BY <1>7 DEF O!PullTimesOut, O!DropSubscription
  <2> QED
    BY <1>1, <1>2, <2>1, <2>2 DEF Leaves
<1>8. CASE O!PullFails
  <2>1. UNCHANGED <<stopped, reply>> /\ losses' >= losses
    BY <1>1, <1>8 DEF O!PullFails
  <2>2. url = None \/ url = target
    BY <1>8 DEF O!PullFails, HoldsOne
  <2>3. \/ url' = url /\ unsubs' = unsubs
        \/ (target \notin held \/ url = None) /\ unsubs' = unsubs
        \/ unsubs' = unsubs \cup {url}
    BY <1>8 DEF O!PullFails, O!DropSubscription
  <2> QED
    BY <1>1, <1>2, <2>1, <2>2, <2>3 DEF Leaves
<1>9. CASE O!Stop
  <2>1. UNCHANGED <<reply, losses>>
    BY <1>9 DEF O!Stop, O!bounds
  <2>2. (url = None /\ unsubs' = unsubs) \/ unsubs' = unsubs \cup {url}
    BY <1>9 DEF O!Stop
  <2> QED
    BY <1>1, <1>2, <2>1, <2>2 DEF Leaves
<1> QED
  BY <1>3, <1>4, <1>5, <1>6, <1>7, <1>8, <1>9 DEF O!ClientStep

LEMMA SlotsKept ==
  ASSUME PullInv, [O!Next]_(O!vars)
  PROVE  Cardinality(held') <= Slots
<1>1. /\ IsFiniteSet(held) /\ Cardinality(held) \in Nat
      /\ Cardinality(held) <= Slots
  BY HeldCounts DEF PullInv, PullTypes
<1>2. CASE O!CameraSubscribes
  <2>1. PICK s : held' = held \cup {s} /\ Cardinality(held) < Slots
    BY <1>2, Counted DEF O!CameraSubscribes
  <2>2. \/ Cardinality(held \cup {s}) = Cardinality(held)
        \/ Cardinality(held \cup {s}) = Cardinality(held) + 1
    BY <1>1, FS_AddElement
  <2>3. Cardinality(held') = Cardinality(held \cup {s})
    BY <2>1
  <2> QED
    BY <1>1, <2>1, <2>2, <2>3, PullAssumed
<1>3. CASE ~O!CameraSubscribes
  <2>1. held' \subseteq held
    BY <1>3 DEF O!Next, O!ClientStep, O!Open, O!Subscribed, O!SubscribeFails,
       O!Start, O!LoopTop, O!Renewed, O!PullReturns, O!PullCut,
       O!PullTimesOut, O!PullFails, O!WaitEnds, O!Stop, O!camera,
       O!CameraUnsubscribes, O!UnsubscribeLost, O!Expires, O!Detects,
       O!GoesDown, O!ComesUp, O!vars
  <2>2. Cardinality(held') \in Nat /\ Cardinality(held') <= Cardinality(held)
    BY <1>1, <2>1, FS_Subset, FS_CardinalityType
  <2> QED
    BY <1>1, <2>2, PullAssumed
<1> QED
  BY <1>2, <1>3

LEMMA PullKept ==
  ASSUME PullInv, [O!Next]_(O!vars)
  PROVE  PullInv'
<1>1. PullTypes' /\ HoldsOne'
  BY CameraShape, ClientShape DEF PullInv, O!Next
<1>2. Leaves \/ LeavesOne
  BY CameraLeaves, ClientLeaves DEF PullInv, O!Next
<1>3. /\ IsFiniteSet(Leak) /\ Cardinality(Leak) \in Nat
      /\ Cardinality(Leak) <= losses /\ losses \in Nat /\ losses' \in Nat
  <2>1. Leak \subseteq Subs
    BY DEF PullInv, PullTypes, Leak
  <2> QED
    BY <1>1, <2>1, HeldCounts DEF PullInv, PullTypes
<1>4. Cardinality(Leak') <= losses'
  <2>1. CASE Leaves
    <3>1. /\ Cardinality(Leak') \in Nat
          /\ Cardinality(Leak') <= Cardinality(Leak)
      BY <1>3, <2>1, FS_Subset, FS_CardinalityType DEF Leaves
    <3> QED
      BY <1>3, <2>1, <3>1 DEF Leaves
  <2>2. CASE LeavesOne
    <3>1. PICK s : Leak' \subseteq Leak \cup {s} /\ losses' = losses + 1
      BY <2>2 DEF LeavesOne
    <3>2. /\ IsFiniteSet(Leak \cup {s})
          /\ Cardinality(Leak \cup {s}) \in Nat
          /\ Cardinality(Leak \cup {s}) <= Cardinality(Leak) + 1
      BY <1>3, FS_AddElement
    <3>3. /\ Cardinality(Leak') \in Nat
          /\ Cardinality(Leak') <= Cardinality(Leak \cup {s})
      BY <3>1, <3>2, FS_Subset, FS_CardinalityType
    <3> QED
      BY <1>3, <3>1, <3>2, <3>3
  <2> QED
    BY <1>2, <2>1, <2>2
<1> QED
  BY <1>1, <1>4, SlotsKept DEF PullInv

LEMMA PullHolds == Spec => []PullInv
<1>1. Init => PullInv
  <2> SUFFICES ASSUME O!Init PROVE PullInv
    BY Initially
  <2>1. PullTypes
    <3>1. running \in BOOLEAN /\ stopped \in BOOLEAN /\ up \in BOOLEAN
      BY Zenon DEF O!Init
    <3>2. /\ phase \in O!Phases /\ {url, target, reply} \subseteq O!MaybeSub
          /\ held = {} /\ queued = {} /\ unsubs = {}
          /\ quiet = 0 /\ losses = 0 /\ reboots = 0
      BY DEF O!Init, O!Phases, O!MaybeSub
    <3>3. /\ quiet \in Nat /\ quiet < QuietLimit
          /\ losses \in Nat /\ losses <= MaxLosses
          /\ reboots \in Nat /\ reboots <= MaxReboots
      BY <3>2, PullAssumed
    <3> QED
      BY <3>1, <3>2, <3>3 DEF PullTypes
  <2>2. HoldsOne
    BY DEF O!Init, HoldsOne
  <2>3. held = {} /\ Leak = {} /\ losses = 0
    BY DEF O!Init, Leak
  <2>4. Cardinality(held) <= Slots /\ Cardinality(Leak) <= losses
    BY <2>3, FS_EmptySet, PullAssumed
  <2> QED
    BY <2>1, <2>2, <2>4 DEF PullInv
<1>2. PullInv /\ [Next]_vars => PullInv'
  BY ComponentSteps, PullKept
<1> QED
  BY <1>1, <1>2, PTL DEF Spec

(* The subscriptions a client leaves behind on a camera are no more than   *)
(* the messages lost on the way, whenever it is stopped, the camera        *)
(* reboots or a subscription expires (onvif.js, subscribe and stop).       *)
THEOREM NoLeakHolds == Spec => []NoLeak
<1>1. PullInv => NoLeak
  BY Counted DEF PullInv, Leak, NoLeak, O!NoLeak
<1> QED
  BY <1>1, PullHolds, PTL

LEMMA PullTyped == PullInv => O!TypeOK
<1> SUFFICES ASSUME PullInv PROVE O!TypeOK
  OBVIOUS
<1>1. quiet \in 0..(QuietLimit - 1)
  BY PullAssumed DEF PullInv, PullTypes
<1>2. losses \in 0..MaxLosses /\ reboots \in 0..MaxReboots
  BY PullAssumed DEF PullInv, PullTypes
<1>3. O!Cardinality(held) <= Slots
  BY Counted DEF PullInv
<1> QED
  BY <1>1, <1>2, <1>3 DEF PullInv, PullTypes, O!TypeOK

---------------------------------------------------------------------------
(* The state of every component keeps its types, for every value of the    *)
(* constants (onvif.js, events.js, sceneEvents.js, client.js, manager.js). *)
THEOREM TypeCorrect == Spec => []TypeOK
<1>1. ASSUME PullInv, W!TypeOK, SceneSafe, LinkSafe, SwitchInv, ButtonInv,
             EnergySafe
      PROVE  TypeOK
  <2>1. O!TypeOK /\ W!TypeOK /\ S!TypeOK /\ T!TypeOK
    BY <1>1, PullTyped, ScenesTyped, LinkTyped
  <2>2. M!TypeOK /\ B!TypeOK /\ E!TypeOK
    BY <1>1, SwitchTyped, ButtonTyped, EnergyTyped
  <2> QED
    BY <2>1, <2>2 DEF TypeOK
<1> QED
  BY <1>1, PullHolds, SensorTyped, ScenesHold, LinkHolds, SwitchHolds,
     ButtonHolds, EnergyHolds, PTL
================================================================================
