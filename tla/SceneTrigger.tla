------------------------------ MODULE SceneTrigger ------------------------------
(***************************************************************************)
(* What one camera starts scenes with (src/sceneEvents.js): its ONVIF      *)
(* notifications, one per rule of the camera, and the looks at its         *)
(* detections, which tell the most specific kind they found                *)
(* (src/tapo/events.js, detectionOf), end up in detection(), which keeps   *)
(* each kind quiet for COOLDOWN_MS after an event, and the plain motion    *)
(* after a kind the camera recognised.                                     *)
(***************************************************************************)
EXTENDS Integers, Sequences

CONSTANTS
  Cooldown,      \* COOLDOWN_MS
  MaxTime,       \* bound on the clock
  MaxSceneStarts \* bound on the restarts of the integration

SceneAssumption ==
  /\ Cooldown \in Nat \ {0}
  /\ {MaxTime, MaxSceneStarts} \subseteq Nat

VARIABLES
  clock,
  last,         \* when the last event of each kind was sent
  sending,      \* kinds whose event the host has not answered
  fired,        \* history: the events of the last COOLDOWN_MS, in order
  sceneStarts

vars == <<clock, last, sending, fired, sceneStarts>>

Recognised == {"person", "vehicle", "pet"}
DetectionKinds == Recognised \cup {"motion", "doorbell"}
Never == -Cooldown

TypeOK ==
  /\ clock \in 0..MaxTime
  /\ last \in [DetectionKinds -> (0..MaxTime) \cup {Never}]
  /\ sending \subseteq DetectionKinds
  /\ fired \in Seq([kind : DetectionKinds, at : 0..MaxTime])

Init ==
  /\ clock = 0
  /\ last = [k \in DetectionKinds |-> Never]
  /\ sending = {} /\ fired = << >> /\ sceneStarts = 0

Recent(kind) == clock - last[kind] < Cooldown

Sends(kind) ==
  /\ sending' = sending \cup {kind}
  /\ fired' = Append(fired, [kind |-> kind, at |-> clock])
  /\ UNCHANGED <<clock, sceneStarts>>

detectionRecordedLater(kind) ==
  /\ ~Recent(kind)
  /\ kind = "motion" => \A k \in Recognised : ~Recent(k)
  /\ last' = [k \in DetectionKinds |->
                IF k \in sending THEN clock ELSE last[k]]
  /\ Sends(kind)

(* detection: the event is recorded before it leaves, so that the calls    *)
(* that come before its answer, or after a refusal, are quiet as well.     *)
detection(kind) ==
  /\ ~Recent(kind)
  /\ kind = "motion" => \A k \in Recognised : ~Recent(k)
  /\ last' = [last EXCEPT ![kind] = clock]
  /\ Sends(kind)

(* The most specific kind of the detections a look found.                  *)
detectionOf(seen) ==
  IF "person" \in seen THEN "person"
  ELSE IF "vehicle" \in seen THEN "vehicle"
  ELSE IF "pet" \in seen THEN "pet"
  ELSE "motion"

Notified(kind) == detection(kind)
Looked(seen) == detection(detectionOf(seen))

(* Taken or refused: the host answers, and nothing depends on it.          *)
Answered(kind) ==
  /\ kind \in sending
  /\ sending' = sending \ {kind}
  /\ UNCHANGED <<clock, last, fired, sceneStarts>>

(* The first events are the oldest: the n that are over are left out.      *)
Passes ==
  /\ clock < MaxTime
  /\ clock' = clock + 1
  /\ \E n \in 0..Len(fired) :
       /\ \A i \in DOMAIN fired : clock' - fired[i].at < Cooldown <=> i > n
       /\ fired' = SubSeq(fired, n + 1, Len(fired))
  /\ UNCHANGED <<last, sending, sceneStarts>>

Starts ==
  /\ sceneStarts < MaxSceneStarts
  /\ sceneStarts' = sceneStarts + 1
  /\ last' = [k \in DetectionKinds |-> Never]
  /\ sending' = {} /\ fired' = << >>
  /\ UNCHANGED clock

Next ==
  \/ \E kind \in DetectionKinds : Notified(kind)
  \/ \E seen \in SUBSET (Recognised \cup {"motion"}) \ {{}} : Looked(seen)
  \/ \E kind \in sending : Answered(kind)
  \/ Passes \/ Starts

Spec == Init /\ [][Next]_vars

---------------------------------------------------------------------------
(* AtPace: each kind starts the scene "at most once a minute"              *)
(* (docs/en.md:213), whatever comes in while an event is on its way or     *)
(* after the host refused it, and a plain motion does not follow what the  *)
(* camera recognised.                                                      *)
AtPace ==
  \A i, j \in DOMAIN fired :
    i < j => /\ fired[i].kind # fired[j].kind
             /\ fired[i].kind \in Recognised => fired[j].kind # "motion"
===============================================================================
