------------------------------ MODULE EnergyIndex ------------------------------
(***************************************************************************)
(* The energy index of a metered plug, src/smart/manager.js: the plug      *)
(* counts the energy of the day, back to 0 at midnight, and every round    *)
(* adds to the index what the counter gained since the last reading        *)
(* (accumulateEnergy); the index is published when it changed (collect,    *)
(* flush), and a restart takes it up from the value Gladys holds.  Energy  *)
(* is counted in Wh.                                                       *)
(***************************************************************************)
EXTENDS Naturals

CONSTANTS
  MaxEnergy,        \* bound on what the plug consumes, in all
  MaxDays,          \* bound on the midnights
  MaxUnanswered,    \* bound on the rounds that end without a reading
  MaxIndexRefused,  \* bound on the publications the host refuses
  MaxIndexLost,     \* bound on those it takes, whose answer is lost
  MaxIndexRestarts, \* bound on the restarts of the integration
  None

EnergyBounds == <<MaxEnergy, MaxDays, MaxUnanswered, MaxIndexRefused,
                  MaxIndexLost, MaxIndexRestarts>>

EnergyAssumption ==
  /\ \A i \in DOMAIN EnergyBounds : EnergyBounds[i] \in Nat
  /\ None \notin Nat

VARIABLES
  today,      \* the counter of the plug
  energy,     \* the manager's state: the last reading and the index
  lastValue,  \* the value of the feature in Gladys, last_value
  sentIndex,  \* published: the index the host last took
  reading,    \* where the round is
  given,      \* last_value, as the round listed it
  pending,    \* the index the round has to publish
  due,        \* history: what was consumed since the first reading
  late,       \* history: of which since the last one, before midnight
  fresh,      \* history: and after it
  crossed,    \* history: midnight passed since the last reading
  missed,     \* history: consumption of an evening nothing read
  start,      \* history: the index the manager took up
  refused, spent, days, unanswered, indexLost, indexRestarts   \* the bounds

meter == <<today, due, late, fresh, crossed, missed, start>>
index == <<energy, sentIndex>>
roundState == <<reading, given, pending>>
energyBounds == <<refused, spent, days, unanswered, indexLost,
                  indexRestarts>>
vars == <<meter, index, lastValue, roundState, energyBounds>>

TypeOK ==
  /\ {today, due, late, fresh, missed, start, lastValue} \subseteq Nat
  /\ crossed \in BOOLEAN
  /\ energy \in [lastToday : Nat, index : Nat] \cup {None}
  /\ {sentIndex, given, pending} \subseteq Nat \cup {None}
  /\ reading \in {"idle", "asking", "flushing"}
  /\ (reading = "asking") = (given # None)
  /\ pending # None => reading = "flushing"

Init ==
  /\ today \in 0..1
  /\ energy = None /\ lastValue = 0 /\ sentIndex = None
  /\ reading = "idle" /\ given = None /\ pending = None
  /\ due = 0 /\ late = 0 /\ fresh = 0 /\ crossed = FALSE
  /\ missed = 0 /\ start = 0
  /\ refused = 0 /\ spent = 0 /\ days = 0 /\ unanswered = 0
  /\ indexLost = 0 /\ indexRestarts = 0

---------------------------------------------------------------------------
(* The plug.                                                               *)
Consumes ==
  /\ spent < MaxEnergy
  /\ spent' = spent + 1
  /\ today' = today + 1
  /\ due' = due + 1
  /\ fresh' = fresh + 1
  /\ UNCHANGED <<late, crossed, missed, start, index, lastValue, roundState,
                 refused, days, unanswered, indexLost, indexRestarts>>

Midnight ==
  /\ days < MaxDays
  /\ days' = days + 1
  /\ today' = 0
  /\ late' = late + fresh /\ fresh' = 0 /\ crossed' = TRUE
  /\ UNCHANGED <<due, missed, start, index, lastValue, roundState, refused,
                 spent, unanswered, indexLost, indexRestarts>>

---------------------------------------------------------------------------
(* accumulateEnergy.                                                       *)
accumulateDifference(previous, todayWh, startIndex) ==
  IF previous = None
    THEN [lastToday |-> todayWh, index |-> startIndex]
    ELSE [lastToday |-> todayWh,
          index |-> IF previous.index + todayWh < previous.lastToday
                      THEN 0
                      ELSE previous.index + todayWh - previous.lastToday]

accumulateEnergy(previous, todayWh, startIndex) ==
  IF previous = None
    THEN [lastToday |-> todayWh, index |-> startIndex]
    ELSE [lastToday |-> todayWh,
          index |-> previous.index
                      + (IF todayWh >= previous.lastToday
                           THEN todayWh - previous.lastToday
                           ELSE todayWh)]

(* A round lists the devices, then asks this one.                          *)
Lists ==
  /\ reading = "idle"
  /\ reading' = "asking"
  /\ given' = lastValue
  /\ UNCHANGED <<meter, index, lastValue, pending, energyBounds>>

NoReading ==
  /\ reading = "asking"
  /\ unanswered < MaxUnanswered
  /\ unanswered' = unanswered + 1
  /\ reading' = "idle" /\ given' = None
  /\ UNCHANGED <<meter, index, lastValue, pending, refused, spent, days,
                 indexLost, indexRestarts>>

(* What the reading cannot see: the consumption between the last reading   *)
(* and midnight, and, when the new day is already past that reading, the   *)
(* reading itself, as it passes for the same day.                          *)
Hidden ==
  late + IF crossed /\ today >= energy.lastToday THEN energy.lastToday ELSE 0

Accounts ==
  /\ late' = 0 /\ fresh' = 0 /\ crossed' = FALSE
  /\ IF energy = None
       THEN due' = 0 /\ missed' = 0 /\ start' = given
       ELSE missed' = missed + Hidden /\ UNCHANGED <<due, start>>

(* collectEnergy: the state moves at once, whatever becomes of the         *)
(* publication; the index is queued unless the host took it already.       *)
Reading ==
  LET next == accumulateEnergy(energy, today, given)
  IN  /\ reading = "asking"
      /\ energy' = next
      /\ pending' = IF next.index = sentIndex THEN None ELSE next.index
      /\ reading' = "flushing" /\ given' = None
      /\ Accounts
      /\ UNCHANGED <<today, sentIndex, lastValue, energyBounds>>

Flushed ==
  /\ reading = "flushing"
  /\ reading' = "idle" /\ pending' = None
  /\ UNCHANGED <<meter, energy, given, spent, days, unanswered,
                 indexRestarts>>

NothingToFlush ==
  /\ pending = None
  /\ Flushed
  /\ UNCHANGED <<sentIndex, lastValue, refused, indexLost>>

IndexTaken ==
  /\ pending # None
  /\ Flushed
  /\ lastValue' = pending /\ sentIndex' = pending
  /\ UNCHANGED <<refused, indexLost>>

IndexRefused ==
  /\ pending # None
  /\ refused < MaxIndexRefused
  /\ refused' = refused + 1
  /\ Flushed
  /\ UNCHANGED <<sentIndex, lastValue, indexLost>>

IndexUnanswered ==
  /\ pending # None
  /\ indexLost < MaxIndexLost
  /\ indexLost' = indexLost + 1
  /\ Flushed
  /\ lastValue' = pending
  /\ UNCHANGED <<sentIndex, refused>>

(* A restart forgets the state: what it had not published is lost.         *)
Restarts ==
  /\ indexRestarts < MaxIndexRestarts
  /\ indexRestarts' = indexRestarts + 1
  /\ energy' = None /\ sentIndex' = None
  /\ reading' = "idle" /\ given' = None /\ pending' = None
  /\ UNCHANGED <<meter, lastValue, refused, spent, days, unanswered,
                 indexLost>>

Next ==
  \/ Consumes \/ Midnight
  \/ Lists \/ NoReading \/ Reading
  \/ NothingToFlush \/ IndexTaken \/ IndexRefused \/ IndexUnanswered
  \/ Restarts

Spec == Init /\ [][Next]_vars

---------------------------------------------------------------------------
(* IndexTrue: the energy index Gladys shows never goes back, and counts    *)
(* what the plug consumed since the first reading once, less the evenings  *)
(* nothing read, over midnights, silences, refusals and restarts ("the     *)
(* index only ever moves forward, never jumps", manager.js:81).            *)
Balanced ==
  energy # None => energy.index + missed + late + fresh = start + due
IndexTrue == [][lastValue' >= lastValue /\ Balanced']_vars
===============================================================================
