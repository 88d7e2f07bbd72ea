---------------------------- MODULE BatteryGuard ----------------------------
(***************************************************************************)
(* The battery guard (src/tapo/batteryGuard.js) of one camera and the pace *)
(* at which src/tapo/events.js wakes the camera to feed it: which rounds   *)
(* open a session, what a reading does to the two hysteresis bands, when a *)
(* reading goes stale and what the capture policy makes of it all.         *)
(*                                                                         *)
(* Time passes in rounds of the watcher.  A stamp is kept as its age in    *)
(* rounds; an age saturates where the code no longer tells ages apart,     *)
(* which is also the age of a stamp never set.                             *)
(***************************************************************************)
EXTENDS Integers

CONSTANTS
  Levels,        \* battery percentages
  Settings,      \* the thresholds a user may save, as records
  Hysteresis,    \* BATTERY_STOP_ALL_HYSTERESIS
  PollInterval,  \* battery_event_poll_interval, in rounds
  LowPoll,       \* BATTERY_LOW_POLL_INTERVAL_MS, in rounds
  Tracked,       \* the camera is declared to the guard before its first round
  MaxSilences,   \* bound on the reads left without an answer
  MaxConfigs,    \* bound on the settings saved
  NoLevel        \* the camera never answered

Percent == 0..100

ASSUME GuardAssumption ==
  /\ Levels \subseteq Percent
  /\ Settings \subseteq [pauseRefresh : Int, stopAll : Int, resume : Int]
  /\ {Hysteresis, MaxSilences, MaxConfigs} \subseteq Nat
  /\ {PollInterval, LowPoll} \subseteq Nat \ {0}
  /\ Tracked \in BOOLEAN
  /\ NoLevel \notin Percent

(* The low pulse is half the age at which a reading is dropped.            *)
MaxAge == 2 * LowPoll

(* The age from which all ages are alike.                                  *)
Never == MaxAge + PollInterval

VARIABLES
  charge,        \* the battery of the camera, whatever anyone read of it
  level,         \* levels: the last reading
  readAge,       \* readAt
  blocked,       \* the camera is in the set blocked
  recovering,    \* the camera is in the set recovering
  batteryCamera, \* the camera is in batteryCameras
  lowAge,        \* polledAt
  pollAge,       \* lastBatteryPollAt
  thresholds,    \* pauseRefresh, stopAll and resume
  answered,      \* history: the last read asked of the camera got an answer
  judged,        \* history: the last reading met the present thresholds
  silences, configs  \* counted against the bounds

bands == <<blocked, recovering>>
ages == <<readAge, lowAge, pollAge>>
history == <<answered, judged>>
vars == <<charge, level, bands, batteryCamera, ages, thresholds, history,
          silences, configs>>

Age == 0..Never

TypeOK ==
  /\ charge \in Percent
  /\ level \in Percent \cup {NoLevel}
  /\ blocked \in BOOLEAN /\ recovering \in BOOLEAN /\ batteryCamera \in BOOLEAN
  /\ readAge \in Age /\ lowAge \in Age /\ pollAge \in Age
  /\ thresholds \in [pauseRefresh : Percent, stopAll : Percent,
                     resume : Percent]
  /\ thresholds.stopAll <= thresholds.pauseRefresh
  /\ thresholds.pauseRefresh <= thresholds.resume
  /\ answered \in BOOLEAN /\ judged \in BOOLEAN
  /\ silences \in Nat /\ configs \in Nat

Smaller(a, b) == IF a < b THEN a ELSE b
Larger(a, b) == IF a > b THEN a ELSE b

clampPercent(v) == Smaller(100, Larger(0, v))

(* The thresholds applyThresholds makes of what was saved: the stop level  *)
(* at most the pause level, the resume level at least that.                *)
Clamped(s) ==
  LET pause == clampPercent(s.pauseRefresh) IN
  [pauseRefresh |-> pause,
   stopAll |-> Smaller(clampPercent(s.stopAll), pause),
   resume |-> Larger(clampPercent(s.resume), pause)]

Init ==
  /\ charge \in Levels
  /\ level = NoLevel
  /\ readAge = Never
  /\ blocked = FALSE
  /\ recovering = FALSE
  /\ batteryCamera = Tracked
  /\ lowAge = Never
  /\ pollAge = Never
  /\ \E s \in Settings : thresholds = Clamped(s)
  /\ answered = TRUE
  /\ judged = FALSE
  /\ silences = 0
  /\ configs = 0

---------------------------------------------------------------------------
(* The level, unless its reading went stale.                               *)
FreshLevel(l, age) == IF age > MaxAge THEN NoLevel ELSE l

PolicyForRecoveringFirst(l, age, isBlocked, isRecovering, isBattery) ==
  IF FreshLevel(l, age) = NoLevel
    THEN IF isBattery THEN "on-demand" ELSE "full"
  ELSE IF isRecovering THEN "on-demand"
  ELSE IF isBlocked THEN "none"
  ELSE "full"

PolicyFor(l, age, isBlocked, isRecovering, isBattery) ==
  IF FreshLevel(l, age) = NoLevel
    THEN IF isBattery THEN "on-demand" ELSE "full"
  ELSE IF isBlocked THEN "none"
  ELSE IF isRecovering THEN "on-demand"
  ELSE "full"

policy == PolicyFor(level, readAge, blocked, recovering, batteryCamera)

(* A reading arrives.                                                      *)
UpdateReleasingEarly(l) ==
  /\ batteryCamera' = TRUE
  /\ level' = l
  /\ readAge' = 0
  /\ answered' = TRUE
  /\ judged' = TRUE
  /\ blocked' = (l < thresholds.stopAll)
  /\ recovering' = (\/ l < thresholds.pauseRefresh
                    \/ recovering /\ l < thresholds.resume)

UpdateNeverReleasing(l) ==
  /\ batteryCamera' = TRUE
  /\ level' = l
  /\ readAge' = 0
  /\ answered' = TRUE
  /\ judged' = TRUE
  /\ blocked' = (blocked \/ l < thresholds.stopAll)
  /\ recovering' = (\/ l < thresholds.pauseRefresh
                    \/ recovering /\ l < thresholds.resume)

Update(l) ==
  /\ batteryCamera' = TRUE
  /\ level' = l
  /\ readAge' = 0
  /\ answered' = TRUE
  /\ judged' = TRUE
  /\ blocked' = (\/ l < thresholds.stopAll
                 \/ blocked /\ l < thresholds.stopAll + Hysteresis)
  /\ recovering' = (\/ l < thresholds.pauseRefresh
                    \/ recovering /\ l < thresholds.resume)

Older(age) == Smaller(age + 1, Never)

(* The camera was asked for its battery: it answers, or update(null) is    *)
(* ignored.                                                                *)
Asked ==
  \/ /\ Update(charge)
     /\ UNCHANGED silences
  \/ /\ silences < MaxSilences
     /\ silences' = silences + 1
     /\ answered' = FALSE
     /\ readAge' = Older(readAge)
     /\ UNCHANGED <<level, bands, batteryCamera, judged>>

NotAsked ==
  /\ readAge' = Older(readAge)
  /\ UNCHANGED <<level, bands, batteryCamera, history, silences>>

PollDue == pollAge + 1 >= PollInterval
LowPollDue == lowAge + 1 >= LowPoll

AllowsPolling ==
  PolicyFor(level, Older(readAge), blocked, recovering, batteryCamera) = "full"

(* A round too early for a battery camera: no session is opened.           *)
EarlyRound ==
  /\ ~PollDue
  /\ pollAge' = Older(pollAge)
  /\ lowAge' = Older(lowAge)
  /\ NotAsked
  /\ UNCHANGED <<charge, thresholds, configs>>

FullRound ==
  /\ PollDue
  /\ AllowsPolling
  /\ pollAge' = 0
  /\ lowAge' = Older(lowAge)
  /\ Asked
  /\ UNCHANGED <<charge, thresholds, configs>>

(* The camera is held back: its battery alone, at the slow pulse.          *)
LowRound ==
  /\ PollDue
  /\ ~AllowsPolling
  /\ LowPollDue
  /\ pollAge' = 0
  /\ lowAge' = 0
  /\ Asked
  /\ UNCHANGED <<charge, thresholds, configs>>

SkippedLowRoundStamped ==
  /\ PollDue
  /\ ~AllowsPolling
  /\ ~LowPollDue
  /\ pollAge' = 0
  /\ lowAge' = 0
  /\ NotAsked
  /\ UNCHANGED <<charge, thresholds, configs>>

SkippedLowRound ==
  /\ PollDue
  /\ ~AllowsPolling
  /\ ~LowPollDue
  /\ pollAge' = 0
  /\ lowAge' = Older(lowAge)
  /\ NotAsked
  /\ UNCHANGED <<charge, thresholds, configs>>

Round == EarlyRound \/ FullRound \/ LowRound \/ SkippedLowRound

(* The sun and the captures.                                               *)
ChargeChanges ==
  /\ charge' \in Levels
  /\ charge' # charge
  /\ UNCHANGED <<level, bands, batteryCamera, ages, thresholds, history,
                 silences, configs>>

(* configure: the new thresholds, and a blocked camera they let go.        *)
Configure(s) ==
  /\ configs < MaxConfigs
  /\ configs' = configs + 1
  /\ thresholds' = Clamped(s)
  /\ judged' = FALSE
  /\ blocked' = /\ blocked
                /\ level = NoLevel \/ level < thresholds'.stopAll + Hysteresis
  /\ UNCHANGED <<charge, level, recovering, batteryCamera, ages, answered,
                 silences>>

Next ==
  \/ Round
  \/ ChargeChanges
  \/ \E s \in Settings : Configure(s)

Spec == Init /\ [][Next]_vars

(* setInterval keeps the rounds coming.                                    *)
FairSpec == Spec /\ WF_vars(Round)

---------------------------------------------------------------------------
(* ReadingsFit: why a level stays fresh.  A low pulse never follows a      *)
(* reading closely, so between two sessions the reading ages by less than  *)
(* one low pulse plus one poll, from the first answer that follows a       *)
(* silence on.                                                             *)
ReadingsFit ==
  level # NoLevel /\ answered =>
    /\ readAge <= lowAge
    /\ pollAge < PollInterval
    /\ readAge = pollAge \/ (PollInterval < LowPoll /\ readAge < LowPoll + pollAge)

(* LevelStaysFresh: the level of a camera that answers is never dropped as *)
(* stale, throttled or not: "two readings still fit inside the freshness   *)
(* window" (constants.js:66) whatever the two intervals and the moments at *)
(* which the camera changes regime.                                        *)
LevelStaysFresh == level # NoLevel /\ answered => readAge <= MaxAge

(* DrainNeverIgnored: a reading the guard trusts under the pause level     *)
(* keeps the periodic capture off and one under the stop level keeps every *)
(* capture off, whichever bands the camera was in and however many reads   *)
(* went unanswered, from the first reading that follows a change of the    *)
(* settings on.                                                            *)
DrainNeverIgnored ==
  judged /\ FreshLevel(level, readAge) # NoLevel =>
    /\ level < thresholds.pauseRefresh => policy # "full"
    /\ level < thresholds.stopAll => policy = "none"

(* EarnedRelease: a camera that was held back is only set free by a level  *)
(* that earned it, or by a reading gone stale: out of the blocked band     *)
(* with the hysteresis, out of the recovering one at the resume level,     *)
(* whatever is saved in between.                                           *)
EarnedRelease ==
  [][/\ blocked /\ ~blocked' => level' >= thresholds'.stopAll + Hysteresis
     /\ recovering /\ policy' = "full" => level' >= thresholds'.resume]_vars

(* BackInService: a camera that charged enough to leave both bands is      *)
(* captured again, for good as long as it answers ("a camera has to earn   *)
(* its way back, not be locked out", constants.js:428).                    *)
Charged ==
  /\ charge >= thresholds.resume
  /\ charge >= thresholds.stopAll + Hysteresis

BackInService == <>[]Charged => <>[](policy = "full")
===========================================================================
