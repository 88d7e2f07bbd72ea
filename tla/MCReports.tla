------------------------------ MODULE MCReports -------------------------------
(***************************************************************************)
(* What the devices report of their own accord, for TLC: the pull point of *)
(* a camera (OnvifClient), the motions it tells (MotionSensor), the scenes *)
(* its detections start (SceneTrigger), the transports a SMART device is   *)
(* reached through (SmartClient), and three kinds of devices of the SMART  *)
(* manager: one that is switched (SmartStates), the button of a hub        *)
(* (ButtonLog) and a metered plug (EnergyIndex).  They keep no state in    *)
(* common: each behaviour follows one of them, chosen at first among the   *)
(* ones a run is about.                                                    *)
(***************************************************************************)
EXTENDS Naturals

CONSTANTS
  Followed,                                            \* what a run is about
  Subs, Slots, QuietLimit, MaxLosses, MaxReboots,      \* OnvifClient
  MaxNotices, MaxWatcherRestarts,                      \* MotionSensor
  Cooldown, MaxTime, MaxSceneStarts,                   \* SceneTrigger
  Announced, Modes, Changes, MaxChanges, MaxRestarts, MaxLoginRefusals,
  MaxUnplugs,                                          \* SmartClient
  Values, MaxToggles, MaxCommands, MaxOutages, MaxRefusals, MaxLost,
  MaxBadgeRefusals,                                    \* SmartStates
  MaxPresses, Page, MaxUnread, MaxRefused, MaxLostAnswers, MaxStarts,
                                                       \* ButtonLog
  MaxEnergy, MaxDays, MaxUnanswered, MaxIndexRefused, MaxIndexLost,
  MaxIndexRestarts,                                    \* EnergyIndex
  None

VARIABLES
  reporting,   \* what the behaviour follows
  phase, running, stopped, url, target, quiet, up, held, queued, reply,
  unsubs, losses, reboots,
  motion, motionStates, motionPending, sent, taken, fallArmed, resetArmed,
  raised, dropped, shownLate, overtaken, notices, watcherRestarts,
  clock, last, sending, fired, sceneStarts,
  mode, plugged, known, encryptType, transport, session, info, announced,
  stage, blocked, result, changes, restarts, loginRefusals, unplugs,
  device, online, shown, published, aged, round, answer, batch, command,
  calls, badge, shownBadge, alone, misled, toggles, commands, outages, refusals,
  lost, badgeRefusals,
  presses, mark, looking, queue, told, turnedDown, rolled, since, blind,
  started, unread, refusedCalls, lostAnswers, starts,
  today, energy, lastValue, sentIndex, reading, given, pending, due, late,
  fresh, crossed, missed, start, refused, spent, days, unanswered, indexLost,
  indexRestarts

pullPoint == <<phase, running, stopped, url, target, quiet, up, held, queued,
               reply, unsubs, losses, reboots>>
sensor == <<motion, motionStates, motionPending, sent, taken, fallArmed,
            resetArmed, raised, dropped, shownLate, overtaken, notices,
            watcherRestarts>>
scenes == <<clock, last, sending, fired, sceneStarts>>
link == <<mode, plugged, known, encryptType, transport, session, info,
          announced, stage, blocked, result, changes, restarts, loginRefusals,
          unplugs>>
switch == <<device, online, shown, published, aged, misled, round, answer,
            batch, command, calls, badge, shownBadge, alone, toggles, commands,
            outages, refusals, lost, badgeRefusals>>
button == <<presses, mark, looking, queue, told, turnedDown, rolled, since,
            blind, started, unread, refusedCalls, lostAnswers, starts>>
plug == <<today, energy, lastValue, sentIndex, reading, given, pending, due,
          late, fresh, crossed, missed, start, refused, spent, days,
          unanswered, indexLost, indexRestarts>>
vars == <<reporting, pullPoint, sensor, scenes, link, switch, button, plug>>

O == INSTANCE OnvifClient
W == INSTANCE MotionSensor WITH
       shown <- motion, late <- shownLate, restarts <- watcherRestarts,
       MaxRestarts <- MaxWatcherRestarts, NoState <- None
S == INSTANCE SceneTrigger
T == INSTANCE SmartClient WITH
       MaxRefusals <- MaxLoginRefusals, MaxOutages <- MaxUnplugs,
       up <- plugged, refusals <- loginRefusals, outages <- unplugs
M == INSTANCE SmartStates
B == INSTANCE ButtonLog
E == INSTANCE EnergyIndex

Kinds ==
  {"pull point", "sensor", "scenes", "link", "switch", "button", "plug"}

ASSUME ReportsAssumption ==
  /\ Followed \subseteq Kinds
  /\ O!ClientAssumption
  /\ W!MotionAssumption
  /\ S!SceneAssumption
  /\ T!SmartClientAssumption
  /\ M!SmartAssumption
  /\ B!ButtonAssumption
  /\ E!EnergyAssumption

(* A firmware update, or the switch turned off: only TPAP is left.         *)
ToTpap == {<<"KLAP", "TPAP">>, <<"KLAP", "closed">>, <<"closed", "TPAP">>}

Init ==
  /\ reporting \in Followed
  /\ O!Init /\ W!Init /\ S!Init /\ T!Init /\ M!Init /\ B!Init /\ E!Init
  /\ reporting = "sensor" \/ motion = 0
  /\ reporting = "link" \/ (mode = "KLAP" /\ encryptType = None)
  /\ reporting = "switch" \/ device = 0
  /\ reporting = "button" \/ presses = << >>
  /\ reporting = "plug" \/ today = 0

Watches(A) ==
  /\ reporting = "pull point" /\ A
  /\ UNCHANGED <<reporting, sensor, scenes, link, switch, button, plug>>
Senses(A) ==
  /\ reporting = "sensor" /\ A
  /\ UNCHANGED <<reporting, pullPoint, scenes, link, switch, button, plug>>
Fires(A) ==
  /\ reporting = "scenes" /\ A
  /\ UNCHANGED <<reporting, pullPoint, sensor, link, switch, button, plug>>
Reaches(A) ==
  /\ reporting = "link" /\ A
  /\ UNCHANGED <<reporting, pullPoint, sensor, scenes, switch, button, plug>>
Polls(A) ==
  /\ reporting = "switch" /\ A
  /\ UNCHANGED <<reporting, pullPoint, sensor, scenes, link, button, plug>>
Presses(A) ==
  /\ reporting = "button" /\ A
  /\ UNCHANGED <<reporting, pullPoint, sensor, scenes, link, switch, plug>>
Meters(A) ==
  /\ reporting = "plug" /\ A
  /\ UNCHANGED <<reporting, pullPoint, sensor, scenes, link, switch, button>>

Next ==
  \/ Watches(O!Next) \/ Senses(W!Next) \/ Fires(S!Next) \/ Reaches(T!Next)
  \/ Polls(M!Next) \/ Presses(B!Next) \/ Meters(E!Next)

Spec == Init /\ [][Next]_vars

(* The fairness of the pull point client, of the timers of a sensor and    *)
(* the answers of the host, of the calls of a SMART device and of the      *)
(* manager.                                                                *)
FairSpec ==
  /\ Spec
  /\ WF_vars(Watches(O!ClientStep))
  /\ WF_vars(Watches(O!CameraSubscribes)) /\ WF_vars(Watches(O!ComesUp))
  /\ WF_vars(Watches(\E s \in Subs : O!CameraUnsubscribes(s)))
  /\ WF_vars(Watches(\E s \in Subs \ {url, target} : O!Expires(s)))
  /\ WF_vars(Senses(W!FallFires)) /\ WF_vars(Senses(W!ResetFires))
  /\ WF_vars(Senses(\E s \in W!Sources : W!Takes(s) \/ W!Refused(s)))
  /\ WF_vars(Senses(\E s \in W!Sources : W!Accepted(s) \/ W!AnswerLost(s)))
  /\ WF_vars(Reaches(T!CallStarts)) /\ WF_vars(Reaches(T!Exchange))
  /\ WF_vars(Reaches(T!PauseEnds)) /\ WF_vars(Reaches(T!ComesBack))
  /\ WF_vars(Polls(M!ComesBack)) /\ WF_vars(Polls(M!RoundStep))
  /\ WF_vars(Polls(M!CommandStep)) /\ WF_vars(Polls(M!Ages))
  /\ \A by \in M!Senders : WF_vars(Polls(M!HostStep(by)))

---------------------------------------------------------------------------
(* The properties of the seven modules, under the names they have there.   *)

(* TypeOK: the types and the shape of the state of each component.         *)
TypeOK ==
  /\ O!TypeOK /\ W!TypeOK /\ S!TypeOK /\ T!TypeOK
  /\ M!TypeOK /\ B!TypeOK /\ E!TypeOK

(* NoLeak: a client leaves no subscription behind on the camera but for a  *)
(* message lost on the way (onvif.js, subscribe and stop).                 *)
NoLeak == O!NoLeak

(* WatchesAgain: a client that is not stopped always comes back to pulling *)
(* a subscription the camera knows (onvif.js, loop).                       *)
WatchesAgain == reporting = "pull point" => O!WatchesAgain

(* SafetyNet: a motion Gladys shows has something behind it that brings it *)
(* down, in whatever order its publications are answered, but after a      *)
(* restart, a reset not acknowledged or a fall answered after a later      *)
(* motion (events.js, scheduleMotionReset).                                *)
SafetyNet == W!SafetyNet

(* NeverDeaf: the deduplication filters no motion out because of a state   *)
(* the host has not got, but until the safety net fires, and after an      *)
(* answer that was overtaken or lost (events.js, publishMotion).           *)
NeverDeaf == W!NeverDeaf

(* MotionComesDown: a motion this watcher raised comes back down, but when *)
(* its safety net was taken away (events.js, the reset and the fall).      *)
MotionComesDown == reporting = "sensor" => W!MotionComesDown

(* AtPace: no kind of detection starts scenes twice within COOLDOWN_MS, an *)
(* event still on its way included (sceneEvents.js, detection).            *)
AtPace == S!AtPace

(* TransportAgrees: the transport in use is the one of the protocol the    *)
(* client settled on, after any fallback (client.js, request).             *)
TransportAgrees == T!TransportAgrees

(* FindsProtocol: the client settles on the protocol the device speaks,    *)
(* whatever it was told (client.js, request and switchTo).                 *)
FindsProtocol == reporting = "link" => T!Settles

(* RoundShows: what an undisturbed round skips as published, Gladys shows, *)
(* but after an answer that was overtaken or lost (manager.js, collect and *)
(* flush).                                                                 *)
RoundShows == M!RoundShows

(* Settles: a device left alone is shown as it is, its badge included, but *)
(* for a badge the host turned down (manager.js, tick and flush).          *)
Settles == reporting = "switch" => M!Settles

(* PressesTold: a press is told once, in order, and none is left out but   *)
(* those the host refused or the hub forgot (manager.js, collectButton).   *)
PressesTold == B!PressesTold

(* IndexTrue: the energy index never goes back, and counts what the plug   *)
(* consumed once (manager.js, accumulateEnergy).                           *)
IndexTrue == E!IndexTrue
===============================================================================
