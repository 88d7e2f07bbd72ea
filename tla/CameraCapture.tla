---------------------------- MODULE CameraCapture ----------------------------
(***************************************************************************)
(* When src/app.js captures the image of one camera, and when it refuses   *)
(* to: the callers that may ask at the same moment (the refresh loop, the  *)
(* poll of Gladys, the widget, a doorbell press, the capture button), the  *)
(* capture they share, the pace of the scheduled ones, the battery guard,  *)
(* and the private mode.                                                   *)
(*                                                                         *)
(* Private mode is four pieces of state that have to agree: the lens mask  *)
(* of the camera, which the Tapo app also moves; the privacy mode the      *)
(* event watcher remembers; the gate Gladys shows; and the override        *)
(* app.js keeps of the last command.  The readings of the watcher and the  *)
(* commands each publish the gate, in calls the host takes in any order    *)
(* and may refuse; neither caller looks at the answer.                     *)
(***************************************************************************)
EXTENDS Naturals

CONSTANTS
  Scheduled,    \* callers bound by the interval and the scheduled rules
  OnDemand,     \* callers the user or the camera makes ask
  MaxAsks,      \* bound on the captures asked for
  MaxCommands,  \* bound on the private-mode commands of Gladys
  MaxAppToggles,\* bound on the masks moved from the Tapo app
  MaxFailures,  \* bound on the requests that fail, to the camera or the host
  None

Callers == Scheduled \cup OnDemand

ASSUME CaptureAssumption ==
  /\ Scheduled \cap OnDemand = {}
  /\ None \notin BOOLEAN
  /\ {MaxAsks, MaxCommands, MaxAppToggles, MaxFailures} \subseteq Nat

VARIABLES
  hasMask,   \* the camera has a lens mask (never changes)
  mask,      \* the lens is covered
  gate,      \* the state of camera/enabled in Gladys
  privacy,   \* privacyModes of the watcher, None before the first reading
  override,  \* enabledOverrides, None until a command succeeded
  poll,      \* the reading in flight: what it answered, what it publishes
  command,   \* the command in flight: what it asks, and how far it is
  policy,    \* what the battery guard allows: "all", "onDemand", "blocked"
  due,       \* the refresh interval has passed since lastCaptureAt
  captures,  \* captures in flight
  waiting,   \* callers waiting for one
  asks, commands, toggles, failures   \* counted against the bounds

private == <<mask, gate, privacy, override, poll, command>>
capturing == <<due, captures, waiting>>
bounds == <<asks, commands, toggles, failures>>
vars == <<hasMask, private, policy, capturing, bounds>>

Readings == {"idle", "asked", "masked", "clear", "showMasked", "showClear"}
Commands ==
  [enabled : BOOLEAN, step : {"sent", "applied", "publishing"}]
Capture == [by : Callers, phase : {"locating", "awake"}]

TypeOK ==
  /\ {hasMask, mask, gate, due} \subseteq BOOLEAN
  /\ {privacy, override} \subseteq BOOLEAN \cup {None}
  /\ poll \in Readings
  /\ command \in Commands \cup {None}
  /\ policy \in {"all", "onDemand", "blocked"}
  /\ captures \subseteq Capture
  /\ waiting \subseteq Callers
  /\ (captures = {}) = (waiting = {})
  /\ {asks, commands, toggles, failures} \subseteq Nat

Init ==
  /\ hasMask \in BOOLEAN
  /\ mask \in {FALSE, hasMask}
  /\ gate = TRUE
  /\ privacy = None
  /\ override = None
  /\ poll = "idle"
  /\ command = None
  /\ policy \in {"all", "onDemand", "blocked"}
  /\ due = TRUE
  /\ captures = {}
  /\ waiting = {}
  /\ asks = 0 /\ commands = 0 /\ toggles = 0 /\ failures = 0

---------------------------------------------------------------------------
(* Private mode.                                                           *)

(* The last command of this process wins over the state of the device.     *)
isCameraDisabled == IF override # None THEN ~override ELSE ~gate

TapoAppToggles ==
  /\ hasMask
  /\ toggles < MaxAppToggles
  /\ toggles' = toggles + 1
  /\ mask' = ~mask
  /\ UNCHANGED <<hasMask, gate, privacy, override, poll, command, policy,
                 capturing, asks, commands, failures>>

(* The event check reads the mask, then records and publishes it; between  *)
(* the two it waits for the other readings of the same round.  A camera    *)
(* the battery guard keeps from polling is only asked for its battery.     *)
PollStarts ==
  /\ hasMask
  /\ policy = "all"
  /\ poll = "idle"
  /\ poll' = "asked"
  /\ UNCHANGED <<hasMask, mask, gate, privacy, override, command, policy,
                 capturing, bounds>>

PollReads ==
  /\ poll = "asked"
  /\ poll' = IF mask THEN "masked" ELSE "clear"
  /\ UNCHANGED <<hasMask, mask, gate, privacy, override, command, policy,
                 capturing, bounds>>

PollFails ==
  /\ poll = "asked"
  /\ failures < MaxFailures
  /\ failures' = failures + 1
  /\ poll' = "idle"
  /\ UNCHANGED <<hasMask, mask, gate, privacy, override, command, policy,
                 capturing, asks, commands, toggles>>

Shows(reading) == IF reading = "masked" THEN "showMasked" ELSE "showClear"

PollAppliesFirstOnly ==
  /\ poll \in {"masked", "clear"}
  /\ IF privacy = None
       THEN privacy' = (poll = "masked") /\ poll' = Shows(poll)
       ELSE poll' = "idle" /\ UNCHANGED privacy
  /\ UNCHANGED <<hasMask, mask, gate, override, command, policy, capturing,
                 bounds>>

(* What was read is remembered, then handed to the host, changed or not.   *)
PollApplies ==
  /\ poll \in {"masked", "clear"}
  /\ privacy' = (poll = "masked")
  /\ poll' = Shows(poll)
  /\ UNCHANGED <<hasMask, mask, gate, override, command, policy, capturing,
                 bounds>>

PollShown ==
  /\ poll \in {"showMasked", "showClear"}
  /\ gate' = (poll = "showClear")
  /\ poll' = "idle"
  /\ UNCHANGED <<hasMask, mask, privacy, override, command, policy, capturing,
                 bounds>>

(* The host turns it down, and the round goes on.                          *)
PollRefused ==
  /\ poll \in {"showMasked", "showClear"}
  /\ failures < MaxFailures
  /\ failures' = failures + 1
  /\ poll' = "idle"
  /\ UNCHANGED <<hasMask, mask, gate, privacy, override, command, policy,
                 capturing, asks, commands, toggles>>

(* Gladys asks for a state of the gate; without a mask it stores the value *)
(* itself, with one it waits for the state to be published.                *)
Command(enabled) ==
  /\ command = None
  /\ commands < MaxCommands
  /\ commands' = commands + 1
  /\ gate' = IF hasMask THEN gate ELSE enabled
  /\ command' =
       [enabled |-> enabled, step |-> IF hasMask THEN "sent" ELSE "applied"]
  /\ UNCHANGED <<hasMask, mask, privacy, override, poll, policy, capturing,
                 asks, toggles, failures>>

CommandApplied ==
  /\ command # None
  /\ command.step = "sent"
  /\ mask' = ~command.enabled
  /\ command' = [command EXCEPT !.step = "applied"]
  /\ UNCHANGED <<hasMask, gate, privacy, override, poll, policy, capturing,
                 bounds>>

(* setCameraEnabled goes on once the camera answered: what was done is     *)
(* remembered, then, with a mask, handed to the host.                      *)
CommandReturns ==
  /\ command # None
  /\ command.step = "applied"
  /\ override' = command.enabled
  /\ IF hasMask
       THEN /\ privacy' = ~command.enabled
            /\ command' = [command EXCEPT !.step = "publishing"]
       ELSE command' = None /\ UNCHANGED privacy
  /\ UNCHANGED <<hasMask, mask, gate, poll, policy, capturing, bounds>>

CommandShown ==
  /\ command # None
  /\ command.step = "publishing"
  /\ gate' = command.enabled
  /\ command' = None
  /\ UNCHANGED <<hasMask, mask, privacy, override, poll, policy, capturing,
                 bounds>>

(* The request or its answer is lost: setCameraEnabled throws and records  *)
(* nothing.                                                                *)
CommandFails ==
  /\ command # None
  /\ command.step \in {"sent", "applied"}
  /\ hasMask
  /\ failures < MaxFailures
  /\ failures' = failures + 1
  /\ command' = None
  /\ UNCHANGED <<hasMask, mask, gate, privacy, override, poll, policy,
                 capturing, asks, commands, toggles>>

(* The host turns the publication down, which the command does not hear of.*)
CommandRefused ==
  /\ command # None
  /\ command.step = "publishing"
  /\ failures < MaxFailures
  /\ failures' = failures + 1
  /\ command' = None
  /\ UNCHANGED <<hasMask, mask, gate, privacy, override, poll, policy,
                 capturing, asks, commands, toggles>>

---------------------------------------------------------------------------
(* Captures.                                                               *)

PolicyChanges ==
  /\ policy' \in {"all", "onDemand", "blocked"} \ {policy}
  /\ UNCHANGED <<hasMask, private, capturing, bounds>>

Elapses ==
  /\ ~due
  /\ due' = TRUE
  /\ UNCHANGED <<hasMask, private, policy, captures, waiting, bounds>>

(* The synchronous refusals at the head of runCapture.                     *)
Allowed == ~isCameraDisabled /\ policy # "blocked" /\ privacy # TRUE

Passes(c) == c \in Scheduled => policy = "all" /\ due

AskSeparately(c) ==
  /\ asks < MaxAsks
  /\ asks' = asks + 1
  /\ c \notin waiting
  /\ Passes(c)
  /\ Allowed
  /\ captures' = captures \cup {[by |-> c, phase |-> "locating"]}
  /\ waiting' = waiting \cup {c}
  /\ UNCHANGED <<hasMask, private, policy, due, commands, toggles, failures>>

(* captureDeviceImage: the capture in flight is shared, whatever would be  *)
(* refused by now; otherwise one starts unless runCapture refuses.         *)
Ask(c) ==
  /\ asks < MaxAsks
  /\ asks' = asks + 1
  /\ c \notin waiting
  /\ Passes(c)
  /\ \/ captures # {} /\ UNCHANGED captures
     \/ /\ captures = {}
        /\ Allowed
        /\ captures' = {[by |-> c, phase |-> "locating"]}
  /\ waiting' = waiting \cup {c}
  /\ UNCHANGED <<hasMask, private, policy, due, commands, toggles, failures>>

(* No address, no port open, or no account for the mode that was found.    *)
LocateFails(k) ==
  /\ k.phase = "locating"
  /\ captures' = captures \ {k}
  /\ waiting' = IF captures' = {} THEN {} ELSE waiting
  /\ UNCHANGED <<hasMask, private, policy, due, bounds>>

(* The camera is located: the capture is stamped and wakes it up.          *)
Wake(k) ==
  /\ k.phase = "locating"
  /\ captures' = (captures \ {k}) \cup {[k EXCEPT !.phase = "awake"]}
  /\ due' = FALSE
  /\ UNCHANGED <<hasMask, private, policy, waiting, bounds>>

(* An image or an error, for everyone who waits.                           *)
CaptureEnds(k) ==
  /\ k.phase = "awake"
  /\ captures' = captures \ {k}
  /\ waiting' = IF captures' = {} THEN {} ELSE waiting
  /\ UNCHANGED <<hasMask, private, policy, due, bounds>>

Next ==
  \/ TapoAppToggles
  \/ PollStarts
  \/ PollReads
  \/ PollFails
  \/ PollApplies
  \/ PollShown
  \/ PollRefused
  \/ \E enabled \in BOOLEAN : Command(enabled)
  \/ CommandApplied
  \/ CommandReturns
  \/ CommandShown
  \/ CommandFails
  \/ CommandRefused
  \/ PolicyChanges
  \/ Elapses
  \/ \E c \in Callers : Ask(c)
  \/ \E k \in captures : LocateFails(k) \/ Wake(k) \/ CaptureEnds(k)

Spec == Init /\ [][Next]_vars

(* The event check comes round while the battery guard allows it, requests *)
(* have deadlines, and the host takes or refuses what it is handed.        *)
FairSpec ==
  /\ Spec
  /\ WF_vars(PollStarts)
  /\ WF_vars(PollReads \/ PollFails)
  /\ WF_vars(PollApplies)
  /\ WF_vars(PollShown \/ PollRefused)
  /\ WF_vars(CommandApplied \/ CommandFails)
  /\ WF_vars(CommandReturns)
  /\ WF_vars(CommandShown \/ CommandRefused)

---------------------------------------------------------------------------
(* ScheduledAtPace: a capture a scheduled caller started never wakes the   *)
(* camera before its interval has passed since the last time anyone did,   *)
(* however the refresh loop, the poll and the on-demand callers overlap    *)
(* (isRefreshDue is read before the camera is located, stamped after).     *)
ScheduledAtPace ==
  [][\A k \in captures : Wake(k) /\ k.by \in Scheduled => due]_vars

(* GateSettles: once nobody moves the mask any more, the gate Gladys shows *)
(* and the mode the watcher remembers end up telling the truth, a reading  *)
(* overtaken by a command, publications of the two taken out of order and  *)
(* refused ones included (fetchDeviceEvents: "a switch that only reflects  *)
(* what Gladys itself did is a switch that lies").  For as long as the     *)
(* battery guard holds a camera back its mask is not read, and nothing is  *)
(* promised.                                                               *)
GateSettles ==
  <>[](policy = "all") => <>[](hasMask => gate = ~mask /\ privacy = mask)
=============================================================================
