----------------------------- MODULE SmartStates -----------------------------
(***************************************************************************)
(* One switchable device of src/smart/manager.js: the round that polls it, *)
(* the changes the round publishes with those of the other devices, the    *)
(* commands of Gladys landing anywhere in a round, the record of what the  *)
(* host took, and the transport badge.                                     *)
(*                                                                         *)
(* The client of the device sends one request at a time, in order.  The    *)
(* host takes publications in any order and their answers come in any      *)
(* order; it may turn one down, or take it without its answer reaching the *)
(* integration.                                                            *)
(***************************************************************************)
EXTENDS Naturals

CONSTANTS
  Values,         \* values of the feature
  MaxToggles,     \* bound on the changes made at the device itself
  MaxCommands,    \* bound on the commands of Gladys
  MaxOutages,     \* bound on the times the device goes away
  MaxRefusals,    \* bound on the publications the host refuses
  MaxLost,        \* bound on those it takes without its answer arriving
  MaxBadgeRefusals,  \* bound on the badges the host turns down
  None

SmartAssumption ==
  /\ None \notin Values
  /\ {MaxToggles, MaxCommands, MaxOutages, MaxRefusals, MaxLost,
      MaxBadgeRefusals} \subseteq Nat

VARIABLES
  device,      \* the value of the device
  online,      \* it answers
  shown,       \* the value Gladys shows
  published,   \* the manager's record of it (published)
  aged,        \* the record is older than REFRESH_UNCHANGED_MS
  round,       \* where the round is
  answer,      \* what the device answered it
  batch,       \* states the round collected for this device
  command,     \* the command in flight
  calls,       \* publishStates calls in flight: who made each, its value,
               \* and whether the host took it
  badge,       \* transports: the badge last handed to the host
  shownBadge,  \* the badge Gladys shows
  alone,       \* history: nothing but the round happened since it began
  misled,      \* history: the record is not known to be what the host took
               \* last, an answer having been overtaken or lost
  toggles, commands, outages, refusals, lost, badgeRefusals   \* the bounds

plug == <<device, online>>
record == <<published, aged, misled>>
rounds == <<round, answer, batch>>
badges == <<badge, shownBadge>>
bounds == <<toggles, commands, outages, refusals, lost, badgeRefusals>>
vars == <<plug, shown, record, rounds, command, calls, badges, alone, bounds>>

Maybe == Values \cup {None}

(* Calls are told apart by the command that made them, 0 for the round.    *)
Senders == 0..MaxCommands
Call == [by : Senders, value : Values, taken : BOOLEAN]
ByRound(c) == c.by = 0
Badges == {"local", "unreachable", None}

TypeOK ==
  /\ device \in Values /\ online \in BOOLEAN
  /\ {shown, published, answer} \subseteq Maybe
  /\ aged \in BOOLEAN
  /\ round \in {"idle", "asking", "answering", "collected", "flushing", "badges"}
  /\ batch \in Maybe
  /\ (batch # None) => round = "collected"
  /\ (round = "flushing") = (\E c \in calls : ByRound(c))
  /\ command \in [value : Values, applied : BOOLEAN] \cup {None}
  /\ calls \subseteq Call
  /\ {badge, shownBadge} \subseteq Badges
  /\ alone \in BOOLEAN /\ misled \in BOOLEAN

Init ==
  /\ device \in Values /\ online = TRUE
  /\ shown = None /\ published = None /\ aged = FALSE
  /\ round = "idle" /\ answer = None /\ batch = None
  /\ command = None /\ calls = {} /\ misled = FALSE
  /\ badge = None /\ shownBadge = None /\ alone = FALSE
  /\ toggles = 0 /\ commands = 0 /\ outages = 0
  /\ refusals = 0 /\ lost = 0 /\ badgeRefusals = 0

---------------------------------------------------------------------------
(* The device.                                                             *)

Toggled(v) ==
  /\ toggles < MaxToggles
  /\ toggles' = toggles + 1
  /\ v # device
  /\ device' = v
  /\ alone' = FALSE
  /\ UNCHANGED <<online, shown, record, rounds, command, calls, badges,
                 commands, outages, refusals, lost, badgeRefusals>>

GoesAway ==
  /\ online
  /\ outages < MaxOutages
  /\ outages' = outages + 1
  /\ online' = FALSE
  /\ UNCHANGED <<device, shown, record, rounds, command, calls, badges, alone,
                 toggles, commands, refusals, lost, badgeRefusals>>

ComesBack ==
  /\ ~online
  /\ online' = TRUE
  /\ UNCHANGED <<device, shown, record, rounds, command, calls, badges, alone,
                 bounds>>

---------------------------------------------------------------------------
(* The round; a round that lasts makes the next ticks skip.                *)

Tick ==
  /\ round = "idle"
  /\ round' = "asking"
  /\ alone' = (command = None /\ calls = {})
  /\ UNCHANGED <<plug, shown, record, answer, batch, command, calls, badges,
                 bounds>>

(* The device answers, once the request before it is done.                 *)
Answers ==
  /\ round = "asking"
  /\ online
  /\ command # None => ~command.applied
  /\ round' = "answering"
  /\ answer' = device
  /\ UNCHANGED <<plug, shown, record, batch, command, calls, badges, alone,
                 bounds>>

(* collect: a value is queued when it is not the one on record, or when    *)
(* the record is old.                                                      *)
collect ==
  /\ round = "answering"
  /\ round' = "collected"
  /\ batch' = IF answer = published /\ ~aged THEN None ELSE answer
  /\ answer' = None
  /\ UNCHANGED <<plug, shown, record, command, calls, badges, alone, bounds>>

Hand(sender, value) ==
  calls' = calls \cup {[by |-> sender, value |-> value, taken |-> FALSE]}

(* Every device of the round is done: the states are published together.   *)
FlushStarts ==
  /\ round = "collected"
  /\ IF batch = None
       THEN round' = "badges" /\ UNCHANGED calls
       ELSE /\ round' = "flushing"
            /\ Hand(0, batch)
  /\ batch' = None
  /\ UNCHANGED <<plug, shown, record, answer, command, badges, alone, bounds>>

(* The end of a round: a badge that changed is recorded, then published.   *)
PublishBadge(b) ==
  /\ badge' = b
  /\ \/ shownBadge' = b /\ UNCHANGED badgeRefusals
     \/ /\ b # badge
        /\ badgeRefusals < MaxBadgeRefusals
        /\ badgeRefusals' = badgeRefusals + 1
        /\ UNCHANGED shownBadge

NoBadge(b) == b = badge /\ UNCHANGED <<badges, badgeRefusals>>

RoundEndsOnce ==
  /\ round = "badges"
  /\ round' = "idle"
  /\ IF badge = None
       THEN PublishBadge("local")
       ELSE UNCHANGED <<badges, badgeRefusals>>
  /\ UNCHANGED <<plug, shown, record, answer, batch, command, calls, alone,
                 toggles, commands, outages, refusals, lost>>

RoundEnds ==
  /\ round = "badges"
  /\ round' = "idle"
  /\ IF badge = "local" THEN NoBadge("local") ELSE PublishBadge("local")
  /\ UNCHANGED <<plug, shown, record, answer, batch, command, calls, alone,
                 toggles, commands, outages, refusals, lost>>

(* The device did not answer: nothing is collected.                        *)
RoundFails ==
  /\ round = "asking"
  /\ ~online
  /\ round' = "idle"
  /\ IF badge = "unreachable"
       THEN NoBadge("unreachable")
       ELSE PublishBadge("unreachable")
  /\ UNCHANGED <<plug, shown, record, answer, batch, command, calls, alone,
                 toggles, commands, outages, refusals, lost>>

---------------------------------------------------------------------------
(* Commands (setValue): sent to the device, then published at once.        *)

Command(v) ==
  /\ command = None
  /\ commands < MaxCommands
  /\ commands' = commands + 1
  /\ command' = [value |-> v, applied |-> FALSE]
  /\ alone' = FALSE
  /\ UNCHANGED <<plug, shown, record, rounds, calls, badges, toggles, outages,
                 refusals, lost, badgeRefusals>>

CommandApplied ==
  /\ command # None
  /\ ~command.applied
  /\ online
  /\ round # "answering"
  /\ device' = command.value
  /\ command' = [command EXCEPT !.applied = TRUE]
  /\ UNCHANGED <<online, shown, record, rounds, calls, badges, alone, bounds>>

CommandReturns ==
  /\ command # None
  /\ command.applied
  /\ Hand(commands, command.value)
  /\ command' = None
  /\ UNCHANGED <<plug, shown, record, rounds, badges, alone, bounds>>

(* The device is away, before the request or before its answer.            *)
CommandFails ==
  /\ command # None
  /\ ~online
  /\ command' = None
  /\ UNCHANGED <<plug, shown, record, rounds, calls, badges, alone, bounds>>

---------------------------------------------------------------------------
(* The host.                                                               *)

(* Gladys shows what the host takes.                                       *)
Takes(c) ==
  /\ ~c.taken
  /\ calls' = (calls \ {c}) \cup {[c EXCEPT !.taken = TRUE]}
  /\ shown' = c.value
  /\ UNCHANGED <<plug, record, rounds, command, badges, alone, bounds>>

CallEnds(c) ==
  /\ calls' = calls \ {c}
  /\ round' = IF ByRound(c) THEN "badges" ELSE round

(* flush remembers what was sent.                                          *)
Accepted(c) ==
  /\ c.taken
  /\ published' = c.value
  /\ aged' = FALSE
  /\ misled' = (shown # c.value)
  /\ CallEnds(c)
  /\ UNCHANGED <<plug, shown, answer, batch, command, badges, alone, bounds>>

RefusedRemembers(c) ==
  /\ ~c.taken
  /\ refusals < MaxRefusals
  /\ refusals' = refusals + 1
  /\ published' = c.value
  /\ CallEnds(c)
  /\ alone' = FALSE
  /\ UNCHANGED <<plug, shown, aged, misled, answer, batch, command, badges,
                 toggles, commands, outages, lost, badgeRefusals>>

Refused(c) ==
  /\ ~c.taken
  /\ refusals < MaxRefusals
  /\ refusals' = refusals + 1
  /\ CallEnds(c)
  /\ alone' = FALSE
  /\ UNCHANGED <<plug, shown, record, answer, batch, command, badges, toggles,
                 commands, outages, lost, badgeRefusals>>

(* The host took it, and its answer never arrived.                         *)
Unanswered(c) ==
  /\ c.taken
  /\ lost < MaxLost
  /\ lost' = lost + 1
  /\ misled' = (misled \/ shown = c.value)
  /\ CallEnds(c)
  /\ UNCHANGED <<plug, shown, published, aged, answer, batch, command, badges,
                 alone, toggles, commands, outages, refusals, badgeRefusals>>

Ages ==
  /\ published # None
  /\ ~aged
  /\ aged' = TRUE
  /\ UNCHANGED <<plug, shown, published, misled, rounds, command, calls, badges,
                 alone, bounds>>

Next ==
  \/ \E v \in Values : Toggled(v) \/ Command(v)
  \/ GoesAway
  \/ ComesBack
  \/ Tick
  \/ Answers
  \/ collect
  \/ FlushStarts
  \/ RoundEnds
  \/ RoundFails
  \/ CommandApplied
  \/ CommandReturns
  \/ CommandFails
  \/ \E c \in calls : Takes(c) \/ Accepted(c) \/ Refused(c) \/ Unanswered(c)
  \/ Ages

Spec == Init /\ [][Next]_vars

(* The steps of the round, of a command and of the call of one sender come *)
(* one after the other.                                                    *)
RoundStep ==
  Tick \/ Answers \/ RoundFails \/ collect \/ FlushStarts \/ RoundEnds
CommandStep == CommandApplied \/ CommandFails \/ CommandReturns
HostStep(by) ==
  \E c \in calls : /\ c.by = by
                   /\ Takes(c) \/ Refused(c) \/ Accepted(c) \/ Unanswered(c)

(* The interval fires, requests end, the host takes or refuses each call   *)
(* and its answer comes or is lost, time passes, and a device that went    *)
(* away comes back.                                                        *)
FairSpec ==
  /\ Spec
  /\ WF_vars(ComesBack)
  /\ WF_vars(RoundStep)
  /\ WF_vars(CommandStep)
  /\ \A by \in Senders : WF_vars(HostStep(by))
  /\ WF_vars(Ages)

---------------------------------------------------------------------------
(* RoundShows: a round with which nothing interfered leaves Gladys showing *)
(* the value of the device, whatever went before it, so that a value the   *)
(* round skips as published is one Gladys shows: refused publications are  *)
(* sent again, and the answers to commands are taken into account.  The    *)
(* exception is a record written by an answer that another publication had *)
(* overtaken, or not corrected by one that was lost: it stands until the   *)
(* next acknowledged publication, which REFRESH_UNCHANGED_MS brings.       *)
RoundShows == [][RoundEnds /\ alone => shown = device \/ misled]_vars

(* Settles: once the device is left alone, Gladys ends up showing what is  *)
(* true of it.  Its value, a round overtaken by a command, answers lost or *)
(* out of order, refusals and outages included; and its badge, "Local      *)
(* while the device answers its poll, Unreachable while it does not"       *)
(* (README.md:178), as long as the host takes every badge: one it turned   *)
(* down is recorded as shown, and not sent again.                          *)
Settles ==
  /\ <>[](shown = device)
  /\ <>[](shownBadge = "local" \/ badgeRefusals > 0)
=============================================================================
