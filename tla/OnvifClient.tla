----------------------------- MODULE OnvifClient -----------------------------
(***************************************************************************)
(* One TapoOnvif client (src/tapo/onvif.js) and the camera it watches: the *)
(* pull point subscription opened before the loop starts, the long poll    *)
(* that renews, pulls and dispatches, what each way of failing does to the *)
(* subscription, and stop() landing anywhere.  The camera keeps a few      *)
(* subscriptions only, forgets them when it reboots and lets any of them   *)
(* expire.                                                                 *)
(*                                                                         *)
(* Every request is a phase of its own: the camera may act on it before    *)
(* the client learns anything, and its answer may be lost.                 *)
(***************************************************************************)
EXTENDS Naturals, FiniteSets

CONSTANTS
  Subs,         \* identities of subscriptions
  Slots,        \* subscriptions the camera keeps at once
  QuietLimit,   \* ONVIF_QUIET_TIMEOUTS_BEFORE_FAILURE
  MaxLosses,    \* bound on the requests or answers lost on the way
  MaxReboots,   \* bound on the reboots of the camera
  None          \* no subscription

ClientAssumption ==
  /\ IsFiniteSet(Subs) /\ None \notin Subs
  /\ {Slots, QuietLimit} \subseteq Nat \ {0}
  /\ {MaxLosses, MaxReboots} \subseteq Nat

VARIABLES
  phase,    \* where the client is
  running,  \* the loop may go on
  stopped,  \* stop() was called
  url,      \* pullPointUrl
  target,   \* the subscription the pull in flight is about
  quiet,    \* quietTimeouts
  up,       \* the camera is up
  held,     \* the subscriptions the camera keeps
  queued,   \* the subscriptions with something to report
  reply,    \* the subscription created by the request in flight
  unsubs,   \* Unsubscribe requests in flight
  losses, reboots  \* counted against the bounds

client == <<phase, running, stopped, url, target, quiet>>
camera == <<up, held, queued>>
net == <<reply, unsubs>>
bounds == <<losses, reboots>>
vars == <<client, camera, net, bounds>>

Phases == {"built", "opening", "opened", "top", "renewing", "subscribing",
           "pulling", "pausing", "backoff", "ended"}
MaybeSub == Subs \cup {None}

TypeOK ==
  /\ phase \in Phases
  /\ running \in BOOLEAN /\ stopped \in BOOLEAN
  /\ url \in MaybeSub /\ target \in MaybeSub /\ reply \in MaybeSub
  /\ quiet \in 0..(QuietLimit - 1)
  /\ up \in BOOLEAN
  /\ held \subseteq Subs /\ queued \subseteq held /\ unsubs \subseteq Subs
  /\ Cardinality(held) <= Slots
  /\ losses \in 0..MaxLosses /\ reboots \in 0..MaxReboots

Init ==
  /\ phase = "built"
  /\ running = FALSE
  /\ stopped = FALSE
  /\ url = None
  /\ target = None
  /\ quiet = 0
  /\ up = TRUE
  /\ held = {}
  /\ queued = {}
  /\ reply = None
  /\ unsubs = {}
  /\ losses = 0
  /\ reboots = 0

---------------------------------------------------------------------------
(* The camera.                                                             *)

Known == ({url, target, reply} \ {None}) \cup unsubs

CameraSubscribes ==
  /\ phase \in {"opening", "subscribing"}
  /\ reply = None
  /\ up
  /\ Cardinality(held) < Slots
  /\ \E s \in Subs \ (held \cup Known) :
       /\ held' = held \cup {s}
       /\ reply' = s
  /\ UNCHANGED <<client, up, queued, unsubs, bounds>>

CameraUnsubscribes(s) ==
  /\ s \in unsubs
  /\ up
  /\ unsubs' = unsubs \ {s}
  /\ held' = held \ {s}
  /\ queued' = queued \ {s}
  /\ UNCHANGED <<client, up, reply, bounds>>

UnsubscribeLost(s) ==
  /\ s \in unsubs
  /\ ~up \/ losses < MaxLosses
  /\ losses' = IF up THEN losses + 1 ELSE losses
  /\ unsubs' = unsubs \ {s}
  /\ UNCHANGED <<client, camera, reply, reboots>>

(* The term is minutes long: it does not end while the camera is handing   *)
(* the subscription out.                                                   *)
Expires(s) ==
  /\ s \in held
  /\ s # reply
  /\ held' = held \ {s}
  /\ queued' = queued \ {s}
  /\ UNCHANGED <<client, up, net, bounds>>

Detects ==
  /\ up
  /\ queued' = held
  /\ UNCHANGED <<client, up, held, net, bounds>>

GoesDown ==
  /\ up
  /\ reboots < MaxReboots
  /\ reboots' = reboots + 1
  /\ up' = FALSE
  /\ held' = {}
  /\ queued' = {}
  /\ UNCHANGED <<client, net, losses>>

ComesUp ==
  /\ ~up
  /\ up' = TRUE
  /\ UNCHANGED <<client, held, queued, net, bounds>>

---------------------------------------------------------------------------
(* The client.                                                             *)

(* openOnvif subscribes before it starts the loop.                         *)
Open ==
  /\ phase = "built"
  /\ ~stopped
  /\ phase' = "opening"
  /\ UNCHANGED <<running, stopped, url, target, quiet, camera, net,
                 bounds>>

(* subscribe() gets its address: kept, or released when the client was     *)
(* stopped while the camera was answering.                                 *)
SubscribedUnaware ==
  /\ reply # None
  /\ reply' = None
  /\ url' = reply
  /\ IF phase = "opening"
       THEN phase' = "opened" /\ UNCHANGED target
       ELSE phase' = "pulling" /\ target' = reply
  /\ UNCHANGED <<unsubs, running, stopped, quiet, camera, bounds>>

Subscribed ==
  /\ reply # None
  /\ reply' = None
  /\ \/ /\ stopped
        /\ unsubs' = unsubs \cup {reply}
        /\ phase' = "ended"
        /\ UNCHANGED <<url, target>>
     \/ /\ ~stopped
        /\ url' = reply
        /\ IF phase = "opening"
             THEN phase' = "opened" /\ UNCHANGED target
             ELSE phase' = "pulling" /\ target' = reply
        /\ UNCHANGED unsubs
  /\ UNCHANGED <<running, stopped, quiet, camera, bounds>>

(* subscribe() throws: the camera is away, has no slot left, or the        *)
(* request or its answer was lost.  A setup gives up, a loop backs off.    *)
SubscribeFails ==
  /\ phase \in {"opening", "subscribing"}
  /\ \/ /\ reply = None
        /\ ~up \/ Cardinality(held) = Slots
        /\ UNCHANGED losses
     \/ /\ reply # None
        /\ reply \notin held
        /\ UNCHANGED losses
     \/ /\ losses < MaxLosses
        /\ losses' = losses + 1
  /\ reply' = None
  /\ phase' = IF phase = "opening" \/ ~running THEN "ended" ELSE "backoff"
  /\ quiet' = IF running THEN 0 ELSE quiet
  /\ UNCHANGED <<running, stopped, url, target, camera, unsubs, reboots>>

Start ==
  /\ phase = "opened"
  /\ ~stopped
  /\ running' = TRUE
  /\ phase' = "top"
  /\ UNCHANGED <<stopped, url, target, quiet, camera, net, bounds>>

(* The top of the loop: renew when it is due, subscribe when there is no   *)
(* subscription, pull otherwise.                                           *)
LoopTop ==
  /\ phase = "top"
  /\ \/ ~running /\ phase' = "ended" /\ UNCHANGED target
     \/ running /\ url = None /\ phase' = "subscribing" /\ UNCHANGED target
     \/ running /\ url # None /\ phase' = "renewing" /\ UNCHANGED target
     \/ running /\ url # None /\ phase' = "pulling" /\ target' = url
  /\ UNCHANGED <<running, stopped, url, quiet, camera, net, bounds>>

(* Renew comes back, accepted, refused or lost; only a camera that says it *)
(* does not know the subscription makes the client forget it.              *)
Renewed ==
  /\ phase = "renewing"
  /\ \/ url' = url
     \/ up /\ url \notin held /\ url' = None
  /\ IF url' = None
       THEN phase' = "subscribing" /\ UNCHANGED target
       ELSE phase' = "pulling" /\ target' = url
  /\ UNCHANGED <<running, stopped, quiet, camera, net, bounds>>

(* The pull returns: whatever was queued is dispatched, even when the      *)
(* client was stopped while the camera held the pull.                      *)
PullReturns ==
  /\ phase = "pulling"
  /\ up /\ target \in held
  /\ queued' = queued \ {target}
  /\ quiet' = 0
  /\ phase' = "top"
  /\ UNCHANGED <<running, stopped, url, target, up, held, net, bounds>>

(* The camera ends a quiet pull by cutting the connection.                 *)
PullCut ==
  /\ phase = "pulling"
  /\ up /\ target \in held \ queued
  /\ quiet' = 0
  /\ phase' = IF running THEN "pausing" ELSE "ended"
  /\ UNCHANGED <<running, stopped, url, target, camera, net, bounds>>

(* A failure that is not benign: the subscription is dropped and released, *)
(* unless the camera said it does not know it.                             *)
DropSubscription(unknown) ==
  /\ quiet' = 0
  /\ url' = None
  /\ unsubs' = IF unknown \/ url = None THEN unsubs ELSE unsubs \cup {url}
  /\ phase' = "backoff"

TimedOutAlwaysBenign ==
  /\ phase = "pulling"
  /\ ~up \/ target \notin held
  /\ \/ ~running /\ phase' = "ended" /\ UNCHANGED <<url, quiet, unsubs>>
     \/ running /\ phase' = "pausing" /\ UNCHANGED <<url, quiet, unsubs>>
  /\ UNCHANGED <<running, stopped, target, camera, reply, bounds>>

TimedOutOnceMore ==
  /\ phase = "pulling"
  /\ ~up \/ target \notin held
  /\ \/ ~running /\ phase' = "ended" /\ UNCHANGED <<url, quiet, unsubs>>
     \/ /\ running
        /\ quiet + 1 <= QuietLimit
        /\ quiet' = quiet + 1
        /\ phase' = "pausing"
        /\ UNCHANGED <<url, unsubs>>
     \/ running /\ quiet + 1 > QuietLimit /\ DropSubscription(FALSE)
  /\ UNCHANGED <<running, stopped, target, camera, reply, bounds>>

(* The camera says nothing at all: benign until it happens several times   *)
(* in a row.                                                               *)
PullTimesOut ==
  /\ phase = "pulling"
  /\ ~up \/ target \notin held
  /\ \/ ~running /\ phase' = "ended" /\ UNCHANGED <<url, quiet, unsubs>>
     \/ /\ running
        /\ quiet + 1 < QuietLimit
        /\ quiet' = quiet + 1
        /\ phase' = "pausing"
        /\ UNCHANGED <<url, unsubs>>
     \/ running /\ quiet + 1 = QuietLimit /\ DropSubscription(FALSE)
  /\ UNCHANGED <<running, stopped, target, camera, reply, bounds>>

(* The camera refuses the pull or cannot be reached.                       *)
PullFails ==
  /\ phase = "pulling"
  /\ ~up \/ target \notin held \/ losses < MaxLosses
  /\ losses' = IF up /\ target \in held THEN losses + 1 ELSE losses
  /\ \/ ~running /\ phase' = "ended" /\ UNCHANGED <<url, quiet, unsubs>>
     \/ running /\ DropSubscription(up /\ target \notin held)
  /\ UNCHANGED <<running, stopped, target, camera, reply, reboots>>

WaitEnds ==
  /\ phase \in {"pausing", "backoff"}
  /\ phase' = "top"
  /\ UNCHANGED <<running, stopped, url, target, quiet, camera, net,
                 bounds>>

(* stop(): a backoff is cut short, the subscription released; a request in *)
(* flight is left to finish.                                               *)
Stop ==
  /\ ~stopped
  /\ running' = FALSE
  /\ stopped' = TRUE
  /\ url' = None
  /\ unsubs' = IF url = None THEN unsubs ELSE unsubs \cup {url}
  /\ phase' = CASE phase = "backoff" -> "top"
                [] phase \in {"built", "opened"} -> "ended"
                [] OTHER -> phase
  /\ UNCHANGED <<target, quiet, camera, reply, bounds>>

ClientStep ==
  \/ Open \/ Subscribed \/ SubscribeFails \/ Start \/ LoopTop \/ Renewed
  \/ PullReturns \/ PullCut \/ PullTimesOut \/ PullFails \/ WaitEnds

Next ==
  \/ CameraSubscribes
  \/ \E s \in Subs : CameraUnsubscribes(s) \/ UnsubscribeLost(s) \/ Expires(s)
  \/ Detects
  \/ GoesDown
  \/ ComesUp
  \/ ClientStep
  \/ Stop

Spec == Init /\ [][Next]_vars

(* Requests have deadlines and waits are timers, so the client always goes *)
(* on; a camera that went down comes up, answers a subscription it has a   *)
(* slot for, and lets what nobody pulls expire.                            *)
FairSpec ==
  /\ Spec
  /\ WF_vars(ClientStep)
  /\ WF_vars(CameraSubscribes)
  /\ WF_vars(ComesUp)
  /\ WF_vars(\E s \in Subs : CameraUnsubscribes(s))
  /\ WF_vars(\E s \in Subs \ {url, target} : Expires(s))

---------------------------------------------------------------------------
(* NoLeak: the camera keeps no subscription the client neither uses, nor   *)
(* is being handed, nor is releasing, but for one per message lost; a stop *)
(* at any moment of a subscribe, a renew or a pull included (subscribe():  *)
(* "it holds one of the few slots the firmware has").                      *)
Used == {reply} \cup unsubs \cup (IF stopped THEN {} ELSE {url})
NoLeak == Cardinality(held \ Used) <= losses

(* WatchesAgain: whatever the reboots, expiries and losses, a client that  *)
(* opened and is not stopped keeps coming back to a pull on a subscription *)
(* the camera knows, a camera that forgot it in silence included.          *)
WatchesAgain ==
  running ~> (stopped \/ (phase = "pulling" /\ up /\ target \in held))
=============================================================================
