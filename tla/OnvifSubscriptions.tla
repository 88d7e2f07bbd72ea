------------------------- MODULE OnvifSubscriptions -------------------------
(***************************************************************************)
(* Which cameras the event watcher (src/tapo/events.js) subscribes to, and *)
(* with which account: start() and stop(), the lists of devices asked of   *)
(* the host, the setups in flight (one per address), the generation that   *)
(* outdates them, the retries of the tick, and the two manifest actions of *)
(* src/app.js that drop a subscription to open it again.                   *)
(*                                                                         *)
(* A subscription is looked up by the ADDRESS of the camera, its coverage  *)
(* by the camera; both can change while a setup awaits the camera.  The    *)
(* life of one client is the module OnvifClient.                           *)
(***************************************************************************)
EXTENDS Naturals, FiniteSets

CONSTANTS
  Cameras,      \* the cameras Gladys holds, by cloud id
  Addrs,        \* addresses
  Accounts,     \* camera accounts
  MaxStarts,    \* bound on the starts and restarts of the watcher
  MaxSaves,     \* bound on the accounts saved
  MaxMoves,     \* bound on the addresses set by hand or found to change
  MaxFailures,  \* bound on the setups a camera refuses
  None          \* no address, no account, no client, no setup

ASSUME SubscriptionsAssumption ==
  /\ None \notin Cameras \cup Addrs \cup Accounts
  /\ {MaxStarts, MaxSaves, MaxMoves, MaxFailures} \subseteq Nat

VARIABLES
  known,       \* address in the params of each device, as Gladys holds it
  saved,       \* camera account of each camera in the stored configuration
  spared,      \* cameras isBatteryPowered() keeps off ONVIF
  watching,    \* the watcher is started
  config,      \* camera accounts of the configuration it was last started with
  generation,
  listing,     \* device lists asked by setupOnvifSubscriptions, not answered
  ticking,     \* what the tick is doing
  setups,      \* setup in flight at each address (onvifPending)
  clients,     \* onvifClients
  covered,     \* onvifCovered
  rebuilding,  \* cameras whose action has yet to drop and set up again
  displaced,   \* history: cameras met by a change of address, until the
               \* watcher starts or stops and no other one is found there
  saves, moves, failures   \* counted against the bounds

host == <<known, saved, spared>>
watcher == <<watching, config, generation>>
lists == <<listing, ticking>>
onvif == <<setups, clients, covered>>
bounds == <<saves, moves, failures>>
vars == <<host, watcher, lists, onvif, rebuilding, displaced, bounds>>

Account == Accounts \cup {None}
Client == [cam : Cameras, account : Accounts]
Setup == [cam : Cameras, account : Accounts, gen : Nat]

ASSUME NoneIsNoRecord == None \notin Client \cup Setup

TypeOK ==
  /\ known \in [Cameras -> Addrs \cup {None}]
  /\ saved \in [Cameras -> Account]
  /\ spared \subseteq Cameras
  /\ watching \in BOOLEAN
  /\ config \in [Cameras -> Account]
  /\ generation \in Nat
  /\ listing \in Nat
  /\ ticking \in {"idle", "listing", "checking"}
  /\ setups \in [Addrs -> Setup \cup {None}]
  /\ clients \in [Addrs -> Client \cup {None}]
  /\ covered \subseteq Cameras
  /\ rebuilding \subseteq Cameras
  /\ displaced \subseteq Cameras
  /\ {saves, moves, failures} \subseteq Nat

(* Before the first start the watcher has no configuration, which is the   *)
(* same for a setup as one without any account.                            *)
Init ==
  /\ known \in {k \in [Cameras -> Addrs \cup {None}] :
                  \A c, d \in Cameras : k[c] = k[d] /\ k[c] # None => c = d}
  /\ saved \in [Cameras -> Account]
  /\ spared \in SUBSET Cameras
  /\ watching = FALSE
  /\ config = [c \in Cameras |-> None]
  /\ generation = 0
  /\ listing = 0
  /\ ticking = "idle"
  /\ setups = [a \in Addrs |-> None]
  /\ clients = [a \in Addrs |-> None]
  /\ covered = {}
  /\ rebuilding = {}
  /\ displaced = {}
  /\ saves = 0 /\ moves = 0 /\ failures = 0

---------------------------------------------------------------------------
(* setupOnvif: what makes it return false before it claims the address,    *)
(* and openOnvif without an account, which asks nothing of the camera.     *)
MaySetUp(c, held) ==
  /\ known[c] # None
  /\ config[c] # None
  /\ c \notin spared
  /\ held[known[c]] = None
  /\ setups[known[c]] = None

SetupOf(c) == [cam |-> c, account |-> config[c], gen |-> generation]

(* One call of setupOnvif for every camera of the set, in some order: the  *)
(* first to claim an address keeps it.                                     *)
SetUpAll(candidates) ==
  LET ready == {c \in candidates : MaySetUp(c, clients)}
  IN  \E first \in [{known[c] : c \in ready} -> ready] :
        /\ \A a \in DOMAIN first : known[first[a]] = a
        /\ setups' = [a \in Addrs |-> IF a \in DOMAIN first
                                        THEN SetupOf(first[a])
                                        ELSE setups[a]]

(* stop(): every client is stopped; setups in flight only learn it from    *)
(* the generation.                                                         *)
StopClients ==
  /\ generation' = generation + 1
  /\ clients' = [a \in Addrs |-> None]
  /\ covered' = {}
  /\ displaced' = {c \in displaced : \E d \in Cameras \ {c} : known[d] = known[c]}

(* start(), from the configuration handler or a connection: the stored     *)
(* configuration is handed over and the devices are asked for.             *)
Start ==
  /\ generation < MaxStarts
  /\ StopClients
  /\ watching' = TRUE
  /\ config' = saved
  /\ listing' = listing + 1
  /\ UNCHANGED <<host, ticking, setups, rebuilding, bounds>>

(* stop(), at shutdown or once the integration is no longer configured.    *)
Stop ==
  /\ watching
  /\ generation < MaxStarts
  /\ StopClients
  /\ watching' = FALSE
  /\ UNCHANGED <<host, config, lists, setups, rebuilding, bounds>>

(* The list setupOnvifSubscriptions asked for arrives, or could not be     *)
(* read.                                                                   *)
Listed ==
  /\ listing > 0
  /\ listing' = listing - 1
  /\ SetUpAll(Cameras)
  /\ UNCHANGED <<host, watcher, ticking, clients, covered, rebuilding, displaced,
                 bounds>>

ListFailed ==
  /\ listing > 0
  /\ failures < MaxFailures
  /\ failures' = failures + 1
  /\ listing' = listing - 1
  /\ UNCHANGED <<host, watcher, ticking, onvif, rebuilding, displaced,
                 saves, moves>>

Tick ==
  /\ watching
  /\ ticking = "idle"
  /\ ticking' = "listing"
  /\ UNCHANGED <<host, watcher, listing, onvif, rebuilding, displaced,
                 bounds>>

(* The list of the tick arrives: the cameras that are not covered are      *)
(* retried.                                                                *)
RetryCovered ==
  /\ ticking = "listing"
  /\ ticking' = "checking"
  /\ SetUpAll(covered)
  /\ UNCHANGED <<host, watcher, listing, clients, covered, rebuilding, displaced,
                 bounds>>

Retry ==
  /\ ticking = "listing"
  /\ ticking' = "checking"
  /\ SetUpAll(Cameras \ covered)
  /\ UNCHANGED <<host, watcher, listing, clients, covered, rebuilding, displaced,
                 bounds>>

(* The checks end, a camera found without a battery among them or not.     *)
TickEnds ==
  /\ ticking = "checking"
  /\ ticking' = "idle"
  /\ spared' \in {spared} \cup {spared \ {c} : c \in spared}
  /\ UNCHANGED <<known, saved, watcher, listing, onvif, rebuilding, displaced,
                 bounds>>

InstalledWhatever(a) ==
  /\ setups[a] # None
  /\ setups' = [setups EXCEPT ![a] = None]
  /\ clients' = [clients EXCEPT ![a] = [cam |-> setups[a].cam,
                                        account |-> setups[a].account]]
  /\ covered' = covered \cup {setups[a].cam}
  /\ UNCHANGED <<host, watcher, lists, rebuilding, displaced,
                 bounds>>

(* The camera answered the probe and gave a subscription.                  *)
Installed(a) ==
  /\ setups[a] # None
  /\ setups' = [setups EXCEPT ![a] = None]
  /\ IF setups[a].gen = generation
       THEN /\ clients' = [clients EXCEPT ![a] = [cam |-> setups[a].cam,
                                                  account |-> setups[a].account]]
            /\ covered' = covered \cup {setups[a].cam}
       ELSE UNCHANGED <<clients, covered>>
  /\ UNCHANGED <<host, watcher, lists, rebuilding, displaced,
                 bounds>>

(* It refused the account, serves no ONVIF, is away or has no slot left.   *)
SetupFails(a) ==
  /\ setups[a] # None
  /\ failures < MaxFailures
  /\ failures' = failures + 1
  /\ setups' = [setups EXCEPT ![a] = None]
  /\ UNCHANGED <<host, watcher, lists, clients, covered, rebuilding, displaced,
                 saves, moves>>

---------------------------------------------------------------------------
(* The manifest actions: the store is written and the devices published,   *)
(* then the subscription is dropped and set up again.                      *)

SaveAccount(c, account) ==
  /\ saves < MaxSaves
  /\ saves' = saves + 1
  /\ saved' = [saved EXCEPT ![c] = account]
  /\ rebuilding' = rebuilding \cup {c}
  /\ UNCHANGED <<known, spared, watcher, lists, onvif, displaced, moves,
                 failures>>

(* Gladys holds another address for the camera, maybe that of another one. *)
Moves(c, a) ==
  /\ known' = [known EXCEPT ![c] = a]
  /\ displaced' = displaced \cup {c} \cup {d \in Cameras : known[d] = a}

SetAddress(c, a) ==
  /\ moves < MaxMoves
  /\ moves' = moves + 1
  /\ Moves(c, a)
  /\ rebuilding' = rebuilding \cup {c}
  /\ UNCHANGED <<saved, spared, watcher, lists, onvif, saves, failures>>

(* dropOnvif, which finds the client at the address the device has now.    *)
DropKeepingCoverage(c) ==
  /\ clients' = [a \in Addrs |-> IF a = known[c] THEN None ELSE clients[a]]
  /\ covered' = covered

dropOnvif(c) ==
  /\ clients' = [a \in Addrs |-> IF a = known[c] THEN None ELSE clients[a]]
  /\ covered' = covered \ {c}

Rebuild(c) ==
  /\ c \in rebuilding
  /\ rebuilding' = rebuilding \ {c}
  /\ dropOnvif(c)
  /\ setups' = IF MaySetUp(c, clients')
                 THEN [setups EXCEPT ![known[c]] = SetupOf(c)]
                 ELSE setups
  /\ UNCHANGED <<host, watcher, lists, displaced, bounds>>

(* A publication alone: a scan, or a manual address taken back, finds the  *)
(* camera somewhere else, or nowhere.                                      *)
FoundElsewhere(c, a) ==
  /\ moves < MaxMoves
  /\ moves' = moves + 1
  /\ a # known[c]
  /\ Moves(c, a)
  /\ UNCHANGED <<saved, spared, watcher, lists, onvif, rebuilding, saves,
                 failures>>

Next ==
  \/ Start
  \/ Stop
  \/ Listed
  \/ ListFailed
  \/ Tick
  \/ Retry
  \/ TickEnds
  \/ \E a \in Addrs : Installed(a) \/ SetupFails(a)
  \/ \E c \in Cameras :
       \/ \E account \in Account : SaveAccount(c, account)
       \/ \E a \in Addrs : SetAddress(c, a)
       \/ Rebuild(c)
       \/ \E a \in Addrs \cup {None} : FoundElsewhere(c, a)

Spec == Init /\ [][Next]_vars

(* The interval fires, the host answers, the checks and the setups have    *)
(* deadlines, and an action goes on to its end.                            *)
FairSpec ==
  /\ Spec
  /\ WF_vars(Tick)
  /\ WF_vars(Retry)
  /\ WF_vars(TickEnds)
  /\ \A c \in Cameras : WF_vars(Rebuild(c))
  /\ \A a \in Addrs : WF_vars(Installed(a) \/ SetupFails(a))

---------------------------------------------------------------------------
(* AccountsCurrent: every client that pulls was built with the account of  *)
(* the configuration the watcher runs with, restarts landing in the middle *)
(* of a probe or a subscription included ("this client was built for a     *)
(* configuration that is gone", openOnvif).                                *)
AccountsCurrent ==
  \A a \in Addrs : clients[a] # None => clients[a].account = config[clients[a].cam]

(* CoveredIsWatched: the cameras recorded as covered are the ones a client *)
(* pulls for, wherever setups fail or are overtaken by a restart.  One     *)
(* that is covered is neither polled nor retried, and has a client at the  *)
(* address Gladys knows (events.js:626, "a camera missing from it is one   *)
(* whose push path is not running"); one that has a client is not polled   *)
(* (README.md:113, "the two paths never run together on the same camera"). *)
(* A change of address breaks it, until the watcher starts again.          *)
CoveredIsWatched ==
  /\ \A c \in covered \ displaced :
       \/ c \in rebuilding
       \/ /\ known[c] # None
          /\ clients[known[c]] # None
          /\ clients[known[c]].cam = c
  /\ \A a \in Addrs :
       clients[a] # None => clients[a].cam \in covered \cup displaced

(* SubscribedAgain: a camera ONVIF is for is covered in the end, whatever  *)
(* setups failed and whatever restart found one in flight ("a camera that  *)
(* has an event feature but no live subscription is retried", tick()).     *)
Wanted(c) ==
  /\ watching /\ c \notin displaced
  /\ known[c] # None /\ config[c] # None /\ c \notin spared
SubscribedAgain == \A c \in Cameras : Wanted(c) ~> (c \in covered \/ ~Wanted(c))
=============================================================================
