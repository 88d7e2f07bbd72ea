---------------------- MODULE OnvifSubscriptionsProofs ----------------------
(***************************************************************************)
(* For any number of cameras, addresses, accounts, restarts, saves and     *)
(* moves: no client ever pulls with an account that is not the one of the  *)
(* configuration the watcher runs with, and the cameras recorded as        *)
(* covered are the ones a client pulls for.                                *)
(*                                                                         *)
(* The first argument is the generation: a setup in flight never comes     *)
(* from a later generation than the watcher's, and one of the same         *)
(* generation holds the account of the running configuration, because      *)
(* start() changes both together.  The second is the address (CoverageInv):*)
(* two cameras are never known at one address, and a setup or a client     *)
(* sits at the address of its camera, unless that camera was displaced.    *)
(***************************************************************************)
EXTENDS OnvifSubscriptions, TLAPS

(* The part of the type invariant the argument needs.                      *)
Shapes ==
  /\ known \in [Cameras -> Addrs \cup {None}]
  /\ saved \in [Cameras -> Account]
  /\ config \in [Cameras -> Account]
  /\ generation \in Nat
  /\ setups \in [Addrs -> Setup \cup {None}]
  /\ clients \in [Addrs -> Client \cup {None}]

SetupsFit ==
  \A a \in Addrs : setups[a] # None =>
    /\ setups[a].gen <= generation
    /\ setups[a].gen = generation => setups[a].account = config[setups[a].cam]

IInv == Shapes /\ SetupsFit /\ AccountsCurrent

(* A new setup is well formed and fits the running watcher.                *)
LEMMA NewSetup ==
  ASSUME Shapes, NEW c \in Cameras, NEW held, MaySetUp(c, held)
  PROVE  /\ known[c] \in Addrs
         /\ SetupOf(c) \in Setup
         /\ SetupOf(c).gen = generation
         /\ SetupOf(c).account = config[SetupOf(c).cam]
<1>1. known[c] \in Addrs /\ config[c] \in Accounts
  BY DEF MaySetUp, Shapes, Account
<1> QED
  BY <1>1 DEF SetupOf, Setup, Shapes

(* Whatever set of cameras is tried together, the setups stay well formed. *)
LEMMA SetUpAllFits ==
  ASSUME IInv, NEW candidates \in SUBSET Cameras, SetUpAll(candidates),
         UNCHANGED <<config, generation>>
  PROVE  setups' \in [Addrs -> Setup \cup {None}] /\ SetupsFit'
<1> DEFINE ready == {c \in candidates : MaySetUp(c, clients)}
<1>1. PICK first \in [{known[c] : c \in ready} -> ready] :
        setups' = [a \in Addrs |-> IF a \in DOMAIN first
                                     THEN SetupOf(first[a])
                                     ELSE setups[a]]
  BY DEF SetUpAll
<1>2. ASSUME NEW a \in Addrs
      PROVE  /\ setups'[a] \in Setup \cup {None}
             /\ setups'[a] # None =>
                  /\ setups'[a].gen <= generation
                  /\ setups'[a].gen = generation =>
                       setups'[a].account = config[setups'[a].cam]
  <2>1. CASE a \in DOMAIN first
    <3>1. first[a] \in Cameras /\ MaySetUp(first[a], clients)
      BY <1>1, <2>1
    <3>2. setups'[a] = SetupOf(first[a])
      BY <1>1, <2>1
    <3>3. generation \in Nat
      BY DEF IInv, Shapes
    <3> QED
      BY <3>1, <3>2, <3>3, NewSetup DEF IInv
  <2>2. CASE a \notin DOMAIN first
    <3>1. setups'[a] = setups[a]
      BY <1>1, <2>2
    <3> QED
      BY <3>1 DEF IInv, Shapes, SetupsFit
  <2> QED
    BY <2>1, <2>2
<1>3. setups' \in [Addrs -> Setup \cup {None}]
  BY <1>1, <1>2
<1>4. SetupsFit'
  BY <1>2 DEF SetupsFit
<1> QED
  BY <1>3, <1>4

(* The invariant holds at the start and every step keeps it.               *)
LEMMA IInvInductive ==
  /\ Init => IInv
  /\ IInv /\ [Next]_vars => IInv'
<1>1. Init => IInv
  BY SubscriptionsAssumption
     DEF Init, IInv, Shapes, SetupsFit, AccountsCurrent, Account
<1>2. IInv /\ [Next]_vars => IInv'
  <2> SUFFICES ASSUME IInv, [Next]_vars PROVE IInv'
    OBVIOUS
  <2> USE DEF IInv
  <2>1. CASE Start
    <3>1. Shapes'
      BY <2>1 DEF Start, StopClients, Shapes, host
    <3>2. SetupsFit'
      BY <2>1 DEF Start, StopClients, Shapes, SetupsFit, Setup
    <3>3. AccountsCurrent'
      BY <2>1 DEF Start, StopClients, AccountsCurrent
    <3> QED
      BY <3>1, <3>2, <3>3
  <2>2. CASE Stop
    <3>1. Shapes'
      BY <2>2 DEF Stop, StopClients, Shapes, host
    <3>2. SetupsFit'
      BY <2>2 DEF Stop, StopClients, Shapes, SetupsFit, Setup
    <3>3. AccountsCurrent'
      BY <2>2 DEF Stop, StopClients, AccountsCurrent
    <3> QED
      BY <3>1, <3>2, <3>3
  <2>3. CASE Listed \/ Retry
    <3>1. UNCHANGED <<known, saved, config, generation, clients>>
      BY <2>3 DEF Listed, Retry, host, watcher
    <3>2. \E candidates \in SUBSET Cameras : SetUpAll(candidates)
      BY <2>3 DEF Listed, Retry
    <3>3. setups' \in [Addrs -> Setup \cup {None}] /\ SetupsFit'
      BY <3>1, <3>2, SetUpAllFits
    <3> QED
      BY <3>1, <3>3 DEF Shapes, AccountsCurrent
  <2>4. CASE ListFailed \/ Tick \/ TickEnds
    BY <2>4 DEF ListFailed, Tick, TickEnds, Shapes, SetupsFit, AccountsCurrent,
                host, watcher, onvif
  <2>5. ASSUME NEW a \in Addrs, Installed(a) PROVE IInv'
    <3>1. UNCHANGED <<known, saved, config, generation>>
      BY <2>5 DEF Installed, host, watcher
    <3>2. setups[a] \in Setup
      BY <2>5 DEF Installed, Shapes
    <3>3. setups' \in [Addrs -> Setup \cup {None}] /\ SetupsFit'
      BY <2>5, <3>1 DEF Installed, Shapes, SetupsFit
    <3>4. CASE setups[a].gen = generation
      <4>1. clients' = [clients EXCEPT ![a] = [cam |-> setups[a].cam,
                                               account |-> setups[a].account]]
        BY <2>5, <3>4 DEF Installed
      <4>2. clients' \in [Addrs -> Client \cup {None}]
        BY <3>2, <4>1 DEF Shapes, Setup, Client
      <4>3. setups[a].account = config[setups[a].cam]
        BY <2>5, <3>4 DEF SetupsFit, Installed
      <4>4. AccountsCurrent'
        BY <3>1, <4>1, <4>3 DEF AccountsCurrent, Shapes
      <4> QED
        BY <3>1, <3>3, <4>2, <4>4 DEF Shapes
    <3>5. CASE setups[a].gen # generation
      BY <2>5, <3>1, <3>3, <3>5 DEF Installed, Shapes, AccountsCurrent
    <3> QED
      BY <3>4, <3>5
  <2>6. ASSUME NEW a \in Addrs, SetupFails(a) PROVE IInv'
    BY <2>6 DEF SetupFails, Shapes, SetupsFit, AccountsCurrent, host, watcher
  <2>7. ASSUME NEW c \in Cameras, NEW account \in Account, SaveAccount(c, account)
        PROVE IInv'
    BY <2>7 DEF SaveAccount, Shapes, SetupsFit, AccountsCurrent, watcher, onvif
  <2>8. ASSUME NEW c \in Cameras, NEW a \in Addrs, SetAddress(c, a) PROVE IInv'
    BY <2>8 DEF SetAddress, Moves, Shapes, SetupsFit, AccountsCurrent, watcher, onvif
  <2>9. ASSUME NEW c \in Cameras, Rebuild(c) PROVE IInv'
    <3>1. UNCHANGED <<known, saved, config, generation>>
      BY <2>9 DEF Rebuild, host, watcher
    <3>2. clients' \in [Addrs -> Client \cup {None}] /\ AccountsCurrent'
      BY <2>9, <3>1 DEF Rebuild, dropOnvif, Shapes, AccountsCurrent
    <3>3. CASE MaySetUp(c, clients')
      <4>1. setups' = [setups EXCEPT ![known[c]] = SetupOf(c)]
        BY <2>9, <3>3 DEF Rebuild
      <4>2. known[c] \in Addrs /\ SetupOf(c) \in Setup
            /\ SetupOf(c).gen = generation
            /\ SetupOf(c).account = config[SetupOf(c).cam]
        BY <3>3, NewSetup
      <4>3. setups' \in [Addrs -> Setup \cup {None}]
        BY <4>1, <4>2 DEF Shapes
      <4>4. SetupsFit'
        BY <3>1, <4>1, <4>2 DEF SetupsFit, Shapes
      <4> QED
        BY <3>1, <3>2, <4>3, <4>4 DEF Shapes
    <3>4. CASE ~MaySetUp(c, clients')
      BY <2>9, <3>1, <3>2, <3>4 DEF Rebuild, Shapes, SetupsFit
    <3> QED
      BY <3>3, <3>4
  <2>10. ASSUME NEW c \in Cameras, NEW a \in Addrs \cup {None},
                FoundElsewhere(c, a)
         PROVE  IInv'
    BY <2>10 DEF FoundElsewhere, Moves, Shapes, SetupsFit, AccountsCurrent, watcher,
                 onvif
  <2>11. CASE UNCHANGED vars
    BY <2>11 DEF vars, host, watcher, onvif, Shapes, SetupsFit, AccountsCurrent
  <2> QED
    BY <2>1, <2>2, <2>3, <2>4, <2>5, <2>6, <2>7, <2>8, <2>9, <2>10, <2>11
       DEF Next
<1> QED
  BY <1>1, <1>2

(* Every client that pulls was built for the running configuration.        *)
THEOREM AccountsCurrentHolds == Spec => []AccountsCurrent
<1>1. IInv => AccountsCurrent
  BY DEF IInv
<1> QED
  BY <1>1, IInvInductive, PTL DEF Spec

---------------------------------------------------------------------------
(* The rest of the types: what the argument above does not depend on.      *)
ScheduleTypes ==
  /\ watching \in BOOLEAN
  /\ listing \in Nat
  /\ ticking \in {"idle", "listing", "checking"}
  /\ saves \in Nat /\ moves \in Nat /\ failures \in Nat

CameraSets ==
  /\ spared \subseteq Cameras /\ covered \subseteq Cameras
  /\ rebuilding \subseteq Cameras /\ displaced \subseteq Cameras

LEMMA ScheduleTypesKept ==
  ASSUME ScheduleTypes, [Next]_vars
  PROVE  ScheduleTypes'
<1> USE DEF ScheduleTypes
<1>1. CASE Start \/ Stop
  <2>1. watching' \in BOOLEAN /\ listing' \in Nat /\ ticking' = ticking
    <3>1. CASE Start
      BY <3>1 DEF Start
    <3>2. CASE Stop
      BY <3>2 DEF Stop, lists
    <3> QED
      BY <1>1, <3>1, <3>2
  <2>2. UNCHANGED <<saves, moves, failures>>
    BY <1>1 DEF Start, Stop, bounds
  <2> QED
    BY <2>1, <2>2
<1>2. CASE Listed \/ ListFailed
  BY <1>2 DEF Listed, ListFailed, watcher, bounds
<1>3. CASE Tick \/ Retry \/ TickEnds
  BY <1>3 DEF Tick, Retry, TickEnds, watcher, bounds
<1>4. ASSUME NEW a \in Addrs, Installed(a) \/ SetupFails(a)
      PROVE  ScheduleTypes'
  BY <1>4 DEF Installed, SetupFails, watcher, lists, bounds
<1>5. ASSUME NEW c \in Cameras,
             \/ \E account \in Account : SaveAccount(c, account)
             \/ \E a \in Addrs : SetAddress(c, a)
             \/ Rebuild(c)
             \/ \E a \in Addrs \cup {None} : FoundElsewhere(c, a)
      PROVE  ScheduleTypes'
  BY <1>5 DEF SaveAccount, SetAddress, Rebuild, FoundElsewhere, watcher, lists,
              bounds
<1>6. CASE UNCHANGED vars
  BY <1>6 DEF vars, watcher, lists, bounds
<1> QED
  BY <1>1, <1>2, <1>3, <1>4, <1>5, <1>6 DEF Next

LEMMA CameraSetsKept ==
  ASSUME IInv, CameraSets, [Next]_vars
  PROVE  CameraSets'
<1> USE DEF CameraSets
<1>1. CASE Start \/ Stop
  BY <1>1 DEF Start, Stop, StopClients, host
<1>2. CASE Listed \/ ListFailed \/ Tick \/ Retry
  <2>1. UNCHANGED <<spared, covered, rebuilding, displaced>>
    BY <1>2 DEF Listed, ListFailed, Tick, Retry, host, onvif
  <2> QED
    BY <2>1
<1>3. CASE TickEnds
  BY <1>3 DEF TickEnds, onvif
<1>4. ASSUME NEW a \in Addrs, Installed(a) \/ SetupFails(a)
      PROVE  CameraSets'
  <2>1. setups[a] \in Setup
    BY <1>4 DEF Installed, SetupFails, IInv, Shapes
  <2>2. covered' \subseteq Cameras
    BY <1>4, <2>1 DEF Installed, SetupFails, Setup
  <2> QED
    BY <1>4, <2>2 DEF Installed, SetupFails, host
<1>5. ASSUME NEW c \in Cameras, NEW a \in Addrs \cup {None}, Moves(c, a)
      PROVE  displaced' \subseteq Cameras
  BY <1>5 DEF Moves
<1>6. ASSUME NEW c \in Cameras, NEW a \in Addrs, SetAddress(c, a)
      PROVE  CameraSets'
  BY <1>5, <1>6 DEF SetAddress, onvif
<1>7. ASSUME NEW c \in Cameras, NEW a \in Addrs \cup {None},
             FoundElsewhere(c, a)
      PROVE  CameraSets'
  BY <1>5, <1>7 DEF FoundElsewhere, onvif
<1>8. ASSUME NEW c \in Cameras, NEW account \in Account, SaveAccount(c, account)
      PROVE  CameraSets'
  BY <1>8 DEF SaveAccount, onvif
<1>9. ASSUME NEW c \in Cameras, Rebuild(c) PROVE CameraSets'
  BY <1>9 DEF Rebuild, dropOnvif, host
<1>10. CASE UNCHANGED vars
  BY <1>10 DEF vars, host, onvif
<1> QED
  BY <1>1, <1>2, <1>3, <1>4, <1>6, <1>7, <1>8, <1>9, <1>10 DEF Next

(* TypeCorrect: clients are kept by address, coverage by camera and setups *)
(* by address (events.js, onvifClients, onvifCovered, openOnvif).          *)
THEOREM TypeCorrect == Spec => []TypeOK
<1>1. Init => ScheduleTypes /\ CameraSets
  <2> SUFFICES ASSUME Init PROVE ScheduleTypes /\ CameraSets
    OBVIOUS
  <2>1. ScheduleTypes
    BY DEF Init, ScheduleTypes
  <2>2. CameraSets
    BY DEF Init, CameraSets
  <2> QED
    BY <2>1, <2>2
<1>2. IInv /\ ScheduleTypes /\ CameraSets /\ [Next]_vars
        => ScheduleTypes' /\ CameraSets'
  BY ScheduleTypesKept, CameraSetsKept
<1>3. IInv /\ ScheduleTypes /\ CameraSets => TypeOK
  BY DEF IInv, Shapes, ScheduleTypes, CameraSets, TypeOK
<1> QED
  BY <1>1, <1>2, <1>3, IInvInductive, PTL DEF Spec

---------------------------------------------------------------------------
(* Coverage.  Two cameras are given one address by a move only, which      *)
(* marks both; a client, or a setup of the running watcher, belongs to a   *)
(* camera whose address has not changed since, or that a move has marked;  *)
(* and whoever else is at the address of such a setup is marked.           *)
AddressesApart ==
  \A c, d \in Cameras :
    c # d /\ known[c] = known[d] /\ known[c] # None => c \in displaced

SetupsPlaced ==
  \A a \in Addrs : setups[a] # None /\ setups[a].gen = generation =>
    /\ setups[a].cam \notin displaced => known[setups[a].cam] = a
    /\ \A d \in Cameras :
         known[d] = a /\ d # setups[a].cam => d \in displaced

ClientsPlaced ==
  \A a \in Addrs : clients[a] # None /\ clients[a].cam \notin displaced =>
    known[clients[a].cam] = a

CoverageInv ==
  AddressesApart /\ SetupsPlaced /\ ClientsPlaced /\ CoveredIsWatched

(* A setup that is claimed now is where its camera is.                     *)
LEMMA SetUpAllPlaced ==
  ASSUME IInv, CoverageInv, NEW candidates \in SUBSET Cameras,
         SetUpAll(candidates),
         UNCHANGED <<known, generation, displaced>>
  PROVE  SetupsPlaced'
<1> DEFINE ready == {c \in candidates : MaySetUp(c, clients)}
<1>1. PICK first \in [{known[c] : c \in ready} -> ready] :
        /\ \A a \in DOMAIN first : known[first[a]] = a
        /\ setups' = [a \in Addrs |-> IF a \in DOMAIN first
                                        THEN SetupOf(first[a])
                                        ELSE setups[a]]
  BY DEF SetUpAll
<1> SUFFICES ASSUME NEW a \in Addrs, setups'[a] # None,
                    setups'[a].gen = generation
             PROVE  /\ setups'[a].cam \notin displaced
                         => known[setups'[a].cam] = a
                    /\ \A d \in Cameras :
                         known[d] = a /\ d # setups'[a].cam => d \in displaced
  BY DEF SetupsPlaced
<1>2. CASE a \in DOMAIN first
  <2>1. first[a] \in Cameras /\ known[first[a]] = a
    BY <1>1, <1>2
  <2>2. setups'[a].cam = first[a]
    BY <1>1, <1>2 DEF SetupOf
  <2>3. a # None
    BY SubscriptionsAssumption
  <2> QED
    BY <2>1, <2>2, <2>3 DEF CoverageInv, AddressesApart
<1>3. CASE a \notin DOMAIN first
  <2>1. setups'[a] = setups[a]
    BY <1>1, <1>3
  <2> QED
    BY <2>1 DEF CoverageInv, SetupsPlaced
<1> QED
  BY <1>2, <1>3

(* A start or a stop empties the watcher, and outdates every setup.        *)
LEMMA StopClientsCovers ==
  ASSUME IInv, CoverageInv, StopClients, UNCHANGED <<known, setups>>
  PROVE  CoverageInv'
<1>1. AddressesApart'
  BY DEF StopClients, CoverageInv, AddressesApart
<1>2. SetupsPlaced'
  <2> SUFFICES ASSUME NEW a \in Addrs, setups[a] # None
               PROVE  setups[a].gen # generation'
    BY DEF SetupsPlaced
  <2>1. setups[a].gen \in Nat /\ setups[a].gen <= generation /\ generation \in Nat
    BY DEF IInv, Shapes, SetupsFit, Setup
  <2> QED
    BY <2>1 DEF StopClients
<1>3. ClientsPlaced' /\ CoveredIsWatched'
  BY DEF StopClients, ClientsPlaced, CoveredIsWatched
<1> QED
  BY <1>1, <1>2, <1>3 DEF CoverageInv

(* A change of address marks the camera, and whom it finds there.          *)
LEMMA MovesCovers ==
  ASSUME IInv, CoverageInv, CameraSets,
         NEW c \in Cameras, NEW a \in Addrs \cup {None}, Moves(c, a),
         UNCHANGED <<generation, setups, clients, covered>>,
         rebuilding \subseteq rebuilding'
  PROVE  CoverageInv'
<1>1. /\ known' = [known EXCEPT ![c] = a]
      /\ displaced' = displaced \cup {c} \cup {d \in Cameras : known[d] = a}
      /\ known \in [Cameras -> Addrs \cup {None}]
  BY DEF Moves, IInv, Shapes
<1>2. c \in displaced' /\ displaced \subseteq displaced'
  BY <1>1
<1>3. \A d \in Cameras : d \notin displaced' => known'[d] = known[d]
  BY <1>1, <1>2
<1>4. AddressesApart'
  BY <1>1 DEF CoverageInv, AddressesApart
<1>5. SetupsPlaced'
  <2> SUFFICES ASSUME NEW b \in Addrs, setups[b] # None,
                      setups[b].gen = generation
               PROVE  /\ setups[b].cam \notin displaced'
                           => known'[setups[b].cam] = b
                      /\ \A d \in Cameras :
                           known'[d] = b /\ d # setups[b].cam
                             => d \in displaced'
    BY DEF SetupsPlaced
  <2>1. setups[b].cam \in Cameras
    BY DEF IInv, Shapes, Setup
  <2>2. setups[b].cam \notin displaced => known[setups[b].cam] = b
    BY DEF CoverageInv, SetupsPlaced
  <2>3. \A d \in Cameras :
          known[d] = b /\ d # setups[b].cam => d \in displaced
    BY DEF CoverageInv, SetupsPlaced
  <2> QED
    BY <1>2, <1>3, <2>1, <2>2, <2>3
<1>6. ClientsPlaced'
  <2> SUFFICES ASSUME NEW b \in Addrs, clients[b] # None,
                      clients[b].cam \notin displaced'
               PROVE  known'[clients[b].cam] = b
    BY DEF ClientsPlaced
  <2>1. clients[b].cam \in Cameras
    BY DEF IInv, Shapes, Client
  <2> QED
    BY <1>2, <1>3, <2>1 DEF CoverageInv, ClientsPlaced
<1>7. CoveredIsWatched'
  BY <1>2, <1>3 DEF CoverageInv, CoveredIsWatched, CameraSets
<1> QED
  BY <1>4, <1>5, <1>6, <1>7 DEF CoverageInv

(* A subscription that opens replaces that of nobody the watcher counts on.*)
LEMMA InstalledCovers ==
  ASSUME IInv, CoverageInv, CameraSets, NEW a \in Addrs, Installed(a)
  PROVE  CoverageInv'
<1>1. /\ UNCHANGED <<known, generation, displaced, rebuilding>>
      /\ setups' = [setups EXCEPT ![a] = None]
  BY DEF Installed, host, watcher
<1>2. AddressesApart'
  BY <1>1 DEF CoverageInv, AddressesApart
<1>3. SetupsPlaced'
  BY <1>1 DEF CoverageInv, SetupsPlaced, IInv, Shapes
<1>4. CASE setups[a].gen = generation
  <2> DEFINE c == setups[a].cam
  <2>1. c \in Cameras /\ setups[a] # None
    BY DEF Installed, IInv, Shapes, Setup
  <2>2. /\ clients' = [clients EXCEPT ![a] =
                         [cam |-> c, account |-> setups[a].account]]
        /\ covered' = covered \cup {c}
    BY <1>4 DEF Installed
  <2>3. /\ clients'[a] # None /\ clients'[a].cam = c
        /\ \A b \in Addrs \ {a} : clients'[b] = clients[b]
    <3>1. [cam |-> c, account |-> setups[a].account] \in Client
      BY <2>1 DEF IInv, Shapes, Setup, Client
    <3> QED
      BY <2>2, <3>1, NoneIsNoRecord DEF IInv, Shapes
  <2>4. c \notin displaced => known[c] = a
    BY <1>4, <2>1 DEF CoverageInv, SetupsPlaced
  <2>5. \A d \in Cameras : known[d] = a /\ d # c => d \in displaced
    BY <1>4, <2>1 DEF CoverageInv, SetupsPlaced
  <2>6. ClientsPlaced'
    BY <1>1, <2>3, <2>4 DEF CoverageInv, ClientsPlaced
  <2>7. ASSUME NEW d \in covered' \ displaced'
        PROVE  \/ d \in rebuilding'
               \/ /\ known'[d] # None
                  /\ clients'[known'[d]] # None
                  /\ clients'[known'[d]].cam = d
    <3>1. d \in Cameras /\ d \notin displaced
      BY <1>1, <2>1, <2>2, <2>7 DEF CameraSets
    <3>2. CASE d = c
      BY <1>1, <2>3, <2>4, <3>1, <3>2, SubscriptionsAssumption
    <3>3. CASE d # c
      <4>1. known[d] # a /\ d \in covered
        BY <2>2, <2>5, <2>7, <3>1, <3>3
      <4>2. \/ d \in rebuilding
            \/ /\ known[d] # None
               /\ clients[known[d]] # None
               /\ clients[known[d]].cam = d
        BY <3>1, <4>1 DEF CoverageInv, CoveredIsWatched
      <4>3. known[d] # None => known[d] \in Addrs
        BY <3>1 DEF IInv, Shapes
      <4> QED
        BY <1>1, <2>3, <4>1, <4>2, <4>3
    <3> QED
      BY <3>2, <3>3
  <2>8. \A b \in Addrs :
          clients'[b] # None => clients'[b].cam \in covered' \cup displaced'
    BY <1>1, <2>2, <2>3 DEF CoverageInv, CoveredIsWatched
  <2> QED
    BY <1>2, <1>3, <2>6, <2>7, <2>8 DEF CoverageInv, CoveredIsWatched
<1>5. CASE setups[a].gen # generation
  <2>1. UNCHANGED <<clients, covered>>
    BY <1>5 DEF Installed
  <2> QED
    BY <1>1, <1>2, <1>3, <2>1
       DEF CoverageInv, ClientsPlaced, CoveredIsWatched
<1> QED
  BY <1>4, <1>5

(* An action that rebuilds drops the client of its camera alone, but for   *)
(* the cameras a move has put at the same address.                         *)
LEMMA RebuildCovers ==
  ASSUME IInv, CoverageInv, CameraSets, NEW c \in Cameras, Rebuild(c)
  PROVE  CoverageInv'
<1>1. /\ UNCHANGED <<known, generation, displaced>>
      /\ rebuilding' = rebuilding \ {c}
      /\ clients' = [a \in Addrs |-> IF a = known[c] THEN None ELSE clients[a]]
      /\ covered' = covered \ {c}
  BY DEF Rebuild, dropOnvif, host, watcher
<1>2. AddressesApart'
  BY <1>1 DEF CoverageInv, AddressesApart
<1>3. SetupsPlaced'
  <2>1. CASE MaySetUp(c, clients')
    <3>1. setups' = [setups EXCEPT ![known[c]] = SetupOf(c)]
      BY <2>1 DEF Rebuild
    <3>2. known[c] \in Addrs /\ known[c] # None
      BY <2>1, NewSetup DEF MaySetUp, IInv
    <3>3. SetupOf(c).cam = c
      BY DEF SetupOf
    <3> QED
      BY <1>1, <3>1, <3>2, <3>3
         DEF CoverageInv, SetupsPlaced, AddressesApart, IInv, Shapes
  <2>2. CASE ~MaySetUp(c, clients')
    BY <1>1, <2>2 DEF Rebuild, CoverageInv, SetupsPlaced
  <2> QED
    BY <2>1, <2>2
<1>4. ClientsPlaced'
  BY <1>1 DEF CoverageInv, ClientsPlaced
<1>5. ASSUME NEW d \in covered' \ displaced'
      PROVE  \/ d \in rebuilding'
             \/ /\ known'[d] # None
                /\ clients'[known'[d]] # None
                /\ clients'[known'[d]].cam = d
  <2>1. d \in Cameras /\ d # c /\ d \in covered \ displaced
    BY <1>1, <1>5 DEF CameraSets
  <2>2. known[d] # None => known[d] \in Addrs /\ known[d] # known[c]
    BY <2>1 DEF CoverageInv, AddressesApart, IInv, Shapes
  <2> QED
    BY <1>1, <2>1, <2>2 DEF CoverageInv, CoveredIsWatched
<1>6. ASSUME NEW a \in Addrs, clients'[a] # None
      PROVE  clients'[a].cam \in covered' \cup displaced'
  <2>1. clients'[a] = clients[a] /\ a # known[c]
    BY <1>1, <1>6
  <2> QED
    BY <1>1, <1>6, <2>1
       DEF CoverageInv, CoveredIsWatched, ClientsPlaced
<1> QED
  BY <1>2, <1>3, <1>4, <1>5, <1>6 DEF CoverageInv, CoveredIsWatched

LEMMA CoverageInductive ==
  /\ Init => CoverageInv
  /\ IInv /\ CameraSets /\ CoverageInv /\ [Next]_vars => CoverageInv'
<1>1. Init => CoverageInv
  BY DEF Init, CoverageInv, AddressesApart, SetupsPlaced, ClientsPlaced,
         CoveredIsWatched
<1>2. IInv /\ CameraSets /\ CoverageInv /\ [Next]_vars => CoverageInv'
  <2> SUFFICES ASSUME IInv, CameraSets, CoverageInv, [Next]_vars
               PROVE  CoverageInv'
    OBVIOUS
  <2>1. CASE Start \/ Stop
    BY <2>1, StopClientsCovers DEF Start, Stop, host
  <2>2. CASE Listed \/ Retry
    <3>1. /\ UNCHANGED <<known, generation, displaced, clients, covered,
                         rebuilding>>
          /\ \E candidates \in SUBSET Cameras : SetUpAll(candidates)
      BY <2>2 DEF Listed, Retry, host, watcher
    <3>2. SetupsPlaced'
      BY <3>1, SetUpAllPlaced
    <3> QED
      BY <3>1, <3>2
         DEF CoverageInv, AddressesApart, ClientsPlaced, CoveredIsWatched
  <2>3. CASE ListFailed \/ Tick \/ TickEnds \/ UNCHANGED vars
    <3>1. UNCHANGED <<known, generation, displaced, rebuilding, onvif>>
      BY <2>3 DEF ListFailed, Tick, TickEnds, vars, host, watcher
    <3> QED
      BY <3>1 DEF CoverageInv, AddressesApart, SetupsPlaced, ClientsPlaced,
                  CoveredIsWatched, onvif
  <2>4. ASSUME NEW a \in Addrs, Installed(a) PROVE CoverageInv'
    BY <2>4, InstalledCovers
  <2>5. ASSUME NEW a \in Addrs, SetupFails(a) PROVE CoverageInv'
    BY <2>5 DEF SetupFails, CoverageInv, AddressesApart, SetupsPlaced,
                ClientsPlaced, CoveredIsWatched, host, watcher, IInv, Shapes
  <2>6. ASSUME NEW c \in Cameras, NEW account \in Account,
               SaveAccount(c, account)
        PROVE  CoverageInv'
    BY <2>6 DEF SaveAccount, CoverageInv, AddressesApart, SetupsPlaced,
                ClientsPlaced, CoveredIsWatched, watcher, onvif
  <2>7. ASSUME NEW c \in Cameras, NEW a \in Addrs, SetAddress(c, a)
        PROVE  CoverageInv'
    BY <2>7, MovesCovers DEF SetAddress, watcher, onvif
  <2>8. ASSUME NEW c \in Cameras, Rebuild(c) PROVE CoverageInv'
    BY <2>8, RebuildCovers
  <2>9. ASSUME NEW c \in Cameras, NEW a \in Addrs \cup {None},
               FoundElsewhere(c, a)
        PROVE  CoverageInv'
    BY <2>9, MovesCovers DEF FoundElsewhere, watcher, onvif
  <2> QED
    BY <2>1, <2>2, <2>3, <2>4, <2>5, <2>6, <2>7, <2>8, <2>9 DEF Next
<1> QED
  BY <1>1, <1>2

(* CoveredIsWatched: coverage and clients agree both ways, for any number  *)
(* of cameras and addresses, whatever setups, restarts and moves overlap.  *)
THEOREM CoveredIsWatchedHolds == Spec => []CoveredIsWatched
<1>1. Spec => []CameraSets
  <2>1. TypeOK => CameraSets
    BY DEF TypeOK, CameraSets
  <2> QED
    BY <2>1, TypeCorrect, PTL
<1>2. Spec => []IInv
  BY IInvInductive, PTL DEF Spec
<1>3. CoverageInv => CoveredIsWatched
  BY DEF CoverageInv
<1> QED
  BY <1>1, <1>2, <1>3, CoverageInductive, PTL DEF Spec
=============================================================================
