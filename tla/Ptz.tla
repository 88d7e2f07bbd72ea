---------------------------------- MODULE Ptz ----------------------------------
(***************************************************************************)
(* The movements of one camera (src/tapo/ptz.js), from the command Gladys  *)
(* sends (src/app.js, onSetValue) to the call the camera answers.  Every   *)
(* command takes the cached PTZ client, or builds one after reading the    *)
(* device list; a client discovers the services of its camera once, before *)
(* its first movement.  Commands run side by side: several may build a     *)
(* client, share one discovery, or find it half done.                      *)
(*                                                                         *)
(* Saving the configuration forgets the cached client; commands under way  *)
(* keep theirs.                                                            *)
(***************************************************************************)
EXTENDS Naturals

CONSTANTS
  Commands,    \* commands that may be under way at once
  Clients,     \* clients that may be in use at once, cached or not
  None,
  MaxOutages,  \* bound on the outages of the camera
  MaxSaves     \* bound on the configurations saved

PtzAssumption ==
  /\ None \notin Clients
  /\ {MaxOutages, MaxSaves} \subseteq Nat

VARIABLES
  cached,   \* the client of the camera in ptzClients
  client,   \* what each client knows: service, profile, discovered
  stage,    \* what its discovery in flight asks
  kind,     \* what each command is
  uses,     \* the client it took
  phase,    \* what it awaits
  motorized,  \* the camera has a PTZ service
  up,         \* it answers what it is asked
  outages, saves

clients == <<cached, client, stage>>
commands == <<kind, uses, phase>>
camera == <<motorized, up>>
bounds == <<outages, saves>>
vars == <<clients, commands, camera, bounds>>

Kinds == {"step", "preset", "stop", "unknown"}

TypeOK ==
  /\ cached \in Clients \cup {None}
  /\ client \in [Clients -> [service : BOOLEAN, profile : BOOLEAN,
                             discovered : BOOLEAN]]
  /\ stage \in [Clients -> {"none", "capabilities", "profiles"}]
  /\ kind \in [Commands -> Kinds]
  /\ uses \in [Commands -> Clients \cup {None}]
  /\ phase \in [Commands -> {"idle", "lookup", "discovering", "sent", "done",
                             "failed"}]
  /\ \A c \in Commands :
       phase[c] = "discovering" => stage[uses[c]] # "none"
  /\ \A k \in Clients : stage[k] # "none" => ~client[k].discovered
  /\ {motorized, up} \subseteq BOOLEAN
  /\ outages \in 0..MaxOutages /\ saves \in 0..MaxSaves

(* What a client knows before its discovery, and after it.                 *)
Blank == [service |-> FALSE, profile |-> FALSE, discovered |-> FALSE]
Immovable == [Blank EXCEPT !.discovered = TRUE]
Movable == [service |-> TRUE, profile |-> TRUE, discovered |-> TRUE]

Init ==
  /\ cached = None
  /\ client = [k \in Clients |-> Blank]
  /\ stage = [k \in Clients |-> "none"]
  /\ kind = [c \in Commands |-> "step"]
  /\ uses = [c \in Commands |-> None]
  /\ phase = [c \in Commands |-> "idle"]
  /\ motorized \in BOOLEAN /\ up = TRUE
  /\ outages = 0 /\ saves = 0

---------------------------------------------------------------------------
(* A command.                                                              *)

Awaits(c, k) == phase[c] = "discovering" /\ uses[c] = k

(* A movement and a preset need a discovered client; the one that finds no *)
(* discovery in flight starts it.                                          *)
Discovers(c, k) ==
  IF client[k].discovered
  THEN /\ phase' = [phase EXCEPT ![c] = IF client[k].service THEN "sent"
                                        ELSE "failed"]
       /\ UNCHANGED stage
  ELSE /\ phase' = [phase EXCEPT ![c] = "discovering"]
       /\ stage' = [stage EXCEPT ![k] = IF @ = "none" THEN "capabilities" ELSE @]

(* A stop is sent by a client that knows its service, and dropped by one   *)
(* that does not.                                                          *)
Stops(c, k) ==
  /\ phase' = [phase EXCEPT ![c] = IF client[k].service THEN "sent" ELSE "done"]
  /\ UNCHANGED stage

(* A preset without token and a movement without vector go nowhere.        *)
With(c, what, k) ==
  CASE what \in {"step", "preset"} -> Discovers(c, k)
    [] what = "stop" -> Stops(c, k)
    [] what = "unknown" -> phase' = [phase EXCEPT ![c] = "failed"]
                           /\ UNCHANGED stage

(* onSetValue, when the client is cached, and when the device list has to  *)
(* be read first.                                                          *)
Commanded(c, what) ==
  /\ phase[c] = "idle"
  /\ kind' = [kind EXCEPT ![c] = what]
  /\ uses' = [uses EXCEPT ![c] = cached]
  /\ IF cached # None
     THEN With(c, what, cached)
     ELSE phase' = [phase EXCEPT ![c] = "lookup"] /\ UNCHANGED stage
  /\ UNCHANGED <<cached, client, camera, bounds>>

Unused(k) ==
  /\ k # cached
  /\ \A c \in Commands : uses[c] # k

(* The list was read, or could not be: a client is built, whoever else     *)
(* built one meanwhile.                                                    *)
getPtzClient(c, k) ==
  /\ phase[c] = "lookup"
  /\ Unused(k)
  /\ cached' = k
  /\ uses' = [uses EXCEPT ![c] = k]
  /\ With(c, kind[c], k)
  /\ UNCHANGED <<client, kind, camera, bounds>>

Answered(c) ==
  /\ phase[c] = "sent" /\ up
  /\ phase' = [phase EXCEPT ![c] = "done"]
  /\ UNCHANGED <<clients, kind, uses, camera, bounds>>

NotAnswered(c) ==
  /\ phase[c] = "sent" /\ ~up
  /\ phase' = [phase EXCEPT ![c] = "failed"]
  /\ UNCHANGED <<clients, kind, uses, camera, bounds>>

(* Another command may come; a client nobody uses is no more.              *)
Over(c) ==
  LET k == uses[c]
      last == k # cached /\ \A d \in Commands \ {c} : uses[d] # k
  IN
  /\ phase[c] \in {"done", "failed"}
  /\ phase' = [phase EXCEPT ![c] = "idle"]
  /\ kind' = [kind EXCEPT ![c] = "step"]
  /\ uses' = [uses EXCEPT ![c] = None]
  /\ IF last
     THEN client' = [client EXCEPT ![k] = Blank]
     ELSE UNCHANGED client
  /\ UNCHANGED <<cached, stage, camera, bounds>>

---------------------------------------------------------------------------
(* The discovery of a client.                                              *)

Learns(k, what) ==
  /\ client' = [client EXCEPT ![k] = what]
  /\ stage' = [stage EXCEPT ![k] = "none"]
  /\ phase' = [c \in Commands |->
                 IF ~Awaits(c, k) THEN phase[c]
                 ELSE IF what.service THEN "sent" ELSE "failed"]
  /\ UNCHANGED <<cached, kind, uses, camera, bounds>>

(* No PTZ service: a fixed camera, which is as final an answer.            *)
Fixed(k) ==
  /\ stage[k] = "capabilities" /\ up /\ ~motorized
  /\ Learns(k, Immovable)

HasServiceCommits(k) ==
  /\ stage[k] = "capabilities" /\ up /\ motorized
  /\ stage' = [stage EXCEPT ![k] = "profiles"]
  /\ client' = [client EXCEPT ![k].service = TRUE]
  /\ UNCHANGED <<cached, commands, camera, bounds>>

HasService(k) ==
  /\ stage[k] = "capabilities" /\ up /\ motorized
  /\ stage' = [stage EXCEPT ![k] = "profiles"]
  /\ UNCHANGED <<cached, client, commands, camera, bounds>>

(* Everything is committed at the end, in one go.                          *)
HasProfile(k) ==
  /\ stage[k] = "profiles" /\ up
  /\ Learns(k, Movable)

DiscoveryFailsForGood(k) ==
  /\ stage[k] # "none" /\ ~up
  /\ phase' = [c \in Commands |-> IF Awaits(c, k) THEN "failed" ELSE phase[c]]
  /\ stage' = [stage EXCEPT ![k] = "none"]
  /\ client' = [client EXCEPT ![k].discovered = TRUE]
  /\ UNCHANGED <<cached, kind, uses, camera, bounds>>

(* Not answered, refused or without profile: all that await it fail, and   *)
(* the next command asks again.                                            *)
DiscoveryFails(k) ==
  /\ stage[k] # "none" /\ ~up
  /\ stage' = [stage EXCEPT ![k] = "none"]
  /\ phase' = [c \in Commands |-> IF Awaits(c, k) THEN "failed" ELSE phase[c]]
  /\ UNCHANGED <<cached, client, kind, uses, camera, bounds>>

---------------------------------------------------------------------------
(* onConfigUpdated and the camera.                                         *)

(* The cached client is forgotten; a client nobody uses is no more.        *)
ConfigSaved ==
  /\ saves < MaxSaves
  /\ saves' = saves + 1
  /\ cached' = None
  /\ IF cached # None /\ \A c \in Commands : uses[c] # cached
     THEN client' = [client EXCEPT ![cached] = Blank]
     ELSE UNCHANGED client
  /\ UNCHANGED <<stage, commands, camera, outages>>

GoesAway ==
  /\ up /\ outages < MaxOutages
  /\ up' = FALSE
  /\ outages' = outages + 1
  /\ UNCHANGED <<clients, commands, motorized, saves>>

ComesBack ==
  /\ ~up
  /\ up' = TRUE
  /\ UNCHANGED <<clients, commands, motorized, bounds>>

CommandSteps(c) ==
  \/ \E k \in Clients : getPtzClient(c, k)
  \/ Answered(c) \/ NotAnswered(c) \/ Over(c)

DiscoverySteps(k) ==
  Fixed(k) \/ HasService(k) \/ HasProfile(k) \/ DiscoveryFails(k)

Next ==
  \/ \E c \in Commands, what \in Kinds : Commanded(c, what)
  \/ \E c \in Commands : CommandSteps(c)
  \/ \E k \in Clients : DiscoverySteps(k)
  \/ ConfigSaved \/ GoesAway \/ ComesBack

Spec == Init /\ [][Next]_vars

(* Every call is answered or times out, and outages end; no command has to *)
(* come.                                                                   *)
FairSpec ==
  /\ Spec
  /\ \A c \in Commands : WF_vars(CommandSteps(c))
  /\ \A k \in Clients : WF_vars(DiscoverySteps(k))
  /\ WF_vars(ComesBack)

---------------------------------------------------------------------------
(* Properties.                                                             *)

(* DiscoveryMemoized: the discovery of a client is shared and kept whole.  *)
(* A movement or a preset goes out only from a client that knows both the  *)
(* service and the profile of its camera; those that came during the       *)
(* discovery are told at its end, all the same thing; and a discovery that *)
(* failed is not kept, not even in part (ptz.js, runDiscovery: "Committed  *)
(* together, only now that every piece is known").                         *)
KnownOf(k) ==
  IF client[k] = Blank THEN "unknown"
  ELSE IF client[k] = Immovable THEN "unable"
  ELSE IF client[k] = Movable THEN "able"
  ELSE "half known"

Memo == INSTANCE MemoizedWork WITH
  Things  <- Clients,
  Callers <- Commands,
  answer  <- [k \in Clients |-> KnownOf(k)],
  waiting <- [k \in Clients |-> {c \in Commands : Awaits(c, k)}],
  acting  <- [k \in Clients |->
               {c \in Commands : phase[c] = "sent" /\ uses[c] = k}]

DiscoveryMemoized == Memo!Spec

(* An outage leaves no client unable to move the camera: once the camera   *)
(* stays there, known movements stop failing.                              *)
Recovers ==
  motorized =>
    <>[](\A c \in Commands : phase[c] = "failed" => kind[c] = "unknown")
===============================================================================
