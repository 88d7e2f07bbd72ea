------------------------------ MODULE MCRequests ------------------------------
(***************************************************************************)
(* What Gladys asks of the integration, for TLC: move a camera (Ptz), take *)
(* an image (StreamCapture) from the stream of a camera (StreamParser),    *)
(* list the devices of the account (CloudAccount), say what a camera is    *)
(* (Discovery) and save an address or an account (EntryStore).  What       *)
(* serves these keeps no state in common, so that a behaviour serves one   *)
(* kind of request, chosen at first, and its states add up instead of      *)
(* multiplying.                                                            *)
(***************************************************************************)
EXTENDS Naturals

CONSTANTS
  Commands, Clients, MaxOutages, MaxSaves,   \* Ptz
  Frame, Window, MaxParts, Steps,            \* StreamCapture
  Packets, Lookalikes, PartSizes, OtherSizes, MaxSends, MaxBuffer,
  MaxChunk,                                  \* StreamParser
  MaxEdits, Refused, MaxRevoked,             \* CloudAccount
  Lan, Typed, ServesOnvif, HasMask, MaxRestarts,   \* Discovery
  Devices, Values, Calls, MaxEntrySaves, MaxForms, MaxFailures, \* EntryStore
  None

VARIABLES
  serving,   \* the kind of request
  cached, client, stage, kind, uses, ptzPhase, motorized, up, outages,
  saves,
  mode, sock, phase, opening, seq, acked, fed, ended, ffmpeg, output, shot,
  main, step, result,
  foreign, skew, wire, parts, received, handled, buffer, progressed, tsBuffer,
  emitted, alive,
  stored, token, fresh, cloudPass, cloudQueued, config, sent,
  overlapped, revoked,
  camera, manual, created, published, cache, masks, refused, pass, queued,
  scan, found, listed, known, built, restarts,
  store, form, memory, call, updating, building, ptz, entered, raced,
  spoiled, entrySaves, forms, entryFailures

movement == <<cached, client, stage, kind, uses, ptzPhase, motorized,
              up, outages, saves>>
image == <<mode, sock, phase, opening, seq, acked, fed, ended, ffmpeg, output,
           shot, main, step, result>>
video == <<foreign, skew, wire, parts, received, handled, buffer, progressed,
           tsBuffer, emitted, alive>>
account == <<stored, token, fresh, cloudPass, cloudQueued, config, sent,
             overlapped, revoked>>
listing == <<camera, manual, created, published, cache, masks, refused, pass,
             queued, scan, found, listed, known, built, restarts>>
saving == <<store, form, memory, call, updating, building, ptz, entered,
            raced, spoiled, entrySaves, forms, entryFailures>>
vars == <<serving, movement, image, video, account, listing, saving>>

P == INSTANCE Ptz WITH phase <- ptzPhase
S == INSTANCE StreamCapture
V == INSTANCE StreamParser
C == INSTANCE CloudAccount WITH pass <- cloudPass, queued <- cloudQueued
D == INSTANCE Discovery
E == INSTANCE EntryStore

ASSUME RequestsAssumption ==
  /\ P!PtzAssumption
  /\ S!CaptureAssumption
  /\ V!ParserAssumption
  /\ C!CloudAssumption
  /\ D!DiscoveryAssumption
  /\ E!EntryAssumption

Kinds == {"ptz", "image", "video", "account", "camera", "entry"}

Init ==
  /\ serving \in Kinds
  /\ P!Init /\ S!Init /\ V!Init /\ C!Init /\ D!Init /\ E!Init
  /\ serving = "ptz" \/ ~motorized
  /\ serving = "image" \/ mode = "rtsp"
  /\ serving = "video" \/ (~foreign /\ skew = 0)

Moves(A) ==
  serving = "ptz" /\ A
  /\ UNCHANGED <<serving, image, video, account, listing, saving>>
Captures(A) ==
  serving = "image" /\ A
  /\ UNCHANGED <<serving, movement, video, account, listing, saving>>
Parses(A) ==
  serving = "video" /\ A
  /\ UNCHANGED <<serving, movement, image, account, listing, saving>>
Lists(A) ==
  serving = "account" /\ A
  /\ UNCHANGED <<serving, movement, image, video, listing, saving>>
Publishes(A) ==
  serving = "camera" /\ A
  /\ UNCHANGED <<serving, movement, image, video, account, saving>>
Saves(A) ==
  serving = "entry" /\ A
  /\ UNCHANGED <<serving, movement, image, video, account, listing>>

Next ==
  \/ Moves(P!Next) \/ Captures(S!Next) \/ Parses(V!Next) \/ Lists(C!Next)
  \/ Publishes(D!Next) \/ Saves(E!Next)

Spec == Init /\ [][Next]_vars

(* The fairness of the movements and of the captures.                      *)
FairSpec ==
  /\ Spec
  /\ \A c \in Commands : WF_vars(Moves(P!CommandSteps(c)))
  /\ \A k \in Clients : WF_vars(Moves(P!DiscoverySteps(k)))
  /\ WF_vars(Moves(P!ComesBack))
  /\ WF_vars(Captures(S!SocketClosed)) /\ WF_vars(Captures(S!StartTimesOut))
  /\ WF_vars(Captures(S!KillTimer)) /\ WF_vars(Captures(S!Dies))
  /\ WF_vars(Captures(S!Continues))

---------------------------------------------------------------------------
(* The properties of the six modules, under the names they have there.     *)

(* TypeOK: the types and the shape of the state of each component.         *)
TypeOK ==
  P!TypeOK /\ S!TypeOK /\ V!TypeOK /\ C!TypeOK /\ D!TypeOK /\ E!TypeOK

(* Recovers: an outage leaves no PTZ client unable to move the camera.     *)
Recovers == serving = "ptz" => P!Recovers

(* DiscoveryMemoized: movements share the discovery of their client, which *)
(* is kept whole or not at all (ptz.js, discover and runDiscovery).        *)
DiscoveryMemoized == P!DiscoveryMemoized

(* CleansUp: every capture ends, whatever the camera and ffmpeg do, and    *)
(* leaves neither a socket nor a process behind.                           *)
CleansUp == serving = "image" => S!CleansUp

(* StreamReassembled: wherever the network cuts the stream of a camera,    *)
(* ffmpeg is given every whole packet of it, once and in order, unless it  *)
(* starts within a packet whose rest looks like a sync byte                *)
(* (mediaSession.js, handleStreamChunk and forwardTsPackets).              *)
StreamReassembled == V!StreamReassembled

(* AccountListed: a publication lists the devices of the account it read   *)
(* (app.js, onConfigUpdated drops the token).                              *)
AccountListed == C!AccountListed

(* NoGhost: an address the user typed and removed does not survive as an   *)
(* automatic one (devices.js, resolveAddress).                             *)
NoGhost == D!NoGhost

(* OutageKeeps: what could not be asked is not taken away, be it a probe   *)
(* (devices.js:671, null "is NOT a no"), a scan that finds nothing, or a   *)
(* lens mask the camera once answered for (knownPrivacyCameras).           *)
OutageKeeps == D!OutageKeeps

(* EntriesKept: an entry saved is there, whatever was saved since, unless  *)
(* two actions held a reading of its store at once (app.js,                *)
(* writeStoreEntry).                                                       *)
EntriesKept == E!EntriesKept

(* SavedAccountUsed: a movement uses the account saved for its camera, but *)
(* for the races and the failures the module names (app.js, getPtzClient). *)
SavedAccountUsed == E!SavedAccountUsed
===============================================================================
