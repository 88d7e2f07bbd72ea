------------------------------- MODULE Discovery -------------------------------
(***************************************************************************)
(* What a publication says of one camera: the address the network scan     *)
(* found (src/tapo/discovery.js) or another source gave, and the features  *)
(* its probes answered for (src/devices.js).  A publication lists the      *)
(* cloud, scans and reads the devices of Gladys side by side, probes the   *)
(* camera at the address it resolved, and publishes; publications run one  *)
(* at a time, with at most one waiting (src/app.js, publishDevices).       *)
(*                                                                         *)
(* The user creates or updates the camera in Gladys from the last          *)
(* publication, whenever it suits.  Scans and probes fail on their own,    *)
(* the camera goes away and moves, and a restart loses what is kept in     *)
(* memory: the last scan, the lens masks, the refused logins.              *)
(***************************************************************************)
EXTENDS Naturals

CONSTANTS
  Lan,           \* addresses the camera may have
  Typed,         \* addresses the user may type
  None,          \* no address; no scan
  ServesOnvif,   \* the camera has an ONVIF port
  HasMask,       \* it has a lens mask
  MaxRestarts    \* bound on the restarts of the process

DiscoveryAssumption ==
  /\ None \notin Lan \cup Typed
  /\ {ServesOnvif, HasMask} \subseteq BOOLEAN
  /\ MaxRestarts \in Nat

VARIABLES
  camera,     \* its address, and whether it answers
  manual,     \* the address the user typed
  created,    \* the device Gladys holds
  published,  \* the device last published
  cache,      \* scanCache: results, fresh
  masks,      \* knownPrivacyCameras holds the camera
  refused,    \* authRefused
  pass,       \* what the publication in flight is doing
  queued,     \* another one waits for it
  scan,       \* its scan: none, running or done
  found,      \* what the scan gave
  listed,     \* whether the devices of Gladys were read
  known,      \* what they said of the camera
  built,      \* the device being built
  restarts

home == <<created, manual>>
memory == <<cache, masks, refused>>
gathering == <<scan, found, listed, known>>
vars == <<camera, home, published, memory, pass, queued, gathering, built,
          restarts>>

Addresses == Lan \cup Typed \cup {None}

Device == [ip : Addresses, typed : BOOLEAN, events : BOOLEAN,
           mask : BOOLEAN]

(* No device, and a device without address nor feature: they say the same. *)
Blank == [ip |-> None, typed |-> FALSE, events |-> FALSE, mask |-> FALSE]

Never == [results |-> {}, fresh |-> FALSE]

TypeOK ==
  /\ camera \in [ip : Lan, up : BOOLEAN]
  /\ manual \in Typed \cup {None}
  /\ {created, published, known, built} \subseteq Device
  /\ cache.results = {} \/ \E a \in Lan \cup {None} : cache.results = {a}
  /\ cache.fresh => cache.results # {}
  /\ masks \in BOOLEAN /\ refused \subseteq Lan \cup Typed
  /\ pass \in {"none", "listing", "locating", "probing", "publishing"}
  /\ queued \in BOOLEAN /\ (queued => pass # "none")
  /\ scan \in {"none", "running", "done"}
  /\ scan # "none" => pass = "locating"
  /\ found \in Lan \cup {None} /\ listed \in {"no", "read", "failed"}
  /\ restarts \in 0..MaxRestarts

Idle ==
  /\ scan = "none" /\ found = None /\ listed = "no"
  /\ known = Blank /\ built = Blank

Init ==
  /\ camera \in [ip : Lan, up : {TRUE}]
  /\ manual = None
  /\ created = Blank /\ published = Blank
  /\ cache = Never /\ masks = FALSE /\ refused = {}
  /\ pass = "none" /\ queued = FALSE
  /\ Idle
  /\ restarts = 0

---------------------------------------------------------------------------
(* Asking for a publication.                                               *)

publishDevices ==
  /\ pass' = IF pass = "none" THEN "listing" ELSE pass
  /\ queued' = (pass # "none")

(* A connection, a scan asked on the Discover screen.                      *)
Asks ==
  /\ publishDevices
  /\ UNCHANGED <<camera, home, published, memory, gathering, built,
                 restarts>>

(* The next scan is a new one, unless one that runs fills the cache first. *)
forgetLastScan == cache' = Never

TestsConnection ==
  /\ forgetLastScan
  /\ publishDevices
  /\ UNCHANGED <<camera, home, published, masks, refused, gathering, built,
                 restarts>>

TypesAddress(a) ==
  /\ manual' = a
  /\ publishDevices
  /\ UNCHANGED <<camera, created, published, memory, gathering, built,
                 restarts>>

ClearsAddress ==
  /\ manual # None
  /\ manual' = None
  /\ forgetLastScan
  /\ publishDevices
  /\ UNCHANGED <<camera, created, published, masks, refused, gathering,
                 built, restarts>>

(* The refused logins are forgotten whenever the configuration changes.    *)
SavesConfig ==
  /\ refused' = {}
  /\ publishDevices
  /\ UNCHANGED <<camera, created, manual, published, cache, masks,
                 gathering, built, restarts>>

---------------------------------------------------------------------------
(* The publication.                                                        *)

Cleared ==
  /\ scan' = "none" /\ found' = None /\ listed' = "no"
  /\ known' = Blank /\ built' = Blank

(* It is over, and the one waiting behind it starts.                       *)
Over ==
  /\ pass' = IF queued THEN "listing" ELSE "none"
  /\ queued' = FALSE
  /\ Cleared

CloudFails ==
  /\ pass = "listing"
  /\ Over
  /\ UNCHANGED <<camera, home, published, memory, restarts>>

(* The cloud answered: discoverDevices reuses the last scan for a while.   *)
discoverDevices ==
  /\ pass = "listing"
  /\ pass' = "locating"
  /\ IF cache.fresh
     THEN /\ scan' = "done"
          /\ found' = CHOOSE a \in Addresses : a \in cache.results
     ELSE scan' = "running" /\ UNCHANGED found
  /\ UNCHANGED <<camera, home, published, memory, queued, listed, known,
                 built, restarts>>

(* The camera hears the broadcast or not; other devices tell nothing here. *)
ScanAnswers ==
  /\ scan = "running"
  /\ \E a \in {None} \cup (IF camera.up THEN {camera.ip} ELSE {}) :
       /\ found' = a
       /\ cache' = [results |-> {a}, fresh |-> TRUE]
  /\ scan' = "done"
  /\ UNCHANGED <<camera, home, published, masks, refused, pass, queued,
                 listed, known, built, restarts>>

(* Refused or rate-limited: the last result, whatever its age.             *)
ScanRefused ==
  /\ scan = "running"
  /\ found' = IF cache.results = {} THEN None
              ELSE CHOOSE a \in Addresses : a \in cache.results
  /\ scan' = "done"
  /\ UNCHANGED <<camera, home, published, memory, pass, queued, listed,
                 known, built, restarts>>

ListsKnown(how, answer) ==
  /\ pass = "locating" /\ listed = "no"
  /\ listed' = how
  /\ known' = answer
  /\ UNCHANGED <<camera, home, published, memory, pass, queued, scan, found,
                 built, restarts>>

KnownListed == ListsKnown("read", created)
ListingFails == ListsKnown("failed", Blank)

resolveAddressKeepsTyped ==
  CASE manual # None -> [ip |-> manual, typed |-> TRUE]
    [] manual = None /\ found # None -> [ip |-> found, typed |-> FALSE]
    [] manual = None /\ found = None -> [ip |-> known.ip, typed |-> FALSE]

(* The address the user typed, the one the scan found, or the one the      *)
(* device had, unless it was typed.                                        *)
resolveAddress ==
  CASE manual # None -> [ip |-> manual, typed |-> TRUE]
    [] manual = None /\ found # None -> [ip |-> found, typed |-> FALSE]
    [] manual = None /\ found = None ->
         [ip |-> IF known.typed THEN None ELSE known.ip, typed |-> FALSE]

hasEvents(port) == known.events \/ port = "open"

hasLensMaskAnswered(answered) == answered
hasLensMask(answered) == answered \/ masks

LocatedAt(target) ==
  /\ pass = "locating" /\ scan = "done" /\ listed # "no"
  /\ built' = [built EXCEPT !.ip = target.ip, !.typed = target.typed]
  /\ pass' = "probing"
  /\ scan' = "none" /\ found' = None
  /\ UNCHANGED <<camera, home, published, memory, queued, listed, known,
                 restarts>>

Located == LocatedAt(resolveAddress)

Reached == camera.up /\ built.ip = camera.ip

(* Nothing to probe.                                                       *)
NoAddress ==
  /\ pass = "probing" /\ built.ip = None
  /\ built' = [built EXCEPT !.events = known.events, !.mask = hasLensMask(FALSE)]
  /\ pass' = "publishing"
  /\ UNCHANGED <<camera, home, published, memory, queued, gathering,
                 restarts>>

(* The ONVIF port and the local API are asked together.  A port that does  *)
(* not answer is not a closed one; a login that is refused pauses the next *)
(* ones, one that times out does not.                                      *)
Probes(port, lens) ==
  /\ pass = "probing" /\ built.ip # None
  /\ port = "open" => Reached /\ ServesOnvif
  /\ port = "closed" => ~(Reached /\ ServesOnvif)
  /\ lens = "answered" => Reached /\ HasMask /\ built.ip \notin refused
  /\ lens = "refused" => built.ip \notin refused
  /\ built' = [built EXCEPT !.events = hasEvents(port),
                            !.mask = hasLensMask(lens = "answered")]
  /\ masks' = (IF lens = "answered" THEN TRUE ELSE masks)
  /\ refused' = IF lens = "refused" THEN refused \cup {built.ip} ELSE refused
  /\ pass' = "publishing"
  /\ UNCHANGED <<camera, home, published, cache, queued, gathering,
                 restarts>>

Publishes ==
  /\ pass = "publishing"
  /\ published' = built
  /\ Over
  /\ UNCHANGED <<camera, home, memory, restarts>>

PublishingFails ==
  /\ pass = "publishing"
  /\ Over
  /\ UNCHANGED <<camera, home, published, memory, restarts>>

---------------------------------------------------------------------------
(* The user, the network, the clock and the process.                       *)

UpdatesDevice ==
  /\ created' = published
  /\ UNCHANGED <<camera, manual, published, memory, pass, queued, gathering,
                 built, restarts>>

CameraChanges ==
  /\ \/ camera' = [camera EXCEPT !.up = ~@]
     \/ \E a \in Lan : camera' = [camera EXCEPT !.ip = a]
  /\ UNCHANGED <<home, published, memory, pass, queued, gathering, built,
                 restarts>>

CacheExpires ==
  /\ cache.fresh
  /\ cache' = [cache EXCEPT !.fresh = FALSE]
  /\ UNCHANGED <<camera, home, published, masks, refused, pass, queued,
                 gathering, built, restarts>>

PauseEnds ==
  /\ \E a \in refused : refused' = refused \ {a}
  /\ UNCHANGED <<camera, home, published, cache, masks, pass, queued,
                 gathering, built, restarts>>

Restarts ==
  /\ restarts < MaxRestarts
  /\ restarts' = restarts + 1
  /\ cache' = Never /\ masks' = FALSE /\ refused' = {}
  /\ pass' = "none" /\ queued' = FALSE
  /\ Cleared
  /\ UNCHANGED <<camera, home, published>>

Requests ==
  \/ Asks \/ TestsConnection \/ ClearsAddress \/ SavesConfig
  \/ \E a \in Typed : TypesAddress(a)

Publication ==
  \/ CloudFails \/ discoverDevices
  \/ ScanAnswers \/ ScanRefused \/ KnownListed \/ ListingFails \/ Located
  \/ NoAddress
  \/ \E port \in {"open", "closed", "unreachable"},
        lens \in {"answered", "refused", "silent"} : Probes(port, lens)
  \/ Publishes \/ PublishingFails

Next ==
  \/ Requests \/ Publication
  \/ UpdatesDevice \/ CameraChanges \/ CacheExpires \/ PauseEnds \/ Restarts

Spec == Init /\ [][Next]_vars

---------------------------------------------------------------------------
(* Properties.                                                             *)

(* A publication keeps the motion sensor Gladys held when it read its      *)
(* devices, whatever the probes could not ask: without it no ONVIF setup   *)
(* would probe that camera again.                                          *)
EventsKept ==
  [][Publishes /\ listed = "read" /\ known.events => published'.events]_vars

(* A scan that finds nothing does not blank the address of a camera.       *)
AddressKept ==
  [][Publishes /\ listed = "read" /\ known.ip # None /\ ~known.typed
       => published'.ip # None]_vars

(* An address the user typed and removed does not survive as the last      *)
(* known one: an automatic address is one the camera had.                  *)
NoGhost == published.ip # None /\ ~published.typed => published.ip \in Lan

(* The lens mask of a camera that once answered it has one is not taken    *)
(* away by a lockout, a sleep or an outage while the process lives.        *)
MaskKept == [][restarts = 0 /\ published.mask => published'.mask]_vars

(* Failing to ask takes nothing away.                                      *)
OutageKeeps == EventsKept /\ AddressKept /\ MaskKept
===============================================================================
