---------------------------- MODULE RequestsProofs ----------------------------
(***************************************************************************)
(* Proofs about what Gladys requests: each component of MCRequests, for    *)
(* every value of its constants.                                           *)
(*                                                                         *)
(* The components keep no state in common, so a step of one is a step of   *)
(* it or a stutter for each (ComponentSteps), and each has its own         *)
(* inductive invariant: AccountInv for the token of the cloud, CameraInv   *)
(* for what a publication says of a camera, StoreInv and ClientInv for the *)
(* entries saved and the PTZ clients built from them, PtzInv and Shared    *)
(* for the movements, whose discoveries implement MemoizedWork, VideoInv   *)
(* for the stream the session puts together again.                         *)
(***************************************************************************)
EXTENDS MCRequests, Sequences, SequenceTheorems, TLAPS, WellFoundedInduction

LEMMA ComponentSteps ==
  ASSUME [Next]_vars
  PROVE  /\ [P!Next]_(P!vars) /\ [S!Next]_(S!vars) /\ [V!Next]_(V!vars)
         /\ [C!Next]_(C!vars) /\ [D!Next]_(D!vars) /\ [E!Next]_(E!vars)
<1>1. /\ UNCHANGED movement => UNCHANGED P!vars
      /\ UNCHANGED image => UNCHANGED S!vars
      /\ UNCHANGED account => UNCHANGED C!vars
  BY DEF movement, P!vars, P!clients, P!commands, P!camera, P!bounds,
         image, S!vars, S!session, S!stream, S!process, S!capture,
         account, C!vars, C!holding, C!running
<1>2. /\ UNCHANGED listing => UNCHANGED D!vars
      /\ UNCHANGED saving => UNCHANGED E!vars
  BY DEF listing, D!vars, D!home, D!memory, D!gathering,
         saving, E!vars, E!held, E!clients, E!histories, E!entryBounds
<1>3. UNCHANGED video => UNCHANGED V!vars
  BY DEF video, V!vars, V!camera, V!reader
<1>4. CASE Moves(P!Next) \/ Captures(S!Next) \/ Parses(V!Next)
  BY <1>1, <1>2, <1>4, <1>3 DEF Moves, Captures, Parses
<1>5. CASE Lists(C!Next) \/ Publishes(D!Next) \/ Saves(E!Next)
  BY <1>1, <1>2, <1>5, <1>3 DEF Lists, Publishes, Saves
<1>6. CASE UNCHANGED vars
  BY <1>1, <1>2, <1>6, <1>3 DEF vars
<1> QED
  BY <1>4, <1>5, <1>6 DEF Next

LEMMA Initially ==
  Init => P!Init /\ S!Init /\ V!Init /\ C!Init /\ D!Init /\ E!Init
BY DEF Init

LEMMA Assumed ==
  /\ P!PtzAssumption /\ S!CaptureAssumption /\ V!ParserAssumption
  /\ C!CloudAssumption /\ D!DiscoveryAssumption /\ E!EntryAssumption
BY RequestsAssumption

---------------------------------------------------------------------------
(* CloudAccount: the token is the one of the account configured, unless    *)
(* another was being asked for when it was saved.                          *)
Current ==
  ~overlapped =>
    /\ token # C!NoToken => token.of = stored
    /\ cloudPass \notin {"none", "reading"} => config = stored
    /\ sent # C!NoToken => sent.of = config

AccountInv == C!TypeOK /\ Current

LEMMA TokensKept ==
  ASSUME NEW t \in C!Tokens, t # C!NoToken
  PROVE  /\ [t EXCEPT !.honoured = FALSE] \in C!Tokens
         /\ [t EXCEPT !.honoured = FALSE] # C!NoToken
         /\ [t EXCEPT !.honoured = FALSE].of = t.of
<1>1. t \in [of : C!Versions, honoured : BOOLEAN]
  BY DEF C!Tokens
<1>2. None \notin C!Versions
  BY Assumed DEF C!CloudAssumption, C!Versions
<1> QED
  BY <1>1, <1>2 DEF C!Tokens, C!NoToken

LEMMA TokenGiven ==
  ASSUME NEW v \in C!Versions
  PROVE  /\ [of |-> v, honoured |-> TRUE] \in C!Tokens
         /\ [of |-> v, honoured |-> TRUE] # C!NoToken
<1>1. None \notin C!Versions
  BY Assumed DEF C!CloudAssumption, C!Versions
<1> QED
  BY <1>1 DEF C!Tokens, C!NoToken

LEMMA AccountKept ==
  ASSUME AccountInv, [C!Next]_(C!vars)
  PROVE  AccountInv'
<1> USE DEF AccountInv, Current, C!TypeOK
<1>0. /\ C!NoToken \in C!Tokens /\ 0 \in C!Versions
      /\ MaxEdits \in Nat /\ MaxRevoked \in Nat
  BY Assumed DEF C!Tokens, C!Versions, C!CloudAssumption
<1>1. CASE C!Ask
  BY <1>1 DEF C!Ask, C!publishDevices, C!holding
<1>2. CASE C!ConfigUpdated
  <2>1. stored' \in C!Versions
    BY <1>0, <1>2 DEF C!ConfigUpdated, C!Versions
  <2> QED
    BY <1>0, <1>2, <2>1 DEF C!ConfigUpdated, C!publishDevices
<1>3. CASE C!ReadsConfig
  BY <1>3 DEF C!ReadsConfig, C!holding
<1>4. CASE C!LoggedIn
  BY <1>4, TokenGiven DEF C!LoggedIn
<1>5. CASE C!LoginRefused \/ C!Listed \/ C!Unreachable
  BY <1>0, <1>5 DEF C!LoginRefused, C!Listed, C!Unreachable, C!Over, C!holding
<1>6. CASE C!TokenRejected
  BY <1>0, <1>6 DEF C!TokenRejected, C!Over
<1>7. CASE C!Revokes
  <2>1. /\ token' \in C!Tokens /\ (token' # C!NoToken => token # C!NoToken)
        /\ token' # C!NoToken => token'.of = token.of
    BY <1>7, TokensKept DEF C!Revokes
  <2>2. /\ sent' \in C!Tokens /\ (sent' # C!NoToken => sent # C!NoToken)
        /\ sent' # C!NoToken => sent'.of = sent.of
    BY <1>7, TokensKept DEF C!Revokes
  <2>3. revoked' \in 0..MaxRevoked
    BY <1>0, <1>7 DEF C!Revokes
  <2> QED
    BY <1>7, <2>1, <2>2, <2>3 DEF C!Revokes
<1>8. CASE C!Ages
  <2>1. /\ UNCHANGED <<stored, token, cloudPass, cloudQueued, config, sent>>
        /\ UNCHANGED <<overlapped, revoked>> /\ fresh' = FALSE
    BY <1>8 DEF C!Ages, C!running
  <2> QED
    BY <2>1
<1>9. CASE UNCHANGED C!vars
  <2>1. /\ UNCHANGED <<stored, token, cloudPass, cloudQueued, config, sent>>
        /\ UNCHANGED <<overlapped, revoked, fresh>>
    BY <1>9 DEF C!vars, C!holding, C!running
  <2> QED
    BY <2>1
<1> QED
  BY <1>1, <1>2, <1>3, <1>4, <1>5, <1>6, <1>7, <1>8, <1>9 DEF C!Next

LEMMA AccountHolds == Spec => []AccountInv
<1>1. C!Init => AccountInv
  <2>1. C!NoToken \in C!Tokens /\ 0 \in C!Versions /\ 0 \in 0..MaxRevoked
    BY Assumed DEF C!Tokens, C!Versions, C!CloudAssumption
  <2> QED
    BY <2>1 DEF C!Init, AccountInv, Current, C!TypeOK
<1> QED
  BY <1>1, AccountKept, Initially, ComponentSteps, PTL DEF Spec

(* A publication lists the devices of the account it read, unless another  *)
(* was being asked for when the last one was saved (cloud.js, login; app.js*)
(* onConfigUpdated): by then the token, the request and the publication    *)
(* all belong to the stored account.                                       *)
THEOREM AccountListedHolds == Spec => AccountListed
<1>1. AccountInv => [C!Listed /\ ~overlapped => sent.of = config]_(C!vars)
  BY DEF AccountInv, Current, C!Listed, C!NoToken
<1> QED
  BY <1>1, AccountHolds, PTL DEF AccountListed, C!AccountListed

---------------------------------------------------------------------------
(* Discovery: an automatic address is one the camera had, wherever it is   *)
(* held, and a probe that could not be made leaves what it would have      *)
(* answered as Gladys or the process held it.                              *)
CameraTypes ==
  D!TypeOK /\ cache \in [results : SUBSET (Lan \cup {None}), fresh : BOOLEAN]

Honest(d) == d.ip # None /\ ~d.typed => d.ip \in Lan

Truthful == Honest(built) /\ Honest(known) /\ Honest(created) /\ Honest(published)

Probed ==
  /\ pass = "publishing" /\ known.events => built.events
  /\ pass \in {"probing", "publishing"} /\ known.ip # None /\ ~known.typed
       => built.ip # None

Remembered ==
  restarts = 0 =>
    /\ published.mask => masks
    /\ built.mask => masks
    /\ pass = "publishing" /\ masks => built.mask

CameraInv == CameraTypes /\ Truthful /\ Probed /\ Remembered

LEMMA BlankDevice ==
  /\ D!Blank \in D!Device /\ Honest(D!Blank)
  /\ D!Blank.ip = None /\ ~D!Blank.typed /\ ~D!Blank.events /\ ~D!Blank.mask
BY DEF D!Blank, D!Device, D!Addresses, Honest

LEMMA CachedAddress ==
  ASSUME CameraTypes, cache.results # {}
  PROVE  (CHOOSE a \in D!Addresses : a \in cache.results) \in Lan \cup {None}
<1>1. PICK a \in Lan \cup {None} : cache.results = {a}
  BY DEF CameraTypes, D!TypeOK
<1>2. a \in D!Addresses /\ a \in cache.results
  BY <1>1 DEF D!Addresses
<1> QED
  BY <1>1, <1>2

(* A publication that ends forgets all it gathered.                        *)
LEMMA PublicationOver ==
  ASSUME D!Over, CameraInv
  PROVE  /\ pass' \in {"listing", "none"} /\ queued' = FALSE
         /\ scan' = "none" /\ found' = None /\ listed' = "no"
         /\ known' = D!Blank /\ built' = D!Blank
BY DEF D!Over, D!Cleared

LEMMA RequestKept ==
  ASSUME CameraInv, D!Requests
  PROVE  CameraInv'
<1> USE DEF CameraInv, CameraTypes, D!TypeOK, D!memory, D!home, D!gathering
<1>1. /\ UNCHANGED <<camera, created, published, masks, scan, found, listed>>
      /\ UNCHANGED <<known, built, restarts>>
      /\ pass' = IF pass = "none" THEN "listing" ELSE pass
      /\ queued' = (pass # "none")
  BY DEF D!Requests, D!Asks, D!TestsConnection, D!ClearsAddress,
         D!SavesConfig, D!TypesAddress, D!publishDevices
<1>2. queued' \in BOOLEAN /\ (queued' => pass' # "none")
  <2>1. (pass # "none") \in BOOLEAN
    OBVIOUS
  <2> QED
    BY <1>1, <2>1, Zenon
<1>3. manual' \in Typed \cup {None}
  BY DEF D!Requests, D!Asks, D!TestsConnection, D!ClearsAddress,
         D!SavesConfig, D!TypesAddress
<1>4. refused' \subseteq Lan \cup Typed
  BY DEF D!Requests, D!Asks, D!TestsConnection, D!ClearsAddress,
         D!SavesConfig, D!TypesAddress
<1>5. cache' = cache \/ cache' = D!Never
  BY DEF D!Requests, D!Asks, D!TestsConnection, D!ClearsAddress,
         D!SavesConfig, D!TypesAddress, D!forgetLastScan
<1>6. /\ cache' \in [results : SUBSET (Lan \cup {None}), fresh : BOOLEAN]
      /\ cache'.results = {} \/ \E a \in Lan \cup {None} : cache'.results = {a}
      /\ cache'.fresh => cache'.results # {}
  <2>1. /\ D!Never \in [results : SUBSET (Lan \cup {None}), fresh : BOOLEAN]
        /\ D!Never.results = {} /\ D!Never.fresh = FALSE
    BY DEF D!Never
  <2>2. CASE cache' = D!Never
    BY <2>1, <2>2
  <2>3. CASE cache' = cache
    BY <2>3
  <2> QED
    BY <1>5, <2>2, <2>3
<1>7. CameraTypes'
  <2>1. pass' \in {"none", "listing", "locating", "probing", "publishing"}
        /\ (scan' # "none" => pass' = "locating")
    BY <1>1
  <2> QED
    BY <1>1, <1>2, <1>3, <1>4, <1>6, <2>1
<1> QED
  BY <1>1, <1>7 DEF Truthful, Honest, Probed, Remembered

LEMMA LocatingKept ==
  ASSUME CameraInv,
         \/ D!discoverDevices \/ D!ScanAnswers \/ D!ScanRefused
         \/ D!KnownListed \/ D!ListingFails \/ D!Located
  PROVE  CameraInv'
<1> USE DEF CameraInv, CameraTypes, D!TypeOK, D!memory, D!home, D!gathering
<1>1. CASE D!discoverDevices
  <2>1. found' \in Lan \cup {None} /\ scan' \in {"running", "done"}
    BY <1>1, CachedAddress DEF D!discoverDevices
  <2> QED
    BY <1>1, <2>1 DEF D!discoverDevices, Truthful, Honest, Probed, Remembered
<1>2. CASE D!ScanAnswers
  <2>1. PICK a \in Lan \cup {None} :
          found' = a /\ cache' = [results |-> {a}, fresh |-> TRUE]
    BY <1>2 DEF D!ScanAnswers
  <2>2. cache' \in [results : SUBSET (Lan \cup {None}), fresh : BOOLEAN]
        /\ cache'.results = {a}
    BY <2>1
  <2> QED
    BY <1>2, <2>1, <2>2 DEF D!ScanAnswers, Truthful, Honest, Probed, Remembered
<1>3. CASE D!ScanRefused
  <2>1. found' \in Lan \cup {None}
    BY <1>3, CachedAddress DEF D!ScanRefused
  <2> QED
    BY <1>3, <2>1 DEF D!ScanRefused, Truthful, Honest, Probed, Remembered
<1>4. CASE D!KnownListed \/ D!ListingFails
  <2>1. /\ known' \in D!Device /\ Honest(known')
        /\ listed' \in {"read", "failed"} /\ pass = "locating"
    BY <1>4, BlankDevice
    DEF D!KnownListed, D!ListingFails, D!ListsKnown, Truthful
  <2>2. /\ UNCHANGED <<camera, created, manual, published, cache, masks>>
        /\ UNCHANGED <<refused, pass, queued, scan, found, built, restarts>>
    BY <1>4 DEF D!KnownListed, D!ListingFails, D!ListsKnown
  <2> QED
    BY <2>1, <2>2 DEF Truthful, Honest, Probed, Remembered
<1>5. CASE D!Located
  <2>1. None \notin Lan \cup Typed
    BY Assumed DEF D!DiscoveryAssumption
  <2> DEFINE target == D!resolveAddress
  <2>2. /\ target.ip \in D!Addresses /\ target.typed \in BOOLEAN
        /\ target.ip # None /\ ~target.typed => target.ip \in Lan
        /\ known.ip # None /\ ~known.typed => target.ip # None
    <3>1. CASE manual # None
      BY <2>1, <3>1 DEF D!resolveAddress, D!Addresses
    <3>2. CASE manual = None /\ found # None
      BY <2>1, <3>2 DEF D!resolveAddress, D!Addresses
    <3>3. CASE manual = None /\ found = None
      <4>1. target = [ip |-> IF known.typed THEN None ELSE known.ip,
                      typed |-> FALSE]
        BY <3>3 DEF D!resolveAddress
      <4> QED
        BY <4>1 DEF Truthful, Honest, D!Device, D!Addresses
    <3> QED
      BY <3>1, <3>2, <3>3
  <2>3. /\ built' \in D!Device
        /\ built'.ip = target.ip /\ built'.typed = target.typed
        /\ built'.mask = built.mask
    <3>1. built' = [built EXCEPT !.ip = target.ip, !.typed = target.typed]
      BY <1>5 DEF D!Located, D!LocatedAt
    <3> HIDE DEF target
    <3> QED
      BY <2>2, <3>1 DEF D!Device
  <2>4. /\ UNCHANGED <<camera, created, manual, published, cache, masks>>
        /\ UNCHANGED <<refused, queued, listed, known, restarts>>
        /\ pass = "locating" /\ pass' = "probing"
        /\ scan' = "none" /\ found' = None
    BY <1>5 DEF D!Located, D!LocatedAt
  <2> HIDE DEF target
  <2> QED
    BY <2>2, <2>3, <2>4 DEF Truthful, Honest, Probed, Remembered
<1> QED
  BY <1>1, <1>2, <1>3, <1>4, <1>5

(* Whether its camera was probed or had no address to be probed at, the    *)
(* device built keeps the sensor that was known and the mask remembered.   *)
LEMMA ProbeKept ==
  ASSUME CameraInv,
         \/ D!NoAddress
         \/ \E port \in {"open", "closed", "unreachable"},
               lens \in {"answered", "refused", "silent"} : D!Probes(port, lens)
  PROVE  CameraInv'
<1> USE DEF CameraInv, CameraTypes, D!TypeOK, D!memory, D!home, D!gathering
<1>1. PICK events \in BOOLEAN, mask \in BOOLEAN :
        /\ built' = [built EXCEPT !.events = events, !.mask = mask]
        /\ known.events => events
        /\ masks' \in BOOLEAN /\ (mask <=> masks') /\ (masks => masks')
  <2>1. known.events \in BOOLEAN /\ masks \in BOOLEAN
    BY DEF D!Device
  <2>2. CASE D!NoAddress
    <3>1. /\ built' = [built EXCEPT !.events = known.events, !.mask = masks]
          /\ masks' = masks
      <4>1. D!hasLensMask(FALSE) = masks
        BY <2>1 DEF D!hasLensMask
      <4> QED
        BY <2>2, <4>1 DEF D!NoAddress
    <3> QED
      BY <2>1, <3>1
  <2>3. ASSUME NEW port \in {"open", "closed", "unreachable"},
               NEW lens \in {"answered", "refused", "silent"},
               D!Probes(port, lens)
        PROVE  \E events \in BOOLEAN, mask \in BOOLEAN :
                 /\ built' = [built EXCEPT !.events = events, !.mask = mask]
                 /\ known.events => events
                 /\ masks' \in BOOLEAN /\ (mask <=> masks') /\ (masks => masks')
    <3> DEFINE events == D!hasEvents(port)
               mask == D!hasLensMask(lens = "answered")
    <3>1. /\ built' = [built EXCEPT !.events = events, !.mask = mask]
          /\ masks' = IF lens = "answered" THEN TRUE ELSE masks
      BY <2>3 DEF D!Probes
    <3>2. /\ events \in BOOLEAN /\ (known.events => events)
          /\ mask \in BOOLEAN /\ (mask <=> (lens = "answered") \/ masks)
      BY <2>1, Zenon DEF D!hasEvents, D!hasLensMask
    <3> HIDE DEF events, mask
    <3>3. masks' \in BOOLEAN /\ (mask <=> masks') /\ (masks => masks')
      BY <2>1, <3>1, <3>2
    <3> QED
      BY <3>1, <3>2, <3>3
  <2> QED
    BY <2>2, <2>3
<1>2. /\ built' \in D!Device
      /\ built'.ip = built.ip /\ built'.typed = built.typed
      /\ built'.events = events /\ built'.mask = mask
  BY <1>1 DEF D!Device
<1>3. /\ UNCHANGED <<camera, created, manual, published, cache, queued>>
      /\ UNCHANGED <<scan, found, listed, known, restarts>>
      /\ pass = "probing" /\ pass' = "publishing"
  BY DEF D!NoAddress, D!Probes
<1>4. refused' \subseteq Lan \cup Typed
  <2>1. D!NoAddress => refused' = refused
    BY DEF D!NoAddress
  <2>2. ASSUME NEW port \in {"open", "closed", "unreachable"},
               NEW lens \in {"answered", "refused", "silent"},
               D!Probes(port, lens)
        PROVE  refused' \subseteq Lan \cup Typed
    <3>1. built.ip \in Lan \cup Typed
      BY <2>2 DEF D!Probes, D!Device, D!Addresses
    <3> QED
      BY <2>2, <3>1 DEF D!Probes
  <2> QED
    BY <2>1, <2>2
<1>5. CameraTypes'
  BY <1>1, <1>2, <1>3, <1>4
<1>6. Truthful'
  BY <1>2, <1>3 DEF Truthful, Honest
<1>7. Probed'
  BY <1>1, <1>2, <1>3 DEF Probed
<1>8. Remembered'
  BY <1>1, <1>2, <1>3 DEF Remembered
<1> QED
  BY <1>5, <1>6, <1>7, <1>8

LEMMA OverKept ==
  ASSUME CameraInv, D!CloudFails \/ D!Publishes \/ D!PublishingFails
  PROVE  CameraInv'
<1> USE DEF CameraInv, CameraTypes, D!TypeOK, D!memory, D!home
<1>1. D!Over
  BY DEF D!CloudFails, D!Publishes, D!PublishingFails
<1>2. /\ pass' \in {"listing", "none"} /\ queued' = FALSE
      /\ scan' = "none" /\ found' = None /\ listed' = "no"
      /\ known' = D!Blank /\ built' = D!Blank
  BY <1>1, PublicationOver
<1>3. /\ UNCHANGED <<camera, created, manual, cache, masks, refused>>
      /\ restarts' = restarts
      /\ published' = published \/ (pass = "publishing" /\ published' = built)
  BY DEF D!CloudFails, D!Publishes, D!PublishingFails
<1>4. CameraTypes'
  BY <1>2, <1>3, BlankDevice
<1>5. Truthful' /\ Probed'
  BY <1>2, <1>3, BlankDevice DEF Truthful, Honest, Probed
<1>6. Remembered'
  BY <1>2, <1>3, BlankDevice DEF Remembered
<1> QED
  BY <1>4, <1>5, <1>6

LEMMA CameraKept ==
  ASSUME CameraInv, [D!Next]_(D!vars)
  PROVE  CameraInv'
<1> USE DEF CameraInv, CameraTypes, D!TypeOK, D!memory, D!home, D!gathering
<1>1. CASE D!Requests
  BY <1>1, RequestKept
<1>2. CASE D!Publication
  BY <1>2, LocatingKept, ProbeKept, OverKept DEF D!Publication
<1>3. CASE D!UpdatesDevice
  BY <1>3 DEF D!UpdatesDevice, Truthful, Honest, Probed, Remembered
<1>4. CASE D!CameraChanges
  <2>1. camera' \in [ip : Lan, up : BOOLEAN]
    BY <1>4 DEF D!CameraChanges
  <2> QED
    BY <1>4, <2>1 DEF D!CameraChanges, Truthful, Honest, Probed, Remembered
<1>5. CASE D!CacheExpires
  <2>1. /\ cache' \in [results : SUBSET (Lan \cup {None}), fresh : BOOLEAN]
        /\ cache'.results = cache.results /\ ~cache'.fresh
    BY <1>5 DEF D!CacheExpires
  <2> QED
    BY <1>5, <2>1 DEF D!CacheExpires, Truthful, Honest, Probed, Remembered
<1>6. CASE D!PauseEnds
  BY <1>6 DEF D!PauseEnds, Truthful, Honest, Probed, Remembered
<1>7. CASE D!Restarts
  <2>1. /\ D!Never \in [results : SUBSET (Lan \cup {None}), fresh : BOOLEAN]
        /\ D!Never.results = {} /\ D!Never.fresh = FALSE
    BY DEF D!Never
  <2>2. MaxRestarts \in Nat
    BY Assumed DEF D!DiscoveryAssumption
  <2>3. restarts' \in 0..MaxRestarts /\ restarts' # 0
    BY <1>7, <2>2 DEF D!Restarts
  <2>4. /\ UNCHANGED <<camera, created, manual, published>>
        /\ cache' = D!Never /\ masks' = FALSE /\ refused' = {}
        /\ pass' = "none" /\ queued' = FALSE
        /\ scan' = "none" /\ found' = None /\ listed' = "no"
        /\ known' = D!Blank /\ built' = D!Blank
    BY <1>7 DEF D!Restarts, D!Cleared
  <2> QED
    BY <2>1, <2>3, <2>4, BlankDevice DEF Truthful, Honest, Probed, Remembered
<1>8. CASE UNCHANGED D!vars
  BY <1>8 DEF D!vars, Truthful, Honest, Probed, Remembered
<1> QED
  BY <1>1, <1>2, <1>3, <1>4, <1>5, <1>6, <1>7, <1>8 DEF D!Next

LEMMA CameraHolds == Spec => []CameraInv
<1>1. D!Init => CameraInv
  <2> SUFFICES ASSUME D!Init PROVE CameraInv
    OBVIOUS
  <2>1. /\ D!Never \in [results : SUBSET (Lan \cup {None}), fresh : BOOLEAN]
        /\ D!Never.results = {} /\ D!Never.fresh = FALSE
    BY DEF D!Never
  <2>2. 0 \in 0..MaxRestarts
    BY Assumed DEF D!DiscoveryAssumption
  <2> QED
    BY <2>1, <2>2, BlankDevice
    DEF D!Init, D!Idle, CameraInv, CameraTypes, D!TypeOK, Truthful, Honest,
        Probed, Remembered
<1> QED
  BY <1>1, CameraKept, Initially, ComponentSteps, PTL DEF Spec

(* An address the user typed and removed does not survive as an automatic  *)
(* one (devices.js, resolveAddress): an address published without being    *)
(* marked as typed is one the camera had.                                  *)
THEOREM NoGhostHolds == Spec => []NoGhost
<1>1. CameraInv => NoGhost
  BY DEF CameraInv, Truthful, Honest, NoGhost, D!NoGhost
<1> QED
  BY <1>1, CameraHolds, PTL

(* What could not be asked is not taken away (devices.js:671): the sensor  *)
(* and the address Gladys held when the publication read its devices, and  *)
(* the lens mask the camera answered for since the process started.        *)
THEOREM OutageKeepsHolds == Spec => OutageKeeps
<1>1. CameraInv => [D!Publishes /\ listed = "read" /\ known.events
                      => published'.events]_(D!vars)
  BY DEF CameraInv, Probed, D!Publishes
<1>2. CameraInv => [D!Publishes /\ listed = "read" /\ known.ip # None
                      /\ ~known.typed => published'.ip # None]_(D!vars)
  BY DEF CameraInv, Probed, D!Publishes
<1>3. CameraInv /\ [Next]_vars
        => [restarts = 0 /\ published.mask => published'.mask]_(D!vars)
  <2> SUFFICES ASSUME CameraInv, D!Next, restarts = 0, published.mask
               PROVE  published'.mask
    BY ComponentSteps
  <2>1. published' = published \/ (pass = "publishing" /\ published' = built)
    BY DEF D!Next, D!Requests, D!Publication, D!Asks, D!TestsConnection,
      D!ClearsAddress, D!SavesConfig, D!TypesAddress, D!CloudFails,
      D!discoverDevices, D!ScanAnswers, D!ScanRefused, D!KnownListed,
      D!ListingFails, D!ListsKnown, D!Located, D!LocatedAt, D!NoAddress,
      D!Probes, D!Publishes, D!PublishingFails, D!UpdatesDevice,
      D!CameraChanges, D!CacheExpires, D!PauseEnds, D!Restarts
  <2> QED
    BY <2>1 DEF CameraInv, Remembered
<1> QED
  BY <1>1, <1>2, <1>3, CameraHolds, PTL
  DEF Spec, OutageKeeps, D!OutageKeeps, D!EventsKept, D!AddressKept, D!MaskKept

LEMMA CameraTyped == CameraInv => D!TypeOK
BY DEF CameraInv, CameraTypes

---------------------------------------------------------------------------
(* EntryStore: unless two actions held a reading of a store at once, what  *)
(* an action is about to write is that store and its own entry; and a PTZ  *)
(* client that no longer uses the account saved for its camera is about to *)
(* be forgotten.                                                           *)
Account == "camera_account_store"

ReadAnew(k) ==
  \A c \in Calls :
    call[c].phase = "writing" /\ call[c].key = k
      => call[c].next = [store[k] EXCEPT ![call[c].device] = call[c].value]

StoreInv ==
  E!TypeOK /\ \A k \in E!Stores \ raced : store[k] = entered[k] /\ ReadAnew(k)

Forgotten(d) ==
  \E c \in Calls :
    call[c].phase = "rereading" /\ call[c].key = Account /\ call[c].device = d

Uses(d) == ptz[d] = None \/ ptz[d] = E!resolveRtspAccount(store, form, d)

ClientInv ==
  StoreInv /\ (Account \notin raced
                 => \A d \in Devices \ spoiled : Uses(d) \/ Forgotten(d))

LEMMA CallTypes ==
  ASSUME E!TypeOK, NEW c \in Calls
  PROVE  /\ call[c] = E!Idle <=> call[c].phase = "free"
         /\ call[c].phase = "writing" => call[c] \in E!Writing
         /\ call[c].phase \in {"reading", "rereading", "publishing"}
              => call[c] \in E!Action
<1>1. call[c] \in {E!Idle} \cup E!Action \cup E!Writing
  BY DEF E!TypeOK
<1>2. E!Idle.phase = "free"
  BY DEF E!Idle
<1>3. \A a \in E!Action : a.phase \in {"reading", "rereading", "publishing"}
  BY DEF E!Action
<1>4. \A a \in E!Writing : a.phase = "writing"
  BY DEF E!Writing
<1> QED
  BY <1>1, <1>2, <1>3, <1>4

(* An action of the user that goes on leaves the others as they are.       *)
LEMMA CallGoesOn ==
  ASSUME E!TypeOK, NEW c \in Calls,
         NEW r \in {E!Idle} \cup E!Action \cup E!Writing,
         call' = [call EXCEPT ![c] = r]
  PROVE  /\ call' \in [Calls -> {E!Idle} \cup E!Action \cup E!Writing]
         /\ call'[c] = r /\ \A o \in Calls \ {c} : call'[o] = call[o]
BY DEF E!TypeOK

(* What a store becomes when an action writes it back.                     *)
LEMMA StoredEntry ==
  ASSUME StoreInv, NEW c \in Calls, call[c].phase = "writing", E!Stored(c)
  PROVE  /\ {store', entered'} \subseteq E!Map
         /\ raced \subseteq raced' /\ raced' \subseteq E!Stores
         /\ \A k \in E!Stores \ {call[c].key} :
              store'[k] = store[k] /\ entered'[k] = entered[k]
         /\ call[c].key \notin raced' =>
              /\ store'[call[c].key] = entered'[call[c].key]
              /\ store'[call[c].key] = [store[call[c].key] EXCEPT
                                          ![call[c].device] = call[c].value]
              /\ \A o \in Calls \ {c} :
                   ~(call[o].phase = "writing" /\ call[o].key = call[c].key)
<1> DEFINE k == call[c].key
           entry == [entered[k] EXCEPT ![call[c].device] = call[c].value]
<1>1. /\ k \in E!Stores /\ call[c].device \in Devices
      /\ call[c].value \in E!Entry /\ call[c].next \in [Devices -> E!Entry]
  BY CallTypes DEF StoreInv, E!Writing
<1>2. store' = [store EXCEPT ![k] = call[c].next]
  BY DEF E!Stored
<1>3. entered' = [entered EXCEPT ![k] = entry]
  BY DEF E!Stored
<1>4. /\ store \in [E!Stores -> [Devices -> E!Entry]]
      /\ entered \in [E!Stores -> [Devices -> E!Entry]]
      /\ raced \subseteq E!Stores
  BY DEF StoreInv, E!TypeOK, E!Map
<1>5. entry \in [Devices -> E!Entry]
  BY <1>1, <1>4
<1>6. raced' = IF \E o \in Calls \ {c} :
                       call[o].phase = "writing" /\ call[o].key = k
                 THEN raced \cup {k} ELSE raced
  BY DEF E!Stored
<1> HIDE DEF entry
<1>7. /\ store' \in E!Map /\ entered' \in E!Map
      /\ store'[k] = call[c].next /\ entered'[k] = entry
      /\ \A j \in E!Stores \ {k} : store'[j] = store[j] /\ entered'[j] = entered[j]
  BY <1>1, <1>2, <1>3, <1>4, <1>5 DEF E!Map
<1>8. ASSUME k \notin raced'
      PROVE  /\ call[c].next = [store[k] EXCEPT ![call[c].device] = call[c].value]
             /\ call[c].next = entry
             /\ \A o \in Calls \ {c} :
                  ~(call[o].phase = "writing" /\ call[o].key = k)
  <2>1. /\ k \notin raced
        /\ \A o \in Calls \ {c} : ~(call[o].phase = "writing" /\ call[o].key = k)
    BY <1>6, <1>8
  <2>2. store[k] = entered[k] /\ ReadAnew(k)
    BY <1>1, <2>1 DEF StoreInv
  <2> QED
    BY <2>1, <2>2 DEF ReadAnew, entry
<1> QED
  BY <1>1, <1>4, <1>6, <1>7, <1>8

(* What an action becomes, step by step; the store it is about to write is *)
(* the one of the moment it reads it.                                      *)
LEMMA CallSteps ==
  ASSUME E!TypeOK, NEW c \in Calls
  PROVE  /\ \A k \in E!Stores, d \in Devices, v \in E!Entry :
              E!Saves(c, k, d, v) =>
                \E r \in E!Action : /\ call' = [call EXCEPT ![c] = r]
                                    /\ r.phase = "reading"
         /\ E!Reads(c) =>
              \E r \in E!Writing :
                /\ call' = [call EXCEPT ![c] = r]
                /\ r.next = [store[r.key] EXCEPT ![r.device] = r.value]
         /\ E!Writes(c) =>
              \E r \in E!Action :
                /\ call' = [call EXCEPT ![c] = r]
                /\ r.phase = "rereading"
                /\ r.key = call[c].key /\ r.device = call[c].device
         /\ E!Rereads(c) =>
              \E r \in E!Action : /\ call' = [call EXCEPT ![c] = r]
                                  /\ r.phase = "publishing"
<1>1. ASSUME NEW k \in E!Stores, NEW d \in Devices, NEW v \in E!Entry,
             E!Saves(c, k, d, v)
      PROVE  \E r \in E!Action : /\ call' = [call EXCEPT ![c] = r]
                                 /\ r.phase = "reading"
  <2> DEFINE r == [phase |-> "reading", key |-> k, device |-> d, value |-> v]
  <2>1. r \in E!Action /\ r.phase = "reading"
    BY DEF E!Action
  <2>2. call' = [call EXCEPT ![c] = r]
    BY <1>1 DEF E!Saves
  <2> QED
    BY <2>1, <2>2
<1>2. ASSUME E!Reads(c)
      PROVE  \E r \in E!Writing :
               /\ call' = [call EXCEPT ![c] = r]
               /\ r.next = [store[r.key] EXCEPT ![r.device] = r.value]
  <2> DEFINE a == call[c]
             next == [store[a.key] EXCEPT ![a.device] = a.value]
             r == [phase |-> "writing", key |-> a.key, device |-> a.device,
                   value |-> a.value, next |-> next]
  <2>1. /\ a.key \in E!Stores /\ a.device \in Devices /\ a.value \in E!Entry
    BY <1>2, CallTypes DEF E!Reads, E!Action
  <2>2. next \in [Devices -> E!Entry]
    BY <2>1 DEF E!TypeOK, E!Map
  <2>3. r \in E!Writing /\ r.next = [store[r.key] EXCEPT ![r.device] = r.value]
    BY <2>1, <2>2 DEF E!Writing
  <2>4. call' = [call EXCEPT ![c] = r]
    BY <1>2 DEF E!Reads
  <2> QED
    BY <2>3, <2>4
<1>3. ASSUME E!Writes(c)
      PROVE  \E r \in E!Action :
               /\ call' = [call EXCEPT ![c] = r]
               /\ r.phase = "rereading"
               /\ r.key = call[c].key /\ r.device = call[c].device
  <2> DEFINE a == call[c]
             r == [phase |-> "rereading", key |-> a.key, device |-> a.device,
                   value |-> a.value]
  <2>1. /\ a.key \in E!Stores /\ a.device \in Devices /\ a.value \in E!Entry
    BY <1>3, CallTypes DEF E!Writes, E!Writing
  <2>2. r \in E!Action /\ r.phase = "rereading" /\ r.key = a.key
        /\ r.device = a.device
    BY <2>1 DEF E!Action
  <2>3. call' = [call EXCEPT ![c] = r]
    BY <1>3 DEF E!Writes
  <2> QED
    BY <2>2, <2>3
<1>4. ASSUME E!Rereads(c)
      PROVE  \E r \in E!Action : /\ call' = [call EXCEPT ![c] = r]
                                 /\ r.phase = "publishing"
  <2> DEFINE r == [call[c] EXCEPT !.phase = "publishing"]
  <2>1. call[c] \in E!Action
    BY <1>4, CallTypes DEF E!Rereads
  <2>2. r \in E!Action /\ r.phase = "publishing"
    BY <2>1 DEF E!Action
  <2>3. call' = [call EXCEPT ![c] = r]
    BY <1>4 DEF E!Rereads, E!Moves
  <2> QED
    BY <2>2, <2>3
<1> QED
  BY <1>1, <1>2, <1>3, <1>4

LEMMA AccountUsed ==
  ASSUME E!TypeOK, NEW d \in Devices
  PROVE  /\ E!resolveRtspAccount(store, form, d) \in E!Entry
         /\ E!resolveRtspAccount(memory.store, memory.form, d) \in E!Entry
<1>1. /\ store \in E!Map /\ form \in E!Entry
      /\ memory.store \in E!Map /\ memory.form \in E!Entry
  BY DEF E!TypeOK
<1> QED
  BY <1>1 DEF E!resolveRtspAccount, E!Map, E!Stores

(* Whatever only moves an action on, without writing a store or ending the *)
(* wait of a client, keeps both.                                           *)
LEMMA StepAside ==
  ASSUME ClientInv, NEW c \in Calls,
         NEW r \in {E!Idle} \cup E!Action \cup E!Writing,
         call' = [call EXCEPT ![c] = r],
         r \in E!Writing =>
           r.next = [store[r.key] EXCEPT ![r.device] = r.value],
         UNCHANGED <<store, form, updating, building, ptz, entered>>,
         memory' \in [store : E!Map, form : E!Entry],
         raced' = raced,
         spoiled \subseteq spoiled' /\ spoiled' \subseteq Devices,
         call[c].phase = "rereading" => call[c].device \in spoiled'
  PROVE  ClientInv'
<1>1. /\ call' \in [Calls -> {E!Idle} \cup E!Action \cup E!Writing]
      /\ call'[c] = r /\ \A o \in Calls \ {c} : call'[o] = call[o]
  BY CallGoesOn DEF ClientInv, StoreInv
<1>2. E!TypeOK'
  BY <1>1 DEF ClientInv, StoreInv, E!TypeOK
<1>3. r.phase = "writing" => r \in E!Writing
  BY DEF E!Idle, E!Action
<1>4. ASSUME NEW k \in E!Stores \ raced
      PROVE  store'[k] = entered'[k] /\ ReadAnew(k)'
  <2>1. store[k] = entered[k] /\ ReadAnew(k)
    BY DEF ClientInv, StoreInv
  <2> QED
    BY <1>1, <1>3, <2>1 DEF ReadAnew
<1>5. ASSUME Account \notin raced, NEW d \in Devices \ spoiled'
      PROVE  Uses(d)' \/ Forgotten(d)'
  <2>1. Uses(d) \/ Forgotten(d)
    BY <1>5 DEF ClientInv
  <2>2. Uses(d) => Uses(d)'
    BY DEF Uses, E!resolveRtspAccount
  <2>3. Forgotten(d) => Forgotten(d)'
    BY <1>1 DEF Forgotten
  <2> QED
    BY <2>1, <2>2, <2>3
<1> QED
  BY <1>2, <1>4, <1>5 DEF ClientInv, StoreInv

LEMMA MemoryRead ==
  ASSUME E!TypeOK
  PROVE  /\ memory \in [store : E!Map, form : E!Entry]
         /\ E!ReadNow => memory' \in [store : E!Map, form : E!Entry]
<1>1. store \in E!Map /\ form \in E!Entry
  BY DEF E!TypeOK
<1> QED
  BY <1>1 DEF E!TypeOK, E!ReadNow

LEMMA AsideKept ==
  ASSUME ClientInv, NEW c \in Calls,
         \/ \E k \in E!Stores, d \in Devices, v \in E!Entry :
              E!Saves(c, k, d, v)
         \/ E!Reads(c) \/ E!ReadFails(c) \/ E!WriteRefused(c)
         \/ E!RereadFails(c) \/ E!Publishes(c) \/ E!PublishingFails(c)
  PROVE  ClientInv'
<1> USE DEF E!held, E!clients, E!histories
<1>0. /\ E!TypeOK /\ spoiled \subseteq Devices
      /\ memory \in [store : E!Map, form : E!Entry]
  BY MemoryRead DEF ClientInv, StoreInv, E!TypeOK
<1>1. ASSUME NEW k \in E!Stores, NEW d \in Devices, NEW v \in E!Entry,
             E!Saves(c, k, d, v)
      PROVE  ClientInv'
  <2>1. PICK r \in E!Action :
          call' = [call EXCEPT ![c] = r] /\ r.phase = "reading"
    BY <1>0, <1>1, CallSteps
  <2>2. r \notin E!Writing
    BY <2>1 DEF E!Writing
  <2>3. /\ UNCHANGED <<store, form, memory, updating, building, ptz, entered>>
        /\ UNCHANGED <<raced, spoiled>> /\ call[c].phase = "free"
    BY <1>0, <1>1, CallTypes DEF E!Saves
  <2> QED
    BY <1>0, <2>1, <2>2, <2>3, StepAside
<1>2. CASE E!Reads(c)
  <2>1. PICK r \in E!Writing :
          /\ call' = [call EXCEPT ![c] = r]
          /\ r.next = [store[r.key] EXCEPT ![r.device] = r.value]
    BY <1>0, <1>2, CallSteps
  <2>2. /\ UNCHANGED <<store, form, memory, updating, building, ptz, entered>>
        /\ UNCHANGED <<raced, spoiled>> /\ call[c].phase = "reading"
    BY <1>2 DEF E!Reads
  <2> QED
    BY <1>0, <2>1, <2>2, StepAside
<1>3. CASE \/ E!ReadFails(c) \/ E!WriteRefused(c) \/ E!RereadFails(c)
           \/ E!Publishes(c) \/ E!PublishingFails(c)
  <2>1. call' = [call EXCEPT ![c] = E!Idle] /\ E!Idle \notin E!Writing
    BY <1>3 DEF E!ReadFails, E!WriteRefused, E!RereadFails, E!Publishes,
                E!PublishingFails, E!Done, E!Idle, E!Writing
  <2>2. /\ UNCHANGED <<store, form, updating, building, ptz, entered>>
        /\ raced' = raced
    BY <1>3 DEF E!ReadFails, E!WriteRefused, E!RereadFails, E!Publishes,
                E!PublishingFails
  <2>3. memory' \in [store : E!Map, form : E!Entry]
    BY <1>0, <1>3, MemoryRead
    DEF E!ReadFails, E!WriteRefused, E!RereadFails, E!Publishes,
        E!PublishingFails
  <2>4. /\ spoiled \subseteq spoiled' /\ spoiled' \subseteq Devices
        /\ call[c].phase = "rereading" => call[c].device \in spoiled'
    <3>1. call[c].phase = "rereading" => call[c].device \in Devices
      BY <1>0, CallTypes DEF E!Action
    <3> QED
      BY <1>0, <1>3, <3>1
      DEF E!ReadFails, E!WriteRefused, E!RereadFails, E!Publishes,
          E!PublishingFails
  <2> QED
    BY <2>1, <2>2, <2>3, <2>4, StepAside
<1> QED
  BY <1>1, <1>2, <1>3

(* The client of the camera is forgotten when its account is read back.    *)
LEMMA RereadKept ==
  ASSUME ClientInv, NEW c \in Calls, E!Rereads(c)
  PROVE  ClientInv'
<1>0. E!TypeOK
  BY DEF ClientInv, StoreInv
<1>1. PICK r \in E!Action :
        call' = [call EXCEPT ![c] = r] /\ r.phase = "publishing"
  BY <1>0, CallSteps
<1>2. /\ call' \in [Calls -> {E!Idle} \cup E!Action \cup E!Writing]
      /\ call'[c] = r /\ \A o \in Calls \ {c} : call'[o] = call[o]
  BY <1>0, <1>1, CallGoesOn
<1>3. /\ UNCHANGED <<store, form, updating, building, entered, raced, spoiled>>
      /\ memory' \in [store : E!Map, form : E!Entry]
  BY <1>0, MemoryRead DEF E!Rereads, E!histories
<1>4. call[c].device \in Devices /\ call[c].phase = "rereading"
  BY <1>0, CallTypes DEF E!Rereads, E!Action
<1>5. /\ ptz' \in [Devices -> E!Entry]
      /\ \A d \in Devices :
           ptz'[d] = ptz[d] \/ ptz'[d] = None
      /\ call[c].key = Account => ptz'[call[c].device] = None
  BY <1>0, <1>4 DEF E!Rereads, E!TypeOK, E!Entry, Account
<1>6. E!TypeOK'
  BY <1>0, <1>2, <1>3, <1>5 DEF E!TypeOK
<1>7. ASSUME NEW k \in E!Stores \ raced
      PROVE  store'[k] = entered'[k] /\ ReadAnew(k)'
  <2>1. store[k] = entered[k] /\ ReadAnew(k)
    BY DEF ClientInv, StoreInv
  <2> QED
    BY <1>1, <1>2, <1>3, <2>1 DEF ReadAnew
<1>8. ASSUME Account \notin raced, NEW d \in Devices \ spoiled
      PROVE  Uses(d)' \/ Forgotten(d)'
  <2>1. Uses(d) \/ Forgotten(d)
    BY <1>8 DEF ClientInv
  <2>2. CASE Uses(d)
    BY <1>3, <1>5, <2>2 DEF Uses, E!resolveRtspAccount
  <2>3. CASE Forgotten(d)
    <3>1. PICK o \in Calls : /\ call[o].phase = "rereading"
                             /\ call[o].key = Account /\ call[o].device = d
      BY <2>3 DEF Forgotten
    <3>2. CASE o = c
      BY <1>5, <3>1, <3>2 DEF Uses
    <3>3. CASE o # c
      BY <1>2, <3>1, <3>3 DEF Forgotten
    <3> QED
      BY <3>2, <3>3
  <2> QED
    BY <2>1, <2>2, <2>3
<1> QED
  BY <1>3, <1>6, <1>7, <1>8 DEF ClientInv, StoreInv

(* A store written back holds what it held, and the entry of the action;   *)
(* the client of that camera is forgotten next, unless the answer is lost. *)
LEMMA WriteKept ==
  ASSUME ClientInv, NEW c \in Calls, E!Writes(c) \/ E!WriteUnanswered(c)
  PROVE  ClientInv'
<1>0. /\ E!TypeOK /\ StoreInv /\ call[c].phase = "writing" /\ E!Stored(c)
  BY DEF ClientInv, StoreInv, E!Writes, E!WriteUnanswered
<1> DEFINE key == call[c].key
           device == call[c].device
<1>1. key \in E!Stores /\ device \in Devices
  BY <1>0, CallTypes DEF E!Writing
<1>2. PICK r \in {E!Idle} \cup E!Action :
        /\ call' = [call EXCEPT ![c] = r]
        /\ \/ r.phase = "rereading" /\ r.key = key /\ r.device = device
           \/ device \in spoiled'
  <2>1. CASE E!Writes(c)
    BY <1>0, <2>1, CallSteps
  <2>2. CASE E!WriteUnanswered(c)
    BY <2>2 DEF E!WriteUnanswered, E!Done
  <2> QED
    BY <2>1, <2>2
<1>3. /\ call' \in [Calls -> {E!Idle} \cup E!Action \cup E!Writing]
      /\ call'[c] = r /\ \A o \in Calls \ {c} : call'[o] = call[o]
  BY <1>0, <1>2, CallGoesOn
<1>4. r.phase # "writing"
  BY DEF E!Idle, E!Action
<1>5. /\ UNCHANGED <<form, memory, updating, building, ptz>>
      /\ spoiled \subseteq spoiled' /\ spoiled' \subseteq Devices
  BY <1>0, <1>1 DEF E!Writes, E!WriteUnanswered, E!clients, E!TypeOK
<1>6. /\ {store', entered'} \subseteq E!Map
      /\ raced \subseteq raced' /\ raced' \subseteq E!Stores
      /\ \A k \in E!Stores \ {key} :
           store'[k] = store[k] /\ entered'[k] = entered[k]
      /\ key \notin raced' =>
           /\ store'[key] = entered'[key]
           /\ store'[key] = [store[key] EXCEPT ![device] = call[c].value]
           /\ \A o \in Calls \ {c} :
                ~(call[o].phase = "writing" /\ call[o].key = key)
  BY <1>0, StoredEntry
<1>7. E!TypeOK'
  BY <1>0, <1>3, <1>5, <1>6 DEF E!TypeOK
<1> HIDE DEF key, device
<1>8. ASSUME NEW k \in E!Stores \ raced'
      PROVE  store'[k] = entered'[k] /\ ReadAnew(k)'
  <2>1. CASE k = key
    <3>1. ASSUME NEW o \in Calls, call'[o].phase = "writing", call'[o].key = k
          PROVE  FALSE
      BY <1>3, <1>4, <1>6, <1>8, <2>1, <3>1
    <3> QED
      BY <1>6, <1>8, <2>1, <3>1 DEF ReadAnew
  <2>2. CASE k # key
    <3>1. store[k] = entered[k] /\ ReadAnew(k)
      BY <1>0, <1>6 DEF StoreInv
    <3>2. store'[k] = store[k] /\ entered'[k] = entered[k]
      BY <1>6, <2>2
    <3> QED
      BY <1>3, <1>4, <3>1, <3>2 DEF ReadAnew
  <2> QED
    BY <2>1, <2>2
<1>9. ASSUME Account \notin raced', NEW d \in Devices \ spoiled'
      PROVE  Uses(d)' \/ Forgotten(d)'
  <2>1. Uses(d) \/ Forgotten(d)
    BY <1>5, <1>6, <1>9 DEF ClientInv
  <2>2. CASE Forgotten(d)
    <3>1. PICK o \in Calls : /\ call[o].phase = "rereading"
                             /\ call[o].key = Account /\ call[o].device = d
      BY <2>2 DEF Forgotten
    <3>2. o # c
      BY <1>0, <3>1
    <3> QED
      BY <1>3, <3>1, <3>2 DEF Forgotten
  <2>3. CASE Uses(d) /\ key = Account /\ device = d
    <3>1. r.phase = "rereading" /\ r.key = Account /\ r.device = d
      BY <1>2, <1>9, <2>3
    <3> QED
      BY <1>3, <3>1 DEF Forgotten
  <2>4. CASE Uses(d) /\ ~(key = Account /\ device = d)
    <3>1. Account \in E!Stores /\ store \in [E!Stores -> [Devices -> E!Entry]]
      BY <1>0 DEF Account, E!Stores, E!TypeOK, E!Map
    <3>2. store'[Account][d] = store[Account][d]
      <4>1. CASE key = Account
        BY <1>1, <1>6, <1>9, <2>4, <3>1, <4>1
      <4>2. CASE key # Account
        BY <1>6, <3>1, <4>2
      <4> QED
        BY <4>1, <4>2
    <3> QED
      BY <1>5, <2>4, <3>2 DEF Uses, E!resolveRtspAccount, Account
  <2> QED
    BY <2>1, <2>2, <2>3, <2>4
<1> QED
  BY <1>7, <1>8, <1>9 DEF ClientInv, StoreInv

(* The form, and the clients built from what was last read.                *)
LEMMA ClientsKept ==
  ASSUME ClientInv,
         \/ \E v \in E!Entry : E!SavesForm(v)
         \/ E!FormRead
         \/ \E d \in Devices : E!AsksClient(d) \/ E!Builds(d)
  PROVE  ClientInv'
<1> USE DEF E!held, E!clients, E!histories
<1>0. E!TypeOK /\ StoreInv
  BY DEF ClientInv, StoreInv
<1>1. UNCHANGED <<store, call, entered, raced>>
  BY DEF E!SavesForm, E!FormRead, E!AsksClient, E!Builds
<1>2. \A k \in E!Stores \ raced' : store'[k] = entered'[k] /\ ReadAnew(k)'
  BY <1>0, <1>1 DEF StoreInv, ReadAnew
<1>3. ASSUME NEW v \in E!Entry, E!SavesForm(v)
      PROVE  ClientInv'
  <2>1. /\ form' = v /\ updating' = TRUE
        /\ ptz' = [d \in Devices |-> None]
        /\ UNCHANGED <<memory, building, spoiled>>
    BY <1>3 DEF E!SavesForm
  <2>2. E!TypeOK'
    BY <1>0, <1>1, <2>1 DEF E!TypeOK, E!Entry
  <2> QED
    BY <1>2, <2>1, <2>2 DEF ClientInv, StoreInv, Uses
<1>4. CASE E!FormRead \/ \E d \in Devices : E!AsksClient(d)
  <2>1. /\ UNCHANGED <<form, ptz, spoiled>>
        /\ updating' \in BOOLEAN /\ building' \subseteq Devices
    BY <1>0, <1>4 DEF E!FormRead, E!AsksClient, E!TypeOK
  <2>2. memory' \in [store : E!Map, form : E!Entry]
    BY <1>0, <1>4, MemoryRead DEF E!FormRead, E!AsksClient
  <2>3. E!TypeOK'
    BY <1>0, <1>1, <2>1, <2>2 DEF E!TypeOK
  <2>4. \A d \in Devices : /\ Uses(d)' <=> Uses(d)
                           /\ Forgotten(d)' <=> Forgotten(d)
    BY <1>1, <2>1 DEF Uses, Forgotten, E!resolveRtspAccount
  <2> QED
    BY <1>1, <1>2, <2>1, <2>3, <2>4 DEF ClientInv, StoreInv
<1>5. ASSUME NEW d \in Devices, E!Builds(d)
      PROVE  ClientInv'
  <2> DEFINE chosen == E!resolveRtspAccount(memory.store, memory.form, d)
  <2>1. chosen \in E!Entry
    BY <1>0, AccountUsed
  <2>2. /\ ptz' = IF chosen = None THEN ptz ELSE [ptz EXCEPT ![d] = chosen]
        /\ building' = building \ {d}
        /\ spoiled' = IF E!Behind THEN spoiled \cup {d} ELSE spoiled
        /\ UNCHANGED <<form, memory, updating>>
    BY <1>5 DEF E!Builds
  <2>3. E!Behind \/ chosen = E!resolveRtspAccount(store, form, d)
    BY DEF E!Behind
  <2> HIDE DEF chosen
  <2>4. /\ ptz' \in [Devices -> E!Entry]
        /\ ptz'[d] = ptz[d] \/ ptz'[d] = chosen
        /\ \A e \in Devices \ {d} : ptz'[e] = ptz[e]
        /\ spoiled \subseteq spoiled' /\ spoiled' \subseteq Devices
    BY <1>0, <2>1, <2>2 DEF E!TypeOK
  <2>5. E!TypeOK'
    BY <1>0, <1>1, <2>2, <2>4 DEF E!TypeOK
  <2>6. ASSUME Account \notin raced, NEW e \in Devices \ spoiled'
        PROVE  Uses(e)' \/ Forgotten(e)'
    <3>1. Uses(e) \/ Forgotten(e)
      BY <2>4, <2>6 DEF ClientInv
    <3>2. Forgotten(e) => Forgotten(e)'
      BY <1>1 DEF Forgotten
    <3>3. Uses(e) /\ ptz'[e] = ptz[e] => Uses(e)'
      BY <1>1, <2>2 DEF Uses, E!resolveRtspAccount
    <3>4. ASSUME e = d, ptz'[e] = chosen
          PROVE  Uses(e)'
      <4>1. ~E!Behind
        BY <2>2, <2>6, <3>4
      <4> QED
        BY <1>1, <2>2, <2>3, <3>4, <4>1 DEF Uses, E!resolveRtspAccount
    <3> QED
      BY <2>4, <3>1, <3>2, <3>3, <3>4
  <2> QED
    BY <1>1, <1>2, <2>5, <2>6 DEF ClientInv, StoreInv
<1> QED
  BY <1>3, <1>4, <1>5

LEMMA ClientKept ==
  ASSUME ClientInv, [E!Next]_(E!vars)
  PROVE  ClientInv'
<1>1. CASE UNCHANGED E!vars
  <2>1. UNCHANGED <<store, form, memory, call, updating, building, ptz,
                    entered, raced, spoiled>>
    BY <1>1 DEF E!vars, E!held, E!clients, E!histories
  <2> QED
    BY <2>1 DEF ClientInv, StoreInv, E!TypeOK, ReadAnew, Uses, Forgotten,
                E!resolveRtspAccount
<1>2. CASE E!Next
  BY <1>2, AsideKept, RereadKept, WriteKept, ClientsKept DEF E!Next
<1> QED
  BY <1>1, <1>2

LEMMA ClientHolds == Spec => []ClientInv
<1>1. E!Init => ClientInv
  <2> SUFFICES ASSUME E!Init PROVE ClientInv
    OBVIOUS
  <2>1. E!Empty \in E!Map /\ None \in E!Entry
    BY DEF E!Empty, E!Map, E!Entry
  <2>2. memory \in [store : E!Map, form : E!Entry]
    BY <2>1 DEF E!Init
  <2>3. E!Idle.phase = "free"
    BY DEF E!Idle
  <2>4. /\ call \in [Calls -> {E!Idle} \cup E!Action \cup E!Writing]
        /\ \A c \in Calls : call[c].phase = "free"
    BY <2>3 DEF E!Init
  <2>5. ptz \in [Devices -> E!Entry] /\ \A d \in Devices : ptz[d] = None
    BY <2>1 DEF E!Init
  <2>6. E!TypeOK
    BY <2>1, <2>2, <2>4, <2>5 DEF E!Init, E!TypeOK
  <2> QED
    BY <2>4, <2>5, <2>6 DEF E!Init, ClientInv, StoreInv, ReadAnew, Uses
<1> QED
  BY <1>1, ClientKept, Initially, ComponentSteps, PTL DEF Spec

(* An entry saved is there, whatever was saved, removed or failed since,   *)
(* unless two actions held a reading of its store at once (app.js,         *)
(* writeStoreEntry).                                                       *)
THEOREM EntriesKeptHolds == Spec => []EntriesKept
<1>1. ClientInv => EntriesKept
  BY DEF ClientInv, StoreInv, EntriesKept, E!EntriesKept
<1> QED
  BY <1>1, ClientHolds, PTL

(* With nothing under way, a PTZ client uses the account saved for its     *)
(* camera, or for all of them (app.js, getPtzClient), but for the races    *)
(* and the half-done calls EntryStore names.                               *)
THEOREM SavedAccountUsedHolds == Spec => []SavedAccountUsed
<1>1. ClientInv => SavedAccountUsed
  <2> SUFFICES ASSUME ClientInv, E!AtRest, Account \notin raced,
                      NEW d \in Devices \ spoiled
               PROVE  Uses(d)
    BY DEF SavedAccountUsed, E!SavedAccountUsed, Account, Uses
  <2>1. ~Forgotten(d)
    BY DEF E!AtRest, Forgotten, E!Idle
  <2> QED
    BY <2>1 DEF ClientInv
<1> QED
  BY <1>1, ClientHolds, PTL

---------------------------------------------------------------------------
(* Ptz: a command that awaits a discovery has a client, which is being     *)
(* discovered.                                                             *)
PtzInv ==
  P!TypeOK /\ \A c \in Commands : ptzPhase[c] = "discovering" => uses[c] # None

LEMMA BlankClient ==
  P!Blank \in [service : BOOLEAN, profile : BOOLEAN, discovered : BOOLEAN]
  /\ ~P!Blank.discovered
BY DEF P!Blank

(* A movement starts, or joins, the discovery of its client.               *)
LEMMA Begun ==
  ASSUME PtzInv, NEW c \in Commands, NEW what \in P!Kinds, NEW k \in Clients,
         P!With(c, what, k),
         uses' = [uses EXCEPT ![c] = k], client' = client
  PROVE  /\ ptzPhase' \in [Commands -> {"idle", "lookup", "discovering", "sent",
                                        "done", "failed"}]
         /\ stage' \in [Clients -> {"none", "capabilities", "profiles"}]
         /\ \A d \in Commands : ptzPhase'[d] = "discovering" =>
              uses'[d] # None /\ stage'[uses'[d]] # "none"
         /\ \A j \in Clients : stage'[j] # "none" => ~client'[j].discovered
<1> USE DEF PtzInv, P!TypeOK
<1>0. k # None
  BY Assumed DEF P!PtzAssumption
<1>1. CASE what \in {"step", "preset"} /\ ~client[k].discovered
  <2>1. /\ ptzPhase' = [ptzPhase EXCEPT ![c] = "discovering"]
        /\ stage' = [stage EXCEPT ![k] =
                       IF stage[k] = "none" THEN "capabilities" ELSE stage[k]]
    BY <1>1 DEF P!With, P!Discovers
  <2>2. /\ stage'[k] # "none"
        /\ \A j \in Clients \ {k} : stage'[j] = stage[j]
    BY <2>1
  <2> QED
    BY <1>0, <1>1, <2>1, <2>2
<1>2. CASE what \in {"stop", "unknown"} \/ client[k].discovered
  <2>1. /\ \E p \in {"sent", "failed", "done"} :
             ptzPhase' = [ptzPhase EXCEPT ![c] = p]
        /\ stage' = stage
    BY <1>2 DEF P!With, P!Discovers, P!Stops, P!Kinds
  <2> QED
    BY <2>1
<1> QED
  BY <1>1, <1>2 DEF P!Kinds

(* A discovery that ends leaves no command awaiting it.                    *)
LEMMA Settled ==
  ASSUME PtzInv, NEW k \in Clients, NEW failed \in BOOLEAN,
         ptzPhase' = [c \in Commands |->
                        IF ~P!Awaits(c, k) THEN ptzPhase[c]
                        ELSE IF failed THEN "failed" ELSE "sent"],
         stage' = [stage EXCEPT ![k] = "none"],
         client' \in [Clients -> [service : BOOLEAN, profile : BOOLEAN,
                                  discovered : BOOLEAN]],
         \A j \in Clients \ {k} : client'[j] = client[j],
         UNCHANGED <<cached, kind, uses, motorized, up, outages, saves>>
  PROVE  PtzInv'
<1> USE DEF PtzInv, P!TypeOK
<1>1. /\ ptzPhase' \in [Commands -> {"idle", "lookup", "discovering", "sent",
                                     "done", "failed"}]
      /\ stage' \in [Clients -> {"none", "capabilities", "profiles"}]
  OBVIOUS
<1>2. ASSUME NEW c \in Commands, ptzPhase'[c] = "discovering"
      PROVE  uses'[c] # None /\ stage'[uses'[c]] # "none"
  <2>1. ptzPhase[c] = "discovering" /\ uses[c] # k
    BY <1>2 DEF P!Awaits
  <2> QED
    BY <2>1
<1>3. \A j \in Clients : stage'[j] # "none" => ~client'[j].discovered
  OBVIOUS
<1> QED
  BY <1>1, <1>2, <1>3

LEMMA PtzKept ==
  ASSUME PtzInv, [P!Next]_(P!vars)
  PROVE  PtzInv'
<1> USE DEF P!clients, P!commands, P!camera, P!bounds
<1>0. /\ None \notin Clients /\ MaxOutages \in Nat /\ MaxSaves \in Nat
  BY Assumed DEF P!PtzAssumption
<1>1. ASSUME NEW c \in Commands, NEW what \in P!Kinds, P!Commanded(c, what)
      PROVE  PtzInv'
  <2>1. /\ UNCHANGED <<cached, client, motorized, up, outages, saves>>
        /\ kind' = [kind EXCEPT ![c] = what]
        /\ uses' = [uses EXCEPT ![c] = cached]
    BY <1>1 DEF P!Commanded
  <2>2. CASE cached = None
    <3>1. ptzPhase' = [ptzPhase EXCEPT ![c] = "lookup"] /\ stage' = stage
      BY <1>1, <2>2 DEF P!Commanded
    <3> QED
      BY <2>1, <2>2, <3>1 DEF PtzInv, P!TypeOK
  <2>3. CASE cached # None
    <3>1. P!With(c, what, cached) /\ cached \in Clients
      BY <1>1, <2>3 DEF P!Commanded, PtzInv, P!TypeOK
    <3>2. /\ ptzPhase' \in [Commands -> {"idle", "lookup", "discovering",
                                         "sent", "done", "failed"}]
          /\ stage' \in [Clients -> {"none", "capabilities", "profiles"}]
          /\ \A d \in Commands : ptzPhase'[d] = "discovering" =>
               uses'[d] # None /\ stage'[uses'[d]] # "none"
          /\ \A j \in Clients : stage'[j] # "none" => ~client'[j].discovered
      BY <2>1, <3>1, Begun
    <3> QED
      BY <2>1, <3>2 DEF PtzInv, P!TypeOK
  <2> QED
    BY <2>2, <2>3
<1>2. ASSUME NEW c \in Commands, NEW k \in Clients, P!getPtzClient(c, k)
      PROVE  PtzInv'
  <2>1. /\ UNCHANGED <<client, kind, motorized, up, outages, saves>>
        /\ cached' = k /\ uses' = [uses EXCEPT ![c] = k]
        /\ P!With(c, kind[c], k)
    BY <1>2 DEF P!getPtzClient
  <2>2. kind[c] \in P!Kinds
    BY DEF PtzInv, P!TypeOK
  <2>3. /\ ptzPhase' \in [Commands -> {"idle", "lookup", "discovering", "sent",
                                       "done", "failed"}]
        /\ stage' \in [Clients -> {"none", "capabilities", "profiles"}]
        /\ \A d \in Commands : ptzPhase'[d] = "discovering" =>
             uses'[d] # None /\ stage'[uses'[d]] # "none"
        /\ \A j \in Clients : stage'[j] # "none" => ~client'[j].discovered
    BY <2>1, <2>2, Begun
  <2> QED
    BY <2>1, <2>3 DEF PtzInv, P!TypeOK
<1>3. ASSUME NEW c \in Commands, P!Answered(c) \/ P!NotAnswered(c)
      PROVE  PtzInv'
  <2>1. /\ UNCHANGED <<cached, client, stage, kind, uses>>
        /\ UNCHANGED <<motorized, up, outages, saves>>
        /\ \E p \in {"done", "failed"} : ptzPhase' = [ptzPhase EXCEPT ![c] = p]
    BY <1>3 DEF P!Answered, P!NotAnswered
  <2> QED
    BY <2>1 DEF PtzInv, P!TypeOK
<1>4. ASSUME NEW c \in Commands, P!Over(c)
      PROVE  PtzInv'
  <2>1. /\ UNCHANGED <<cached, stage, motorized, up, outages, saves>>
        /\ ptzPhase' = [ptzPhase EXCEPT ![c] = "idle"]
        /\ kind' = [kind EXCEPT ![c] = "step"]
        /\ uses' = [uses EXCEPT ![c] = None]
        /\ client' = client \/ client' = [client EXCEPT ![uses[c]] = P!Blank]
    BY <1>4 DEF P!Over
  <2>2. /\ client' \in [Clients -> [service : BOOLEAN, profile : BOOLEAN,
                                    discovered : BOOLEAN]]
        /\ \A j \in Clients : client'[j] = client[j] \/ client'[j] = P!Blank
    BY <2>1, BlankClient DEF PtzInv, P!TypeOK
  <2>3. "step" \in P!Kinds
    BY DEF P!Kinds
  <2> QED
    BY <2>1, <2>2, <2>3, BlankClient DEF PtzInv, P!TypeOK
<1>5. ASSUME NEW k \in Clients,
             P!Fixed(k) \/ P!HasProfile(k) \/ P!DiscoveryFails(k)
      PROVE  PtzInv'
  <2> DEFINE Known == [service : BOOLEAN, profile : BOOLEAN,
                       discovered : BOOLEAN]
  <2>1. PICK what \in Known, failed \in BOOLEAN :
          /\ client' = client \/ client' = [client EXCEPT ![k] = what]
          /\ ptzPhase' = [c \in Commands |->
                            IF ~P!Awaits(c, k) THEN ptzPhase[c]
                            ELSE IF failed THEN "failed" ELSE "sent"]
    <3>1. CASE P!Fixed(k)
      <4> DEFINE what == P!Immovable
      <4>1. what \in Known /\ what.service = FALSE
        BY DEF P!Immovable, P!Blank
      <4>2. P!Learns(k, what)
        BY <3>1 DEF P!Fixed
      <4> HIDE DEF what
      <4>3. /\ client' = [client EXCEPT ![k] = what]
            /\ ptzPhase' = [c \in Commands |->
                              IF ~P!Awaits(c, k) THEN ptzPhase[c]
                              ELSE IF TRUE THEN "failed" ELSE "sent"]
        BY <4>1, <4>2 DEF P!Learns
      <4> QED
        BY <4>1, <4>3
    <3>2. CASE P!HasProfile(k)
      <4> DEFINE what == P!Movable
      <4>1. what \in Known /\ what.service = TRUE
        BY DEF P!Movable
      <4>2. P!Learns(k, what)
        BY <3>2 DEF P!HasProfile
      <4> HIDE DEF what
      <4>3. /\ client' = [client EXCEPT ![k] = what]
            /\ ptzPhase' = [c \in Commands |->
                              IF ~P!Awaits(c, k) THEN ptzPhase[c]
                              ELSE IF FALSE THEN "failed" ELSE "sent"]
        BY <4>1, <4>2 DEF P!Learns
      <4> QED
        BY <4>1, <4>3
    <3>3. CASE P!DiscoveryFails(k)
      <4>1. /\ client' = client
            /\ ptzPhase' = [c \in Commands |->
                              IF ~P!Awaits(c, k) THEN ptzPhase[c]
                              ELSE IF TRUE THEN "failed" ELSE "sent"]
        BY <3>3 DEF P!DiscoveryFails
      <4> QED
        BY <4>1, BlankClient
    <3> QED
      BY <1>5, <3>1, <3>2, <3>3
  <2>2. /\ stage' = [stage EXCEPT ![k] = "none"]
        /\ UNCHANGED <<cached, kind, uses, motorized, up, outages, saves>>
    BY <1>5 DEF P!Fixed, P!HasProfile, P!DiscoveryFails, P!Learns
  <2>3. /\ client' \in [Clients -> Known]
        /\ \A j \in Clients \ {k} : client'[j] = client[j]
    BY <2>1 DEF PtzInv, P!TypeOK
  <2> QED
    BY <2>1, <2>2, <2>3, Settled
<1>6. ASSUME NEW k \in Clients, P!HasService(k)
      PROVE  PtzInv'
  BY <1>6 DEF P!HasService, PtzInv, P!TypeOK
<1>7. CASE P!ConfigSaved
  <2>1. /\ UNCHANGED <<stage, kind, uses, ptzPhase, motorized, up, outages>>
        /\ cached' = None /\ saves < MaxSaves /\ saves' = saves + 1
        /\ client' = client \/ client' = [client EXCEPT ![cached] = P!Blank]
    BY <1>7 DEF P!ConfigSaved
  <2>2. /\ client' \in [Clients -> [service : BOOLEAN, profile : BOOLEAN,
                                    discovered : BOOLEAN]]
        /\ \A j \in Clients : client'[j] = client[j] \/ client'[j] = P!Blank
    BY <2>1, BlankClient DEF PtzInv, P!TypeOK
  <2>3. saves' \in 0..MaxSaves
    BY <1>0, <2>1 DEF PtzInv, P!TypeOK
  <2> QED
    BY <2>1, <2>2, <2>3, BlankClient DEF PtzInv, P!TypeOK
<1>8. CASE P!GoesAway
  <2>1. outages' \in 0..MaxOutages
    BY <1>0, <1>8 DEF P!GoesAway, PtzInv, P!TypeOK
  <2> QED
    BY <1>8, <2>1 DEF P!GoesAway, PtzInv, P!TypeOK
<1>9. CASE P!ComesBack
  BY <1>9 DEF P!ComesBack, PtzInv, P!TypeOK
<1>10. CASE UNCHANGED P!vars
  BY <1>10 DEF P!vars, PtzInv, P!TypeOK
<1> QED
  BY <1>1, <1>2, <1>3, <1>4, <1>5, <1>6, <1>7, <1>8, <1>9, <1>10
  DEF P!Next, P!CommandSteps, P!DiscoverySteps

LEMMA PtzHolds == Spec => []PtzInv
<1>1. P!Init => PtzInv
  <2>1. 0 \in 0..MaxOutages /\ 0 \in 0..MaxSaves
    BY Assumed DEF P!PtzAssumption
  <2> QED
    BY <2>1, BlankClient DEF P!Init, PtzInv, P!TypeOK, P!Kinds
<1> QED
  BY <1>1, PtzKept, Initially, ComponentSteps, PTL DEF Spec

---------------------------------------------------------------------------
(* The discoveries of Ptz implement MemoizedWork.  A client knows all of   *)
(* its camera or nothing, a discovery in flight is awaited, and who sends  *)
(* has a client.                                                           *)
Shared ==
  /\ \A k \in Clients : client[k] \in {P!Blank, P!Immovable, P!Movable}
  /\ \A k \in Clients : stage[k] # "none" => \E c \in Commands : P!Awaits(c, k)
  /\ \A c \in Commands : ptzPhase[c] = "sent" => uses[c] # None

(* The state of MemoizedWork.                                              *)
Answer == [k \in Clients |-> P!KnownOf(k)]
Waiters == [k \in Clients |-> {c \in Commands : P!Awaits(c, k)}]
Actors == [k \in Clients |->
            {c \in Commands : ptzPhase[c] = "sent" /\ uses[c] = k}]

Mapped == [P!Memo!Next]_(P!Memo!vars)

LEMMA ThreeAnswers ==
  /\ P!Blank # P!Immovable /\ P!Blank # P!Movable /\ P!Immovable # P!Movable
  /\ ~P!Blank.service /\ ~P!Immovable.service /\ P!Movable.service
  /\ ~P!Blank.discovered /\ P!Immovable.discovered /\ P!Movable.discovered
BY DEF P!Blank, P!Immovable, P!Movable

LEMMA AnswersAre ==
  ASSUME NEW k \in Clients
  PROVE  /\ client[k] = P!Blank => Answer[k] = "unknown"
         /\ client[k] = P!Immovable => Answer[k] = "unable"
         /\ client[k] = P!Movable => Answer[k] = "able"
BY ThreeAnswers DEF Answer, P!KnownOf

(* Each step of MemoizedWork, on the state mapped.                         *)
LEMMA Stutters ==
  ASSUME UNCHANGED <<Answer, Waiters, Actors>>
  PROVE  Mapped
BY DEF Mapped, P!Memo!vars, Answer, Waiters, Actors

LEMMA Asks ==
  ASSUME NEW c \in Commands, NEW k \in Clients,
         \A j \in Clients : c \notin Waiters[j] \cup Actors[j],
         Answer' = Answer,
         \/ /\ Answer[k] = "unknown" /\ Actors' = Actors
            /\ Waiters' = [Waiters EXCEPT ![k] = @ \cup {c}]
         \/ /\ Answer[k] = "able" /\ Waiters' = Waiters
            /\ Actors' = [Actors EXCEPT ![k] = @ \cup {c}]
  PROVE  Mapped
<1>1. P!Memo!Ask(c, k)
  BY DEF P!Memo!Ask, P!Memo!Busy, Answer, Waiters, Actors
<1> QED
  BY <1>1 DEF Mapped, P!Memo!Next

LEMMA Finishes ==
  ASSUME NEW c \in Commands, NEW k \in Clients, c \in Actors[k],
         Answer' = Answer, Waiters' = Waiters,
         Actors' = [Actors EXCEPT ![k] = @ \ {c}]
  PROVE  Mapped
<1>1. P!Memo!Finish(c, k)
  BY DEF P!Memo!Finish, Answer, Waiters, Actors
<1> QED
  BY <1>1 DEF Mapped, P!Memo!Next

LEMMA Forgets ==
  ASSUME NEW k \in Clients, Waiters[k] = {}, Actors[k] = {},
         Answer' = [Answer EXCEPT ![k] = "unknown"],
         Waiters' = Waiters, Actors' = Actors
  PROVE  Mapped
<1>1. P!Memo!Forget(k)
  BY DEF P!Memo!Forget, Answer, Waiters, Actors
<1> QED
  BY <1>1 DEF Mapped, P!Memo!Next

LEMMA Tells ==
  ASSUME NEW k \in Clients, Waiters[k] # {},
         Waiters' = [Waiters EXCEPT ![k] = {}],
         \/ Answer' = Answer /\ Actors' = Actors
         \/ /\ Answer[k] = "unknown" /\ Actors' = Actors
            /\ Answer' = [Answer EXCEPT ![k] = "unable"]
         \/ /\ Answer[k] = "unknown"
            /\ Answer' = [Answer EXCEPT ![k] = "able"]
            /\ Actors' = [Actors EXCEPT ![k] = @ \cup Waiters[k]]
  PROVE  Mapped
<1>1. CASE Answer' = Answer /\ Actors' = Actors
  <2>1. P!Memo!Fail(k)
    BY <1>1 DEF P!Memo!Fail, Answer, Waiters, Actors
  <2> QED
    BY <2>1 DEF Mapped, P!Memo!Next
<1>2. CASE /\ Answer[k] = "unknown" /\ Actors' = Actors
           /\ Answer' = [Answer EXCEPT ![k] = "unable"]
  <2>1. P!Memo!Learn(k, "unable")
    BY <1>2 DEF P!Memo!Learn, Answer, Waiters, Actors
  <2> QED
    BY <2>1 DEF Mapped, P!Memo!Next
<1>3. CASE /\ Answer[k] = "unknown"
           /\ Answer' = [Answer EXCEPT ![k] = "able"]
           /\ Actors' = [Actors EXCEPT ![k] = @ \cup Waiters[k]]
  <2>1. P!Memo!Learn(k, "able")
    BY <1>3 DEF P!Memo!Learn, Answer, Waiters, Actors
  <2> QED
    BY <2>1 DEF Mapped, P!Memo!Next
<1> QED
  BY <1>1, <1>2, <1>3

(* A client that learns changes its answer and no other.                   *)
LEMMA Learnt ==
  ASSUME PtzInv, NEW k \in Clients, NEW what,
         client' = [client EXCEPT ![k] = what]
  PROVE  /\ what = P!Blank => Answer' = [Answer EXCEPT ![k] = "unknown"]
         /\ what = P!Immovable => Answer' = [Answer EXCEPT ![k] = "unable"]
         /\ what = P!Movable => Answer' = [Answer EXCEPT ![k] = "able"]
<1>1. client'[k] = what /\ \A j \in Clients \ {k} : client'[j] = client[j]
  BY DEF PtzInv, P!TypeOK
<1> QED
  BY <1>1, ThreeAnswers DEF Answer, P!KnownOf

(* A command takes its client: it joins the discovery, acts, or neither.   *)
LEMMA Joins ==
  ASSUME PtzInv, Shared, NEW c \in Commands, NEW what \in P!Kinds,
         NEW k \in Clients, ptzPhase[c] \in {"idle", "lookup"},
         P!With(c, what, k), uses' = [uses EXCEPT ![c] = k], client' = client
  PROVE  Shared' /\ Mapped
<1> USE DEF PtzInv, P!TypeOK
<1>0. k # None
  BY Assumed DEF P!PtzAssumption
<1>1. Answer' = Answer
  BY DEF Answer, P!KnownOf
<1>2. \A j \in Clients : c \notin Waiters[j] \cup Actors[j]
  BY DEF Waiters, Actors, P!Awaits
<1>3. CASE what \in {"step", "preset"} /\ ~client[k].discovered
  <2>1. /\ ptzPhase' = [ptzPhase EXCEPT ![c] = "discovering"]
        /\ stage' = [stage EXCEPT ![k] =
                       IF stage[k] = "none" THEN "capabilities" ELSE stage[k]]
    BY <1>3 DEF P!With, P!Discovers
  <2>2. \A d \in Commands, j \in Clients :
          P!Awaits(d, j)' <=> (P!Awaits(d, j) \/ (d = c /\ j = k))
    BY <2>1 DEF P!Awaits
  <2>3. Waiters' = [Waiters EXCEPT ![k] = @ \cup {c}]
    BY <2>2 DEF Waiters
  <2>4. Actors' = Actors
    BY <2>1 DEF Actors
  <2>5. Answer[k] = "unknown"
    BY <1>3, ThreeAnswers, AnswersAre DEF Shared
  <2>6. ASSUME NEW j \in Clients, stage'[j] # "none"
        PROVE  \E d \in Commands : P!Awaits(d, j)'
    <3>1. CASE j = k
      BY <2>2, <3>1
    <3>2. CASE j # k
      BY <2>1, <2>2, <2>6, <3>2 DEF Shared
    <3> QED
      BY <3>1, <3>2
  <2>7. Shared'
    <3>1. \A d \in Commands : ptzPhase'[d] = "sent" => uses'[d] # None
      BY <1>0, <2>1 DEF Shared
    <3> QED
      BY <2>6, <3>1 DEF Shared
  <2> QED
    BY <1>1, <1>2, <2>3, <2>4, <2>5, <2>7, Asks
<1>4. CASE what \in {"stop", "unknown"} \/ client[k].discovered
  <2>1. PICK p \in {"sent", "failed", "done"} :
          /\ ptzPhase' = [ptzPhase EXCEPT ![c] = p]
          /\ stage' = stage
          /\ p = "sent" => client[k].service
    BY <1>4 DEF P!With, P!Discovers, P!Stops, P!Kinds
  <2>2. \A d \in Commands, j \in Clients : P!Awaits(d, j)' <=> P!Awaits(d, j)
    BY <2>1 DEF P!Awaits
  <2>3. Waiters' = Waiters
    BY <2>2 DEF Waiters
  <2>4. Shared'
    <3>1. \A d \in Commands : ptzPhase'[d] = "sent" => uses'[d] # None
      BY <1>0, <2>1 DEF Shared
    <3> QED
      BY <2>1, <2>2, <3>1 DEF Shared
  <2>5. CASE p = "sent"
    <3>1. Answer[k] = "able"
      BY <2>1, <2>5, ThreeAnswers, AnswersAre DEF Shared
    <3>2. Actors' = [Actors EXCEPT ![k] = @ \cup {c}]
      BY <2>1, <2>5 DEF Actors
    <3> QED
      BY <1>1, <1>2, <2>3, <2>4, <3>1, <3>2, Asks
  <2>6. CASE p # "sent"
    <3>1. Actors' = Actors
      BY <2>1, <2>6 DEF Actors
    <3> QED
      BY <1>1, <2>3, <2>4, <3>1, Stutters
  <2> QED
    BY <2>5, <2>6
<1> QED
  BY <1>3, <1>4 DEF P!Kinds

(* A discovery ends: all who await it are told the same.                   *)
LEMMA Concludes ==
  ASSUME PtzInv, Shared, NEW k \in Clients,
         P!Fixed(k) \/ P!HasProfile(k) \/ P!DiscoveryFails(k)
  PROVE  Shared' /\ Mapped
<1> USE DEF PtzInv, P!TypeOK
<1>1. /\ stage[k] # "none" /\ stage' = [stage EXCEPT ![k] = "none"]
      /\ uses' = uses
  BY DEF P!Fixed, P!HasProfile, P!DiscoveryFails, P!Learns
<1>2. Waiters[k] # {} /\ Answer[k] = "unknown"
  <2>1. \E c \in Commands : P!Awaits(c, k)
    BY <1>1 DEF Shared
  <2>2. client[k] = P!Blank
    BY <1>1, ThreeAnswers DEF Shared
  <2> QED
    BY <2>1, <2>2, AnswersAre DEF Waiters
<1>3. PICK able \in BOOLEAN :
        /\ ptzPhase' = [c \in Commands |->
                          IF ~P!Awaits(c, k) THEN ptzPhase[c]
                          ELSE IF able THEN "sent" ELSE "failed"]
        /\ \/ client' = client /\ ~able
           \/ client' = [client EXCEPT ![k] = P!Immovable] /\ ~able
           \/ client' = [client EXCEPT ![k] = P!Movable] /\ able
  <2>1. CASE P!Fixed(k)
    <3>1. ptzPhase' = [c \in Commands |->
                        IF ~P!Awaits(c, k) THEN ptzPhase[c]
                        ELSE IF FALSE THEN "sent" ELSE "failed"]
      BY <2>1, ThreeAnswers DEF P!Fixed, P!Learns
    <3> QED
      BY <2>1, <3>1 DEF P!Fixed, P!Learns
  <2>2. CASE P!HasProfile(k)
    <3>1. ptzPhase' = [c \in Commands |->
                        IF ~P!Awaits(c, k) THEN ptzPhase[c]
                        ELSE IF TRUE THEN "sent" ELSE "failed"]
      BY <2>2, ThreeAnswers DEF P!HasProfile, P!Learns
    <3> QED
      BY <2>2, <3>1 DEF P!HasProfile, P!Learns
  <2>3. CASE P!DiscoveryFails(k)
    <3>1. ptzPhase' = [c \in Commands |->
                        IF ~P!Awaits(c, k) THEN ptzPhase[c]
                        ELSE IF FALSE THEN "sent" ELSE "failed"]
      BY <2>3 DEF P!DiscoveryFails
    <3> QED
      BY <2>3, <3>1 DEF P!DiscoveryFails
  <2> QED
    BY <2>1, <2>2, <2>3
<1>4. \A c \in Commands, j \in Clients :
        P!Awaits(c, j)' <=> (P!Awaits(c, j) /\ j # k)
  BY <1>1, <1>3 DEF P!Awaits
<1>5. Waiters' = [Waiters EXCEPT ![k] = {}]
  BY <1>4 DEF Waiters
<1>6. Shared'
  <2>1. \A j \in Clients : client'[j] \in {P!Blank, P!Immovable, P!Movable}
    BY <1>3 DEF Shared
  <2>2. \A j \in Clients : stage'[j] # "none" =>
          \E c \in Commands : P!Awaits(c, j)'
    BY <1>1, <1>4 DEF Shared
  <2>3. \A c \in Commands : ptzPhase'[c] = "sent" => uses'[c] # None
    BY <1>1, <1>3 DEF Shared, P!Awaits
  <2> QED
    BY <2>1, <2>2, <2>3 DEF Shared
<1>7. CASE ~able
  <2>1. Actors' = Actors
    BY <1>1, <1>3, <1>7 DEF Actors, P!Awaits
  <2>2. Answer' = Answer \/ Answer' = [Answer EXCEPT ![k] = "unable"]
    <3>1. CASE client' = client
      BY <3>1 DEF Answer, P!KnownOf
    <3>2. CASE client' = [client EXCEPT ![k] = P!Immovable]
      BY <3>2, Learnt
    <3> QED
      BY <1>3, <1>7, <3>1, <3>2
  <2> QED
    BY <1>2, <1>5, <1>6, <2>1, <2>2, Tells
<1>8. CASE able
  <2>1. Actors' = [Actors EXCEPT ![k] = @ \cup Waiters[k]]
    <3>1. \A c \in Commands, j \in Clients :
            (ptzPhase'[c] = "sent" /\ uses'[c] = j) <=>
              \/ ptzPhase[c] = "sent" /\ uses[c] = j
              \/ j = k /\ P!Awaits(c, k)
      BY <1>1, <1>3, <1>8 DEF P!Awaits
    <3> HIDE DEF PtzInv, P!TypeOK
    <3>2. \A j \in Clients :
            Actors'[j] = IF j = k THEN Actors[k] \cup Waiters[k] ELSE Actors[j]
      BY <3>1 DEF Actors, Waiters
    <3> QED
      BY <3>2 DEF Actors
  <2>2. Answer' = [Answer EXCEPT ![k] = "able"]
    BY <1>3, <1>8, Learnt
  <2> QED
    BY <1>2, <1>5, <1>6, <2>1, <2>2, Tells
<1> QED
  BY <1>7, <1>8

LEMMA PtzMapped ==
  ASSUME PtzInv, Shared, [P!Next]_(P!vars)
  PROVE  Shared' /\ Mapped
<1> USE DEF PtzInv, P!TypeOK, P!clients, P!commands, P!camera, P!bounds
<1>1. ASSUME NEW c \in Commands, NEW what \in P!Kinds, P!Commanded(c, what)
      PROVE  Shared' /\ Mapped
  <2>1. /\ ptzPhase[c] = "idle" /\ client' = client
        /\ uses' = [uses EXCEPT ![c] = cached]
    BY <1>1 DEF P!Commanded
  <2>2. CASE cached = None
    <3>1. ptzPhase' = [ptzPhase EXCEPT ![c] = "lookup"] /\ stage' = stage
      BY <1>1, <2>2 DEF P!Commanded
    <3>2. \A d \in Commands, j \in Clients :
            P!Awaits(d, j)' <=> P!Awaits(d, j)
      BY <2>1, <3>1 DEF P!Awaits
    <3>3. Answer' = Answer /\ Waiters' = Waiters
      BY <2>1, <3>2 DEF Answer, P!KnownOf, Waiters
    <3>4. Actors' = Actors
      BY <2>1, <3>1 DEF Actors
    <3>5. Shared'
      BY <2>1, <3>1, <3>2 DEF Shared
    <3> QED
      BY <3>3, <3>4, <3>5, Stutters
  <2>3. CASE cached # None
    <3>1. P!With(c, what, cached) /\ cached \in Clients
      BY <1>1, <2>3 DEF P!Commanded
    <3> QED
      BY <2>1, <3>1, Joins
  <2> QED
    BY <2>2, <2>3
<1>2. ASSUME NEW c \in Commands, NEW k \in Clients, P!getPtzClient(c, k)
      PROVE  Shared' /\ Mapped
  <2>1. /\ ptzPhase[c] = "lookup" /\ client' = client
        /\ uses' = [uses EXCEPT ![c] = k]
        /\ P!With(c, kind[c], k)
    BY <1>2 DEF P!getPtzClient
  <2>2. kind[c] \in P!Kinds
    OBVIOUS
  <2> QED
    BY <2>1, <2>2, Joins
<1>3. ASSUME NEW c \in Commands, P!Answered(c) \/ P!NotAnswered(c)
      PROVE  Shared' /\ Mapped
  <2>1. /\ ptzPhase[c] = "sent"
        /\ UNCHANGED <<client, stage, uses>>
    BY <1>3 DEF P!Answered, P!NotAnswered
  <2>2. PICK p \in {"done", "failed"} : ptzPhase' = [ptzPhase EXCEPT ![c] = p]
    BY <1>3 DEF P!Answered, P!NotAnswered
  <2>3. \A d \in Commands, j \in Clients : P!Awaits(d, j)' <=> P!Awaits(d, j)
    BY <2>1, <2>2 DEF P!Awaits
  <2>4. Answer' = Answer /\ Waiters' = Waiters
    BY <2>1, <2>3 DEF Answer, P!KnownOf, Waiters
  <2>5. uses[c] \in Clients /\ c \in Actors[uses[c]]
    BY <2>1 DEF Shared, Actors
  <2>6. Actors' = [Actors EXCEPT ![uses[c]] = @ \ {c}]
    BY <2>1, <2>2, <2>5 DEF Actors
  <2>7. Shared'
    BY <2>1, <2>2, <2>3 DEF Shared
  <2> QED
    BY <2>4, <2>5, <2>6, <2>7, Finishes
<1>4. ASSUME NEW c \in Commands, P!Over(c)
      PROVE  Shared' /\ Mapped
  <2>1. /\ ptzPhase[c] \in {"done", "failed"} /\ stage' = stage
        /\ ptzPhase' = [ptzPhase EXCEPT ![c] = "idle"]
        /\ uses' = [uses EXCEPT ![c] = None]
        /\ \/ client' = client
           \/ /\ client' = [client EXCEPT ![uses[c]] = P!Blank]
              /\ \A d \in Commands \ {c} : uses[d] # uses[c]
    BY <1>4 DEF P!Over
  <2>2. \A d \in Commands, j \in Clients : P!Awaits(d, j)' <=> P!Awaits(d, j)
    BY <2>1 DEF P!Awaits
  <2>3. Waiters' = Waiters
    BY <2>2 DEF Waiters
  <2>4. Actors' = Actors
    BY <2>1 DEF Actors
  <2>5. Shared'
    <3>1. \A j \in Clients : client'[j] \in {P!Blank, P!Immovable, P!Movable}
      BY <2>1 DEF Shared
    <3> QED
      BY <2>1, <2>2, <3>1 DEF Shared
  <2>6. CASE client' = client
    <3>1. Answer' = Answer
      BY <2>6 DEF Answer, P!KnownOf
    <3> QED
      BY <2>3, <2>4, <2>5, <3>1, Stutters
  <2>7. CASE client' # client
    <3>1. /\ uses[c] \in Clients
          /\ client' = [client EXCEPT ![uses[c]] = P!Blank]
          /\ \A d \in Commands \ {c} : uses[d] # uses[c]
      BY <2>1, <2>7
    <3>2. Waiters[uses[c]] = {} /\ Actors[uses[c]] = {}
      BY <2>1, <3>1 DEF Waiters, Actors, P!Awaits
    <3>3. Answer' = [Answer EXCEPT ![uses[c]] = "unknown"]
      BY <3>1, Learnt
    <3> QED
      BY <2>3, <2>4, <2>5, <3>1, <3>2, <3>3, Forgets
  <2> QED
    BY <2>6, <2>7
<1>5. ASSUME NEW k \in Clients,
             P!Fixed(k) \/ P!HasProfile(k) \/ P!DiscoveryFails(k)
      PROVE  Shared' /\ Mapped
  BY <1>5, Concludes
<1>6. ASSUME NEW k \in Clients, P!HasService(k)
      PROVE  Shared' /\ Mapped
  <2>1. /\ UNCHANGED <<client, ptzPhase, uses>>
        /\ stage[k] # "none" /\ stage' = [stage EXCEPT ![k] = "profiles"]
    BY <1>6 DEF P!HasService
  <2>2. UNCHANGED <<Answer, Waiters, Actors>>
    BY <2>1 DEF Answer, P!KnownOf, Waiters, Actors, P!Awaits
  <2>3. Shared'
    BY <2>1 DEF Shared, P!Awaits
  <2> QED
    BY <2>2, <2>3, Stutters
<1>7. CASE P!ConfigSaved
  <2>1. UNCHANGED <<stage, ptzPhase, uses>>
    BY <1>7 DEF P!ConfigSaved
  <2>2. Waiters' = Waiters /\ Actors' = Actors
    BY <2>1 DEF Waiters, Actors, P!Awaits
  <2>3. CASE client' = client
    <3>1. Answer' = Answer
      BY <2>3 DEF Answer, P!KnownOf
    <3>2. Shared'
      BY <2>1, <2>3 DEF Shared, P!Awaits
    <3> QED
      BY <2>2, <3>1, <3>2, Stutters
  <2>4. CASE client' # client
    <3>1. /\ cached \in Clients /\ \A c \in Commands : uses[c] # cached
          /\ client' = [client EXCEPT ![cached] = P!Blank]
      BY <1>7, <2>4 DEF P!ConfigSaved
    <3>2. Waiters[cached] = {} /\ Actors[cached] = {}
      BY <3>1 DEF Waiters, Actors, P!Awaits
    <3>3. Answer' = [Answer EXCEPT ![cached] = "unknown"]
      BY <3>1, Learnt
    <3>4. Shared'
      BY <2>1, <3>1 DEF Shared, P!Awaits
    <3> QED
      BY <2>2, <3>1, <3>2, <3>3, <3>4, Forgets
  <2> QED
    BY <2>3, <2>4
<1>8. CASE P!GoesAway \/ P!ComesBack \/ UNCHANGED P!vars
  <2>1. UNCHANGED <<client, stage, ptzPhase, uses>>
    BY <1>8 DEF P!GoesAway, P!ComesBack, P!vars
  <2>2. UNCHANGED <<Answer, Waiters, Actors>>
    BY <2>1 DEF Answer, P!KnownOf, Waiters, Actors, P!Awaits
  <2>3. Shared'
    BY <2>1 DEF Shared, P!Awaits
  <2> QED
    BY <2>2, <2>3, Stutters
<1> QED
  BY <1>1, <1>2, <1>3, <1>4, <1>5, <1>6, <1>7, <1>8
  DEF P!Next, P!CommandSteps, P!DiscoverySteps

(* The discovery of a PTZ client is a memoized operation, for any number   *)
(* of commands and clients: a movement goes out only from a client that    *)
(* knows all of its camera, those that wait are told the same, and nothing *)
(* of a failed attempt is kept (ptz.js, discover and runDiscovery).        *)
THEOREM DiscoveryMemoizedHolds == Spec => DiscoveryMemoized
<1>1. P!Init => Shared /\ P!Memo!Init
  <2> SUFFICES ASSUME P!Init
               PROVE  Shared /\ P!Memo!Init
    OBVIOUS
  <2>1. Shared
    BY DEF P!Init, Shared
  <2>2. P!Memo!Init
    BY DEF P!Init, P!Memo!Init, P!KnownOf, P!Awaits
  <2> QED
    BY <2>1, <2>2
<1>2. PtzInv /\ Shared /\ [P!Next]_(P!vars) =>
        Shared' /\ [P!Memo!Next]_(P!Memo!vars)
  BY PtzMapped DEF Mapped
<1> QED
  BY <1>1, <1>2, PtzHolds, Initially, ComponentSteps, PTL
  DEF Spec, DiscoveryMemoized, P!DiscoveryMemoized, P!Memo!Spec

---------------------------------------------------------------------------
(* StreamCapture: its types and shape are inductive as they stand.         *)

LEMMA SessionKept ==
  ASSUME S!TypeOK,
         \/ S!Connected \/ S!Challenged \/ S!KeysExchanged \/ S!Unreadable
         \/ S!PeerCloses \/ S!SocketFails \/ S!SocketClosed \/ S!StartTimesOut
  PROVE  S!TypeOK'
<1> USE DEF S!TypeOK, S!stream, S!process, S!capture, S!Held
<1>1. CASE S!Connected \/ S!Challenged \/ S!KeysExchanged
  BY <1>1 DEF S!Connected, S!Challenged, S!KeysExchanged, S!session
<1>2. CASE S!PeerCloses \/ S!SocketClosed
  <2>1. /\ UNCHANGED <<mode, phase, seq, acked, fed, ffmpeg, output, shot>>
        /\ UNCHANGED <<main, step, result>>
        /\ sock' = "closed" /\ ended' = TRUE /\ sock # "none"
        /\ opening' = IF opening = "pending" THEN "rejected" ELSE opening
    BY <1>2 DEF S!PeerCloses, S!SocketClosed, S!OnClose, S!RejectOpening
  <2> QED
    BY <2>1
<1>3. CASE S!Unreadable \/ S!SocketFails \/ S!StartTimesOut
  <2>1. /\ UNCHANGED <<mode, phase, seq, acked, fed, ended, ffmpeg>>
        /\ UNCHANGED <<output, shot, main, step, result>>
        /\ sock' = IF sock \in S!Held THEN "closing" ELSE sock
        /\ opening' = IF opening = "pending" THEN "rejected" ELSE opening
    BY <1>3 DEF S!Unreadable, S!SocketFails, S!StartTimesOut, S!OnError,
                S!Close, S!RejectOpening
  <2> QED
    BY <2>1
<1> QED
  BY <1>1, <1>2, <1>3

LEMMA PartKept ==
  ASSUME S!TypeOK, S!Part
  PROVE  S!TypeOK'
<1> USE DEF S!TypeOK, S!Held
<1>0. /\ Frame \in Nat \ {0} /\ MaxParts \in Nat
  BY Assumed DEF S!CaptureAssumption
<1>1. /\ UNCHANGED <<mode, phase, opening, ffmpeg, output, shot, main, step>>
      /\ result' = result
      /\ sock = "open" /\ seq < MaxParts /\ seq' = seq + 1
      /\ acked' \in {acked, seq + 1}
      /\ \/ /\ ~ended /\ fed' = fed + 1 /\ ended' = (fed + 1 = Frame)
            /\ sock' = IF fed + 1 = Frame THEN "closing" ELSE sock
         \/ UNCHANGED <<fed, ended, sock>>
  BY DEF S!Part, S!Writable, S!Close, S!process, S!capture
<1>2. seq' \in 0..MaxParts /\ acked' \in 0..seq'
  BY <1>0, <1>1
<1>3. fed' \in 0..Frame
  BY <1>0, <1>1
<1>4. ended' \in BOOLEAN /\ (fed' = Frame => ended')
  <2>1. CASE fed' = fed + 1 /\ ended' = (fed + 1 = Frame)
    BY <2>1, Zenon
  <2>2. CASE UNCHANGED <<fed, ended>>
    BY <2>2
  <2> QED
    BY <1>1, <2>1, <2>2
<1> QED
  BY <1>1, <1>2, <1>3, <1>4

LEMMA FfmpegKept ==
  ASSUME S!TypeOK, S!Decodes \/ S!Exits \/ S!Dies \/ S!KillTimer
  PROVE  S!TypeOK'
BY DEF S!TypeOK, S!Decodes, S!Exits, S!Dies, S!KillTimer, S!OnExit,
       S!session, S!stream, S!capture

LEMMA ContinuesKept ==
  ASSUME S!TypeOK, S!Continues
  PROVE  S!TypeOK'
<1> USE DEF S!TypeOK, S!Held
<1>0. Steps \in Nat
  BY Assumed DEF S!CaptureAssumption
<1>1. /\ UNCHANGED <<mode, phase, opening, seq, acked, fed, ended>>
      /\ UNCHANGED <<ffmpeg, output, shot>>
      /\ sock' = sock \/ sock' = IF sock \in S!Held THEN "closing" ELSE sock
  BY DEF S!Continues, S!Opened, S!OpenFailed, S!ShotFailed, S!ReencodingFails,
         S!TooLarge, S!Shot, S!Reencoded, S!Close, S!session, S!stream,
         S!process
<1>2. /\ main' \in {"opening", "waiting", "encoding", "done"}
      /\ result' \in {"none", "image", "truncated", "failed", "tooLarge"}
      /\ (main' = "done") = (result' # "none")
  BY DEF S!Continues, S!Opened, S!OpenFailed, S!ShotFailed, S!ReencodingFails,
         S!TooLarge, S!Shot, S!Reencoded, S!Delivered
<1>3. step' \in 0..Steps
  BY <1>0 DEF S!Continues, S!Opened, S!OpenFailed, S!ShotFailed,
              S!ReencodingFails, S!TooLarge, S!Shot, S!Reencoded
<1>4. /\ sock' \in {"connecting", "open", "none", "closing", "closed"}
      /\ sock' = "none" <=> sock = "none"
      /\ sock' = "closed" <=> sock = "closed"
  BY <1>1
<1>5. /\ (sock' = "none") = (mode' = "rtsp")
      /\ (opening' = "resolved") = (phase' = "streaming")
      /\ sock' = "closed" => ended'
  BY <1>1, <1>4
<1> QED
  BY <1>1, <1>2, <1>3, <1>4, <1>5

LEMMA CaptureHolds == Spec => []S!TypeOK
<1>1. S!Init => S!TypeOK
  <2> SUFFICES ASSUME S!Init PROVE S!TypeOK
    OBVIOUS
  <2>1. /\ 0 \in 0..MaxParts /\ 0 \in 0..Frame /\ 0 \in 0..Steps /\ 0 # Frame
        /\ 0 \in 0..0
    BY Assumed DEF S!CaptureAssumption
  <2>2. CASE mode = "rtsp"
    BY <2>1, <2>2 DEF S!Init, S!TypeOK
  <2>3. CASE mode = "proprietary"
    BY <2>1, <2>3 DEF S!Init, S!TypeOK, S!Held
  <2> QED
    BY <2>2, <2>3 DEF S!Init
<1>2. S!TypeOK /\ [S!Next]_(S!vars) => S!TypeOK'
  <2>1. S!TypeOK /\ UNCHANGED S!vars => S!TypeOK'
    BY DEF S!TypeOK, S!vars, S!session, S!stream, S!process, S!capture
  <2> QED
    BY <2>1, SessionKept, PartKept, FfmpegKept, ContinuesKept DEF S!Next
<1> QED
  BY <1>1, <1>2, Initially, ComponentSteps, PTL DEF Spec

---------------------------------------------------------------------------
(* StreamParser: what the session holds is a piece of the wire, which is   *)
(* laid out in parts, and what it keeps of the video is the beginning of   *)
(* a packet.                                                               *)
Marked ==
  {"sync", "boundary", "boundary, continued", "separator",
   "separator, continued", "video", "message", "undecipherable",
   "unreadable", "other"}
Tokens == [kind : Marked, n : Nat]
Contents == {"video", "message", "undecipherable", "unreadable"}

(* KeptFrom: the beginning of a packet is kept, all of the video from base *)
(* to end.                                                                 *)
KeptFrom(base, end, kept) ==
  /\ base <= end /\ end < base + 3 /\ Len(kept) = end - base
  /\ \A i \in 1..Len(kept) : kept[i] = V!Video[base + i]

(* AlignedAt: ffmpeg was given the packets of the video up to end that are *)
(* whole, and the rest is kept.  Before the first of them, what is kept    *)
(* may start in the middle of a packet.                                    *)
GivenAll(given) ==
  \A i \in 1..Len(given) : given[i] = V!Packet(V!FirstWhole + i - 1)
AlignedAt(end, kept, given) ==
  /\ GivenAll(given)
  /\ \/ given = << >> /\ KeptFrom(skew, end, kept)
     \/ KeptFrom(3 * (V!FirstWhole - 1 + Len(given)), end, kept)

(* A set of naturals has a least element.                                  *)
LEMMA Least ==
  ASSUME NEW Ns \in SUBSET Nat, Ns # {}
  PROVE  \E m \in Ns : \A x \in Ns : m <= x
<1> DEFINE R == {ss \in Nat \X Nat : ss[1] < ss[2]}
<1>1. IsWellFoundedOn(R, Nat)
  BY NatLessThanWellFounded DEF OpToRel
<1>2. \A x, m \in Nat : x < m => <<x, m>> \in R
  OBVIOUS
<1> HIDE DEF R
<1>3. PICK m \in Ns : \A x \in Ns : <<x, m>> \notin R
  BY <1>1, WFMin
<1>4. ASSUME NEW x \in Ns
      PROVE  m <= x
  <2>1. x \in Nat /\ m \in Nat /\ <<x, m>> \notin R
    BY <1>3
  <2>2. ~(x < m)
    BY <1>2, <2>1
  <2> QED
    BY <2>1, <2>2
<1> QED
  BY <1>4

LEMMA Lowest ==
  ASSUME NEW Ns \in SUBSET Nat, NEW m \in Ns, \A x \in Ns : m <= x
  PROVE  V!Min(Ns) = m
<1>1. \E x \in Ns : \A y \in Ns : x <= y
  OBVIOUS
<1>2. V!Min(Ns) \in Ns /\ \A y \in Ns : V!Min(Ns) <= y
  BY <1>1, ZenonT(20) DEF V!Min
<1>3. V!Min(Ns) \in Nat /\ m \in Nat /\ V!Min(Ns) <= m /\ m <= V!Min(Ns)
  BY <1>2
<1> QED
  BY <1>3

LEMMA TokensAre ==
  /\ V!boundary[1] \in Tokens /\ V!boundary[2] \in Tokens
  /\ V!HEADER_SEPARATOR[1] \in Tokens /\ V!HEADER_SEPARATOR[2] \in Tokens
  /\ V!boundary[1] # V!HEADER_SEPARATOR[1]
  /\ V!boundary[1].kind # "sync" /\ V!boundary[2].kind # "sync"
  /\ V!Token("other") \in Tokens /\ V!Token("other") # V!boundary[1]
  /\ V!Token("sync") \in Tokens
<1>1. /\ V!boundary[1] = V!Token("boundary")
      /\ V!boundary[2] = V!Token("boundary, continued")
      /\ V!HEADER_SEPARATOR[1] = V!Token("separator")
      /\ V!HEADER_SEPARATOR[2] = V!Token("separator, continued")
  BY DEF V!boundary, V!HEADER_SEPARATOR
<1>2. \A k \in {"boundary", "boundary, continued", "separator",
               "separator, continued", "other", "sync"} :
        V!Token(k) \in Tokens /\ V!Token(k).kind = k
  BY DEF V!Token, Tokens, Marked
<1>3. /\ V!Token("boundary").kind = "boundary"
      /\ V!Token("boundary, continued").kind = "boundary, continued"
      /\ V!Token("separator").kind = "separator"
      /\ V!Token("other").kind = "other"
  BY <1>2
<1>4. /\ V!Token("boundary") # V!Token("separator")
      /\ V!Token("boundary") # V!Token("other")
  BY <1>3
<1> QED
  BY <1>1, <1>2, <1>3, <1>4

LEMMA HeadersAre ==
  ASSUME NEW c \in Contents, NEW n \in Nat
  PROVE  /\ V!Header(c, n) \in Tokens
         /\ V!Header(c, n) # V!HEADER_SEPARATOR[1]
         /\ V!Header(c, n).kind = c /\ V!Header(c, n).n = n
<1>1. V!HEADER_SEPARATOR[1] = [kind |-> "separator", n |-> 0]
  BY DEF V!HEADER_SEPARATOR, V!Token
<1>2. V!Header(c, n) = [kind |-> c, n |-> n]
  BY DEF V!Header
<1>3. c # "separator" /\ c \in Marked
  BY DEF Contents, Marked
<1>4. V!Header(c, n) \in Tokens
  BY <1>2, <1>3 DEF Tokens
<1>5. V!Header(c, n).kind = c /\ V!Header(c, n).n = n
  BY <1>2
<1>6. V!HEADER_SEPARATOR[1].kind = "separator"
  BY <1>1
<1> QED
  BY <1>3, <1>4, <1>5, <1>6

LEMMA PatternsAre ==
  /\ V!boundary = <<V!boundary[1], V!boundary[2]>>
  /\ V!HEADER_SEPARATOR = <<V!HEADER_SEPARATOR[1], V!HEADER_SEPARATOR[2]>>
BY DEF V!boundary, V!HEADER_SEPARATOR

LEMMA PacketsAre ==
  ASSUME NEW i \in Nat
  PROVE  /\ V!Packet(i) = <<V!Packet(i)[1], V!Packet(i)[2], V!Packet(i)[3]>>
         /\ V!Packet(i)[1].kind = "sync"
         /\ V!Packet(i)[2].kind # "sync"
         /\ i \notin Lookalikes => V!Packet(i)[3].kind # "sync"
         /\ \A r \in 1..3 : V!Packet(i)[r] \in Tokens
<1> DEFINE last == IF i \in Lookalikes THEN V!Token("sync") ELSE V!boundary[2]
<1>1. V!Packet(i) = <<[kind |-> "sync", n |-> i], V!boundary[1], last>>
  BY DEF V!Packet
<1>2. [kind |-> "sync", n |-> i] \in Tokens
  BY DEF Tokens, Marked
<1>3. last \in Tokens /\ (i \notin Lookalikes => last.kind # "sync")
  BY TokensAre
<1> HIDE DEF last
<1> QED
  BY <1>1, <1>2, <1>3, TokensAre

LEMMA VideoAt ==
  ASSUME NEW q \in Nat, NEW r \in 1..3, 3 * q + r <= 3 * Packets, Packets \in Nat
  PROVE  V!Video[3 * q + r] = V!Packet(q + 1)[r]
<1>1. /\ (3 * q + r - 1) \div 3 = q /\ (3 * q + r - 1) % 3 = r - 1
      /\ 3 * q + r \in 1..Packets * 3
  OBVIOUS
<1> QED
  BY <1>1 DEF V!Video, V!PacketSize

LEMMA VideoIs ==
  ASSUME Packets \in Nat
  PROVE  /\ V!Video \in Seq(Tokens)
         /\ Len(V!Video) = 3 * Packets
<1>1. ASSUME NEW j \in 1..Packets * 3
      PROVE  V!Packet(((j - 1) \div 3) + 1)[((j - 1) % 3) + 1] \in Tokens
  <2>1. ((j - 1) \div 3) + 1 \in Nat /\ ((j - 1) % 3) + 1 \in 1..3
    OBVIOUS
  <2> QED
    BY <2>1, PacketsAre
<1>2. V!Video = [j \in 1..Packets * 3 |-> V!Packet(((j - 1) \div 3) + 1)[((j - 1) % 3) + 1]]
  BY DEF V!Video, V!PacketSize
<1>3. V!Video \in [1..Packets * 3 -> Tokens]
  BY <1>1, <1>2
<1>4. Packets * 3 \in Nat
  OBVIOUS
<1> QED
  BY <1>3, <1>4

(* A piece of a sequence.                                                  *)
LEMMA Piece ==
  ASSUME NEW s \in Seq(Tokens), NEW m \in Nat, NEW n \in Nat,
         1 <= m, m <= n + 1, n <= Len(s)
  PROVE  /\ SubSeq(s, m, n) \in Seq(Tokens)
         /\ Len(SubSeq(s, m, n)) = n + 1 - m
         /\ \A i \in 1..(n + 1 - m) : SubSeq(s, m, n)[i] = s[m + i - 1]
<1>1. \A i \in m..n : s[i] \in Tokens
  BY ElementOfSeq
<1>2. /\ SubSeq(s, m, n) \in Seq(Tokens)
      /\ Len(SubSeq(s, m, n)) = IF m <= n THEN n - m + 1 ELSE 0
      /\ \A i \in 1..(n - m + 1) : SubSeq(s, m, n)[i] = s[m + i - 1]
  BY <1>1, SubSeqProperties
<1>3. n - m + 1 = n + 1 - m
  OBVIOUS
<1> QED
  BY <1>2, <1>3

LEMMA Couple ==
  ASSUME NEW s \in Seq(Tokens), NEW i \in Nat, 1 <= i, i + 1 <= Len(s)
  PROVE  SubSeq(s, i, i + 1) = <<s[i], s[i + 1]>>
<1> DEFINE p == SubSeq(s, i, i + 1)
<1>1. /\ p \in Seq(Tokens)
      /\ Len(p) = i + 1 + 1 - i
      /\ \A k \in 1..(i + 1 + 1 - i) : p[k] = s[i + k - 1]
  BY Piece
<1> HIDE DEF p
<1>2. i + 1 + 1 - i = 2 /\ i + 1 - 1 = i /\ i + 2 - 1 = i + 1
  OBVIOUS
<1>3. p[1] = s[i] /\ p[2] = s[i + 1] /\ Len(p) = 2
  BY <1>1, <1>2
<1>4. p = <<p[1], p[2]>>
  <2>1. \A x \in Seq(Tokens) : Len(x) = 2 => x = <<x[1], x[2]>>
    OBVIOUS
  <2> QED
    BY <1>1, <1>3, <2>1
<1> QED
  BY <1>3, <1>4 DEF p

LEMMA Triple ==
  ASSUME NEW s \in Seq(Tokens), NEW i \in Nat, i + 3 <= Len(s)
  PROVE  SubSeq(s, i + 1, i + 3) = <<s[i + 1], s[i + 2], s[i + 3]>>
<1> DEFINE p == SubSeq(s, i + 1, i + 3)
<1>1. /\ p \in Seq(Tokens)
      /\ Len(p) = i + 3 + 1 - (i + 1)
      /\ \A k \in 1..(i + 3 + 1 - (i + 1)) : p[k] = s[i + 1 + k - 1]
  BY Piece
<1> HIDE DEF p
<1>2. /\ i + 3 + 1 - (i + 1) = 3
      /\ i + 1 + 1 - 1 = i + 1 /\ i + 1 + 2 - 1 = i + 2 /\ i + 1 + 3 - 1 = i + 3
  OBVIOUS
<1>3. p[1] = s[i + 1] /\ p[2] = s[i + 2] /\ p[3] = s[i + 3] /\ Len(p) = 3
  BY <1>1, <1>2
<1>4. p = <<p[1], p[2], p[3]>>
  <2>1. \A x \in Seq(Tokens) : Len(x) = 3 => x = <<x[1], x[2], x[3]>>
    OBVIOUS
  <2> QED
    BY <1>1, <1>3, <2>1
<1> QED
  BY <1>3, <1>4 DEF p

(* What is left of a sequence once its beginning is gone.                  *)
LEMMA Rest ==
  ASSUME NEW s \in Seq(Tokens), NEW n \in Nat, n <= Len(s)
  PROVE  /\ SubSeq(s, n + 1, Len(s)) \in Seq(Tokens)
         /\ Len(SubSeq(s, n + 1, Len(s))) = Len(s) - n
         /\ \A i \in 1..(Len(s) - n) : SubSeq(s, n + 1, Len(s))[i] = s[n + i]
<1> DEFINE l == Len(s)
           p == SubSeq(s, n + 1, l)
<1>1. l \in Nat
  BY LenProperties
<1>2. /\ p \in Seq(Tokens)
      /\ Len(p) = l + 1 - (n + 1)
      /\ \A k \in 1..(l + 1 - (n + 1)) : p[k] = s[n + 1 + k - 1]
  <2> HIDE DEF l
  <2> QED
    BY <1>1, Piece DEF l
<1> HIDE DEF p, l
<1>3. l + 1 - (n + 1) = l - n /\ \A k \in Nat : n + 1 + k - 1 = n + k
  BY <1>1
<1>4. /\ p \in Seq(Tokens) /\ Len(p) = l - n
      /\ \A i \in 1..(l - n) : p[i] = s[n + i]
  BY <1>1, <1>2, <1>3
<1> QED
  BY <1>4 DEF p, l

(* A part at the front of a sequence is found there.                       *)
LEMMA Scanned ==
  ASSUME NEW s \in Seq(Tokens), NEW first \in Tokens,
         first # V!HEADER_SEPARATOR[1], Len(s) >= 2,
         s[1] = V!boundary[1], s[2] = V!boundary[2],
         Len(s) >= 3 => s[3] = first,
         Len(s) >= 4 => s[4] = V!HEADER_SEPARATOR[1],
         Len(s) >= 5 => s[5] = V!HEADER_SEPARATOR[2]
  PROVE  LET t == V!After(s, V!boundary) IN
         /\ V!Starts(s, V!boundary) # {}
         /\ V!Starts(t, V!HEADER_SEPARATOR) # {} <=> Len(s) >= 5
         /\ Len(s) >= 5 =>
              /\ V!Before(t, V!HEADER_SEPARATOR)[1] = first
              /\ V!After(t, V!HEADER_SEPARATOR) = SubSeq(s, 6, Len(s))
<1> DEFINE t == V!After(s, V!boundary)
<1> DEFINE Sep == V!HEADER_SEPARATOR
<1>1. /\ Len(V!boundary) = 2 /\ Len(Sep) = 2
      /\ V!boundary \in Seq(Tokens) /\ Sep \in Seq(Tokens)
  <2>1. \A a, b \in Tokens : <<a, b>> \in Seq(Tokens) /\ Len(<<a, b>>) = 2
    OBVIOUS
  <2> QED
    BY <2>1, PatternsAre, TokensAre
<1>2. V!Starts(s, V!boundary) \in SUBSET Nat /\ 1 \in V!Starts(s, V!boundary)
  <2>1. SubSeq(s, 1, 2) = V!boundary
    <3>1. SubSeq(s, 1, 1 + 1) = <<s[1], s[1 + 1]>>
      BY Couple
    <3> QED
      BY <3>1, PatternsAre
  <2> QED
    BY <1>1, <2>1 DEF V!Starts
<1>3. V!Min(V!Starts(s, V!boundary)) = 1
  BY <1>2, Lowest DEF V!Starts
<1>4. t = SubSeq(s, 3, Len(s))
  BY <1>1, <1>3 DEF V!After
<1>5. /\ t \in Seq(Tokens) /\ Len(t) = Len(s) - 2
      /\ \A i \in 1..Len(t) : t[i] = s[i + 2]
  <2>1. /\ SubSeq(s, 2 + 1, Len(s)) \in Seq(Tokens)
        /\ Len(SubSeq(s, 2 + 1, Len(s))) = Len(s) - 2
        /\ \A i \in 1..(Len(s) - 2) : SubSeq(s, 2 + 1, Len(s))[i] = s[2 + i]
    BY Rest
  <2>2. t = SubSeq(s, 2 + 1, Len(s)) /\ Len(s) \in Nat
        /\ \A i \in Nat : 2 + i = i + 2
    BY <1>4, LenProperties
  <2> HIDE DEF t
  <2> QED
    BY <2>1, <2>2
<1> HIDE DEF t
<1>6. V!Starts(t, Sep) = {i \in 1..(Len(t) - 1) : SubSeq(t, i, i + 1) = Sep}
  <2>1. V!Starts(t, Sep) = {i \in 1..(Len(t) + 1 - 2) : SubSeq(t, i, i + 2 - 1) = Sep}
    BY <1>1 DEF V!Starts
  <2>2. Len(t) + 1 - 2 = Len(t) - 1 /\ \A i \in Nat : i + 2 - 1 = i + 1
    BY <1>5
  <2> QED
    BY <2>1, <2>2
<1>7. \A i \in 1..(Len(t) - 1) : SubSeq(t, i, i + 1) = <<t[i], t[i + 1]>>
  BY <1>5, Couple
<1>8. 1 \notin V!Starts(t, Sep)
  <2> SUFFICES ASSUME 1 \in V!Starts(t, Sep)
               PROVE  FALSE
    OBVIOUS
  <2>1. 1 \in 1..(Len(t) - 1) /\ <<t[1], t[2]>> = Sep
    BY <1>6, <1>7
  <2>2. t[1] = first
    BY <1>5, <2>1
  <2>3. t[1] = Sep[1]
    BY <2>1
  <2> QED
    BY <2>2, <2>3
<1>9. Len(s) < 5 => V!Starts(t, Sep) = {}
  BY <1>5, <1>6, <1>8
<1>10. CASE Len(s) >= 5
  <2>1. 2 \in V!Starts(t, Sep)
    <3>1. t[2] = Sep[1] /\ t[3] = Sep[2] /\ 2 \in 1..(Len(t) - 1)
      BY <1>5, <1>10
    <3> QED
      BY <1>6, <1>7, <3>1, PatternsAre
  <2>2. V!Starts(t, Sep) \in SUBSET Nat /\ \A x \in V!Starts(t, Sep) : 2 <= x
    BY <1>5, <1>6, <1>8
  <2>3. V!Min(V!Starts(t, Sep)) = 2
    BY <2>1, <2>2, Lowest
  <2>4. V!Before(t, Sep)[1] = first
    <3>1. V!Before(t, Sep) = SubSeq(t, 1, 1)
      BY <2>3 DEF V!Before
    <3>2. SubSeq(t, 1, 1)[1] = t[1]
      BY <1>5, <1>10
    <3> QED
      BY <1>5, <1>10, <3>1, <3>2
  <2>5. V!After(t, Sep) = SubSeq(s, 6, Len(s))
    <3>1. V!After(t, Sep) = SubSeq(t, 4, Len(t))
      BY <1>1, <2>3 DEF V!After
    <3> DEFINE lt == SubSeq(t, 3 + 1, Len(t))
               ls == SubSeq(s, 5 + 1, Len(s))
    <3>2. /\ lt \in Seq(Tokens) /\ Len(lt) = Len(t) - 3
          /\ \A i \in 1..(Len(t) - 3) : lt[i] = t[3 + i]
      BY <1>5, <1>10, Rest
    <3>3. /\ ls \in Seq(Tokens) /\ Len(ls) = Len(s) - 5
          /\ \A i \in 1..(Len(s) - 5) : ls[i] = s[5 + i]
      BY <1>10, Rest
    <3> HIDE DEF lt, ls
    <3>4. Len(lt) = Len(ls) /\ Len(s) \in Nat
      BY <1>5, <3>2, <3>3, LenProperties
    <3>5. ASSUME NEW i \in 1..Len(lt)
          PROVE  lt[i] = ls[i]
      <4>1. /\ 3 + i \in 1..Len(t) /\ 3 + i + 2 = 5 + i
            /\ i \in 1..(Len(t) - 3) /\ i \in 1..(Len(s) - 5)
        BY <1>5, <3>2, <3>4
      <4> QED
        BY <1>5, <3>2, <3>3, <4>1
    <3>6. lt = ls
      BY <3>2, <3>3, <3>4, <3>5, SeqEqual
    <3> QED
      BY <3>1, <3>6 DEF lt, ls
  <2> QED
    BY <1>2, <1>10, <2>1, <2>4, <2>5 DEF t
<1> QED
  BY <1>2, <1>9, <1>10 DEF t

(* Packets given to ffmpeg from a sequence that starts with one.           *)
LEMMA Cut ==
  ASSUME NEW s \in Seq(Tokens), NEW q \in Nat, Packets \in Nat,
         3 * q + Len(s) <= 3 * Packets,
         \A i \in 1..Len(s) : s[i] = V!Video[3 * q + i]
  PROVE  /\ V!Whole(s) \in Nat /\ 3 * V!Whole(s) <= Len(s)
         /\ Len(s) < 3 * V!Whole(s) + 3
         /\ \A i \in 1..V!Whole(s) :
              SubSeq(s, (i - 1) * V!PacketSize + 1, i * V!PacketSize)
                = V!Packet(q + i)
         /\ LET d == V!Drop(s, V!Whole(s) * V!PacketSize) IN
            /\ d \in Seq(Tokens)
            /\ Len(d) = Len(s) - 3 * V!Whole(s)
            /\ \A i \in 1..Len(d) : d[i] = V!Video[3 * (q + V!Whole(s)) + i]
<1>1. /\ V!Whole(s) \in Nat /\ 3 * V!Whole(s) <= Len(s)
      /\ Len(s) < 3 * V!Whole(s) + 3
  BY DEF V!Whole, V!PacketSize
<1>2. ASSUME NEW i \in 1..V!Whole(s)
      PROVE  SubSeq(s, (i - 1) * V!PacketSize + 1, i * V!PacketSize)
               = V!Packet(q + i)
  <2> DEFINE j == i - 1
  <2>1. j \in Nat /\ 3 * j + 3 <= Len(s)
    BY <1>1
  <2>2. SubSeq(s, (i - 1) * V!PacketSize + 1, i * V!PacketSize)
          = <<s[3 * j + 1], s[3 * j + 2], s[3 * j + 3]>>
    <3>1. /\ (i - 1) * V!PacketSize + 1 = 3 * j + 1
          /\ i * V!PacketSize = 3 * j + 3
      BY DEF V!PacketSize
    <3>2. SubSeq(s, 3 * j + 1, 3 * j + 3)
            = <<s[3 * j + 1], s[3 * j + 2], s[3 * j + 3]>>
      <4> HIDE DEF j
      <4>1. 3 * j \in Nat
        BY <2>1
      <4> QED
        BY <2>1, <4>1, Triple
    <3> QED
      BY <3>1, <3>2
  <2>3. ASSUME NEW r \in 1..3
        PROVE  s[3 * j + r] = V!Packet(q + i)[r]
    <3>1. s[3 * j + r] = V!Video[3 * q + (3 * j + r)]
      <4>1. 3 * j + r \in 1..Len(s)
        BY <2>1, LenProperties
      <4> HIDE DEF j
      <4> QED
        BY <4>1
    <3>2. /\ 3 * q + (3 * j + r) = 3 * (q + j) + r /\ q + j \in Nat
          /\ 3 * (q + j) + r <= 3 * Packets /\ q + j + 1 = q + i
      BY <2>1
    <3> HIDE DEF j
    <3>3. V!Video[3 * (q + j) + r] = V!Packet(q + j + 1)[r]
      BY <3>2, VideoAt
    <3> QED
      BY <3>1, <3>2, <3>3
  <2>4. V!Packet(q + i) = <<s[3 * j + 1], s[3 * j + 2], s[3 * j + 3]>>
    <3>1. q + i \in Nat
      OBVIOUS
    <3> HIDE DEF j
    <3> QED
      BY <2>3, <3>1, PacketsAre
  <2> QED
    BY <2>2, <2>4
<1>3. LET d == V!Drop(s, V!Whole(s) * V!PacketSize) IN
      /\ d \in Seq(Tokens)
      /\ Len(d) = Len(s) - 3 * V!Whole(s)
      /\ \A i \in 1..Len(d) : d[i] = V!Video[3 * (q + V!Whole(s)) + i]
  <2> DEFINE w == V!Whole(s)
             d == V!Drop(s, w * V!PacketSize)
  <2>1. d = SubSeq(s, 3 * w + 1, Len(s))
    <3>1. d = SubSeq(s, w * 3 + 1, Len(s))
      BY DEF V!Drop, V!PacketSize
    <3>2. w * 3 = 3 * w
      BY <1>1
    <3> QED
      BY <3>1, <3>2
  <2> HIDE DEF d
  <2>2. /\ d \in Seq(Tokens) /\ Len(d) = Len(s) - 3 * w
        /\ \A i \in 1..(Len(s) - 3 * w) : d[i] = s[3 * w + i]
    <3>1. 3 * w \in Nat /\ 3 * w <= Len(s)
      BY <1>1
    <3> HIDE DEF w
    <3> QED
      BY <2>1, <3>1, Rest
  <2>3. ASSUME NEW i \in 1..Len(d)
        PROVE  d[i] = V!Video[3 * (q + w) + i]
    <3>1. d[i] = s[3 * w + i] /\ 3 * w + i \in 1..Len(s)
      BY <1>1, <2>2
    <3>2. 3 * q + (3 * w + i) = 3 * (q + w) + i
      BY <1>1, <2>2
    <3> QED
      BY <3>1, <3>2
  <2> QED
    BY <2>2, <2>3 DEF d
<1> QED
  BY <1>1, <1>2, <1>3

PartRecords == [content : Contents, size : Nat, wire : Nat, video : Nat]

(* What the proof about the stream rests on: where each part lies on the   *)
(* wire, what of it is in the buffer, and what of the video is kept.       *)
VideoTypes ==
  /\ foreign \in BOOLEAN /\ progressed \in BOOLEAN /\ alive \in BOOLEAN
  /\ skew \in 0..2
  /\ wire \in Seq(Tokens) /\ buffer \in Seq(Tokens) /\ tsBuffer \in Seq(Tokens)
  /\ parts \in Seq(PartRecords)
  /\ emitted \in Seq(Seq(Tokens))
  /\ received \in 0..Len(wire) /\ handled \in 0..Len(parts)
  /\ Len(buffer) <= MaxBuffer /\ Len(tsBuffer) < 3

Size(k) == parts[k].size
Content(k) == parts[k].content

(* Laid: a part is its opening and its body, a slice of the video or not.  *)
LaidAt(k, start, from) ==
  /\ Content(k) \in Contents /\ Size(k) \in V!Sizes[Content(k)]
  /\ V!Ends(k) = start + 5 + Size(k) /\ V!Ends(k) <= Len(wire)
  /\ V!Shows(k) = from + V!Shown(Content(k), Size(k))
  /\ V!Shows(k) <= 3 * Packets
  /\ wire[start + 1] = V!boundary[1] /\ wire[start + 2] = V!boundary[2]
  /\ wire[start + 3] = V!Header(Content(k), Size(k))
  /\ wire[start + 4] = V!HEADER_SEPARATOR[1]
  /\ wire[start + 5] = V!HEADER_SEPARATOR[2]
  /\ Content(k) = "video" =>
       \A j \in 1..Size(k) : wire[start + 5 + j] = V!Video[from + j]

Laid ==
  ~foreign =>
    /\ V!Ends(Len(parts)) = Len(wire)
    /\ \A k \in 1..Len(parts) : LaidAt(k, V!Ends(k - 1), V!Shows(k - 1))
    /\ \A j, k \in 0..Len(parts) : j <= k => V!Ends(j) <= V!Ends(k)

Kept ==
  ~foreign /\ alive =>
    /\ V!Ends(handled) <= received
    /\ Len(buffer) = received - V!Ends(handled)
    /\ \A i \in 1..Len(buffer) : buffer[i] = wire[V!Ends(handled) + i]

Waiting ==
  ~foreign /\ alive /\ ~progressed /\ handled < Len(parts) =>
    received < V!Ends(handled + 1)

Aligned ==
  V!Recognizable => AlignedAt(V!Shows(handled), tsBuffer, emitted)

Strange ==
  foreign =>
    /\ parts = << >> /\ wire = V!Foreign
    /\ alive => Len(buffer) = received
    /\ \A i \in 1..Len(buffer) : buffer[i] = V!Token("other")

VideoInv == VideoTypes /\ Laid /\ Kept /\ Waiting /\ Aligned /\ Strange

LEMMA VideoBounds ==
  /\ Packets \in Nat /\ MaxBuffer \in Nat /\ MaxChunk \in Nat
  /\ \A c \in Contents : \A n \in V!Sizes[c] : n \in Nat
  /\ V!Sizes["unreadable"] = {0} /\ DOMAIN V!Sizes = Contents
<1>1. /\ Packets \in Nat /\ MaxBuffer \in Nat /\ MaxChunk \in Nat
      /\ PartSizes \subseteq Nat /\ OtherSizes \subseteq Nat
  BY RequestsAssumption DEF V!ParserAssumption
<1>2. /\ V!Sizes["video"] = PartSizes /\ V!Sizes["message"] = OtherSizes
      /\ V!Sizes["undecipherable"] = OtherSizes
      /\ V!Sizes["unreadable"] = {0} /\ DOMAIN V!Sizes = Contents
  BY DEF V!Sizes, Contents
<1>3. ASSUME NEW c \in Contents, NEW n \in V!Sizes[c]
      PROVE  n \in Nat
  <2>1. \A s : s = PartSizes \/ s = OtherSizes \/ s = {0} => s \subseteq Nat
    <3>1. PartSizes \subseteq Nat /\ OtherSizes \subseteq Nat
      BY <1>1, Zenon
    <3>2. {0} \subseteq Nat
      OBVIOUS
    <3> QED
      BY <3>1, <3>2, Zenon
  <2>2. V!Sizes[c] = PartSizes \/ V!Sizes[c] = OtherSizes \/ V!Sizes[c] = {0}
    BY <1>2, Zenon DEF Contents
  <2>3. V!Sizes[c] \subseteq Nat
    BY <2>1, <2>2, Zenon
  <2> QED
    BY <2>3, Zenon
<1> QED
  BY <1>1, <1>2, <1>3

LEMMA Marks ==
  ASSUME VideoTypes, NEW k \in 0..Len(parts)
  PROVE  V!Ends(k) \in Nat /\ V!Shows(k) \in Nat
<1>1. CASE k = 0
  BY <1>1 DEF VideoTypes, V!Ends, V!Shows
<1>2. CASE k # 0
  <2>1. parts[k] \in PartRecords
    <3>1. k \in 1..Len(parts) /\ parts \in Seq(PartRecords)
      BY <1>2 DEF VideoTypes
    <3> QED
      BY <3>1, ElementOfSeq
  <2>2. V!Ends(k) = parts[k].wire /\ V!Shows(k) = parts[k].video
    BY <1>2 DEF V!Ends, V!Shows
  <2> QED
    BY <2>1, <2>2 DEF PartRecords
<1> QED
  BY <1>1, <1>2

LEMMA Numbers ==
  ASSUME VideoTypes
  PROVE  /\ Len(wire) \in Nat /\ Len(buffer) \in Nat /\ Len(parts) \in Nat
         /\ Len(tsBuffer) \in Nat /\ Len(emitted) \in Nat
         /\ handled \in Nat /\ received \in Nat
BY LenProperties DEF VideoTypes

(* The part that is not handled yet.                                       *)
LEMMA NextPart ==
  ASSUME VideoTypes, Laid, ~foreign, handled < Len(parts),
         NEW k, k = handled + 1
  PROVE  /\ k \in 1..Len(parts)
         /\ LaidAt(k, V!Ends(handled), V!Shows(handled))
         /\ V!Ends(handled) \in Nat /\ V!Shows(handled) \in Nat
         /\ Size(k) \in Nat /\ Content(k) \in Contents
<1>1. k \in 1..Len(parts) /\ k - 1 = handled
  BY Numbers
<1>2. LaidAt(k, V!Ends(handled), V!Shows(handled))
  <2>1. LaidAt(k, V!Ends(k - 1), V!Shows(k - 1))
    BY <1>1 DEF Laid
  <2> QED
    BY <1>1, <2>1
<1>3. V!Ends(handled) \in Nat /\ V!Shows(handled) \in Nat
  BY Marks DEF VideoTypes
<1>4. Size(k) \in Nat /\ Content(k) \in Contents
  <2>1. Content(k) \in Contents /\ Size(k) \in V!Sizes[Content(k)]
    BY <1>2 DEF LaidAt
  <2> QED
    BY <2>1, VideoBounds
<1> QED
  BY <1>1, <1>2, <1>3, <1>4

LEMMA Heads ==
  ASSUME VideoInv, ~foreign, alive, NEW k, k = handled + 1
  PROVE  /\ V!HasHeaders <=> Len(buffer) >= 5
         /\ Len(buffer) >= 1 => handled < Len(parts)
         /\ Len(buffer) >= 5 =>
              /\ V!headers = V!Header(Content(k), Size(k))
              /\ V!afterHeaders = SubSeq(buffer, 6, Len(buffer))
<1> USE DEF VideoInv
<1> DEFINE e == V!Ends(handled)
<1>1. /\ e \in Nat /\ Len(buffer) = received - e
      /\ \A i \in 1..Len(buffer) : buffer[i] = wire[e + i]
  BY Marks, Numbers DEF Kept, VideoTypes
<1>2. Len(buffer) >= 1 => handled < Len(parts)
  BY <1>1, Numbers DEF Laid, VideoTypes
<1>3. CASE Len(buffer) < 2
  <2>1. V!Starts(buffer, V!boundary) = {}
    <3>1. Len(V!boundary) = 2
      BY DEF V!boundary
    <3>2. 1..(Len(buffer) + 1 - 2) = {}
      BY <1>3, Numbers
    <3> QED
      BY <3>1, <3>2 DEF V!Starts
  <2> QED
    BY <1>2, <1>3, <2>1, Numbers DEF V!HasHeaders
<1>4. CASE Len(buffer) >= 2
  <2> DEFINE first == V!Header(Content(k), Size(k))
  <2>1. handled < Len(parts)
    BY <1>2, <1>4
  <2>2. /\ LaidAt(k, e, V!Shows(handled))
        /\ Size(k) \in Nat /\ Content(k) \in Contents
    BY <2>1, NextPart
  <2>3. first \in Tokens /\ first # V!HEADER_SEPARATOR[1]
    BY <2>2, HeadersAre
  <2> HIDE DEF e, first
  <2>4. /\ buffer[1] = V!boundary[1] /\ buffer[2] = V!boundary[2]
        /\ Len(buffer) >= 3 => buffer[3] = first
        /\ Len(buffer) >= 4 => buffer[4] = V!HEADER_SEPARATOR[1]
        /\ Len(buffer) >= 5 => buffer[5] = V!HEADER_SEPARATOR[2]
    <3>1. /\ wire[e + 1] = V!boundary[1] /\ wire[e + 2] = V!boundary[2]
          /\ wire[e + 3] = first
          /\ wire[e + 4] = V!HEADER_SEPARATOR[1]
          /\ wire[e + 5] = V!HEADER_SEPARATOR[2]
      BY <2>2 DEF LaidAt, first
    <3>2. \A i \in {1, 2, 3, 4, 5} : i <= Len(buffer) => buffer[i] = wire[e + i]
      BY <1>1, Numbers
    <3>3. 1 <= Len(buffer) /\ 2 <= Len(buffer) /\ Len(buffer) \in Nat
      BY <1>4, Numbers
    <3> QED
      BY <3>1, <3>2, <3>3
  <2>5. /\ V!Starts(buffer, V!boundary) # {}
        /\ V!Starts(V!afterBoundary, V!HEADER_SEPARATOR) # {} <=> Len(buffer) >= 5
        /\ Len(buffer) >= 5 => V!headers = first
        /\ Len(buffer) >= 5 => V!afterHeaders = SubSeq(buffer, 6, Len(buffer))
    BY <1>4, <2>3, <2>4, Scanned
       DEF VideoTypes, V!afterBoundary, V!headers, V!afterHeaders
  <2> QED
    BY <2>1, <2>5 DEF V!HasHeaders, first
<1> QED
  BY <1>3, <1>4, Numbers
LEMMA PacketSeq ==
  ASSUME NEW i \in Nat
  PROVE  V!Packet(i) \in Seq(Tokens)
<1>1. \A a, b, c \in Tokens : <<a, b, c>> \in Seq(Tokens)
  OBVIOUS
<1>2. /\ V!Packet(i)[1] \in Tokens /\ V!Packet(i)[2] \in Tokens
      /\ V!Packet(i)[3] \in Tokens
      /\ V!Packet(i) = <<V!Packet(i)[1], V!Packet(i)[2], V!Packet(i)[3]>>
  BY PacketsAre
<1> QED
  BY <1>1, <1>2

LEMMA FirstWholes ==
  ASSUME skew \in 0..2
  PROVE  /\ skew = 0 => V!FirstWhole = 1
         /\ skew # 0 => V!FirstWhole = 2
         /\ V!FirstWhole \in {1, 2}
BY DEF V!FirstWhole

(* Packets given after others, and what is kept after them.                *)
LEMMA Joined ==
  ASSUME NEW g \in Seq(Seq(Tokens)), NEW f \in Seq(Seq(Tokens)),
         NEW fw \in {1, 2},
         \A i \in 1..Len(g) : g[i] = V!Packet(fw + i - 1),
         \A j \in 1..Len(f) : f[j] = V!Packet(fw - 1 + Len(g) + j)
  PROVE  /\ g \o f \in Seq(Seq(Tokens))
         /\ Len(g \o f) = Len(g) + Len(f)
         /\ \A i \in 1..Len(g \o f) : (g \o f)[i] = V!Packet(fw + i - 1)
<1> DEFINE h == g \o f
<1>1. /\ h \in Seq(Seq(Tokens))
      /\ Len(h) = Len(g) + Len(f)
      /\ \A i \in 1..(Len(g) + Len(f)) :
           h[i] = IF i <= Len(g) THEN g[i] ELSE f[i - Len(g)]
  BY ConcatProperties
<1> HIDE DEF h
<1>2. Len(g) \in Nat /\ Len(f) \in Nat
  BY LenProperties
<1>3. ASSUME NEW i \in 1..Len(h)
      PROVE  h[i] = V!Packet(fw + i - 1)
  <2>1. CASE i <= Len(g)
    <3>1. i \in 1..Len(g) /\ h[i] = g[i]
      BY <1>1, <1>2, <2>1
    <3> QED
      BY <3>1
  <2>2. CASE ~(i <= Len(g))
    <3> DEFINE j == i - Len(g)
    <3>1. j \in 1..Len(f) /\ fw - 1 + Len(g) + j = fw + i - 1 /\ h[i] = f[j]
      BY <1>1, <1>2, <2>2
    <3> HIDE DEF j
    <3>2. f[j] = V!Packet(fw - 1 + Len(g) + j)
      BY <3>1
    <3> QED
      BY <3>1, <3>2
  <2> QED
    BY <2>1, <2>2
<1> QED
  BY <1>1, <1>3 DEF h

LEMMA Gives ==
  ASSUME NEW g \in Seq(Seq(Tokens)), NEW f \in Seq(Seq(Tokens)),
         NEW d \in Seq(Tokens), NEW q \in Nat, NEW l \in Nat,
         skew \in 0..2, q = V!FirstWhole - 1 + Len(g),
         3 * Len(f) <= l, l < 3 * Len(f) + 3, Len(d) = l - 3 * Len(f),
         \A i \in 1..Len(g) : g[i] = V!Packet(V!FirstWhole + i - 1),
         \A j \in 1..Len(f) : f[j] = V!Packet(q + j),
         \A i \in 1..Len(d) : d[i] = V!Video[3 * (q + Len(f)) + i]
  PROVE  AlignedAt(3 * q + l, d, g \o f) /\ g \o f \in Seq(Seq(Tokens))
<1> DEFINE h == g \o f
           base == 3 * (V!FirstWhole - 1 + Len(h))
<1>1. /\ Len(g) \in Nat /\ Len(f) \in Nat /\ Len(d) \in Nat
      /\ V!FirstWhole \in {1, 2}
  BY LenProperties, FirstWholes
<1>2. /\ h \in Seq(Seq(Tokens)) /\ Len(h) = Len(g) + Len(f)
      /\ \A i \in 1..Len(h) : h[i] = V!Packet(V!FirstWhole + i - 1)
  BY <1>1, Joined
<1> HIDE DEF h
<1>3. base = 3 * (q + Len(f))
  BY <1>1, <1>2
<1> HIDE DEF base
<1> DEFINE end == 3 * q + l
<1>4. /\ base <= end /\ end < base + 3 /\ Len(d) = end - base
      /\ \A i \in 1..Len(d) : d[i] = V!Video[base + i]
  BY <1>1, <1>3
<1>5. KeptFrom(base, end, d)
  BY <1>4 DEF KeptFrom
<1>6. AlignedAt(end, d, h)
  <2>1. GivenAll(h)
    BY <1>2 DEF GivenAll
  <2> QED
    BY <1>5, <2>1 DEF AlignedAt, base
<1> QED
  BY <1>2, <1>6 DEF h

LEMMA Flushed ==
  ASSUME NEW s \in Seq(Tokens), NEW g \in Seq(Seq(Tokens)), NEW q \in Nat,
         skew \in 0..2, Packets \in Nat, GivenAll(g),
         q = V!FirstWhole - 1 + Len(g),
         3 * q + Len(s) <= 3 * Packets,
         \A i \in 1..Len(s) : s[i] = V!Video[3 * q + i]
  PROVE  LET d == V!Drop(s, V!Whole(s) * V!PacketSize)
             h == g \o [i \in 1..V!Whole(s) |->
                    SubSeq(s, (i - 1) * V!PacketSize + 1, i * V!PacketSize)]
         IN  /\ AlignedAt(3 * q + Len(s), d, h)
             /\ d \in Seq(Tokens) /\ h \in Seq(Seq(Tokens))
<1> DEFINE d == V!Drop(s, V!Whole(s) * V!PacketSize)
           w == V!Whole(s)
           f == [i \in 1..w |->
                  SubSeq(s, (i - 1) * V!PacketSize + 1, i * V!PacketSize)]
<1>1. /\ w \in Nat /\ 3 * w <= Len(s) /\ Len(s) < 3 * w + 3
      /\ \A i \in 1..w :
           SubSeq(s, (i - 1) * V!PacketSize + 1, i * V!PacketSize)
             = V!Packet(q + i)
      /\ d \in Seq(Tokens)
      /\ Len(d) = Len(s) - 3 * w
      /\ \A i \in 1..Len(d) : d[i] = V!Video[3 * (q + w) + i]
  BY Cut
<1> HIDE DEF w, d
<1>2. f = [i \in 1..w |-> V!Packet(q + i)]
  BY <1>1
<1> HIDE DEF f
<1>3. f \in Seq(Seq(Tokens)) /\ Len(f) = w
  <2>1. \A i \in 1..w : V!Packet(q + i) \in Seq(Tokens)
    BY PacketSeq
  <2>2. f \in [1..w -> Seq(Tokens)]
    BY <1>2, <2>1
  <2> QED
    BY <1>1, <2>2
<1>4. \A j \in 1..Len(f) : f[j] = V!Packet(q + j)
  BY <1>2, <1>3
<1>5. Len(s) \in Nat
  BY LenProperties
<1>6. /\ d \in Seq(Tokens)
      /\ 3 * Len(f) <= Len(s) /\ Len(s) < 3 * Len(f) + 3
      /\ Len(d) = Len(s) - 3 * Len(f)
      /\ \A i \in 1..Len(d) : d[i] = V!Video[3 * (q + Len(f)) + i]
  BY <1>1, <1>3
<1>7. \A i \in 1..Len(g) : g[i] = V!Packet(V!FirstWhole + i - 1)
  BY DEF GivenAll
<1>8. AlignedAt(3 * q + Len(s), d, g \o f) /\ g \o f \in Seq(Seq(Tokens))
  BY <1>3, <1>4, <1>5, <1>6, <1>7, Gives
<1> QED
  BY <1>6, <1>8 DEF d, f, w

(* What is kept, and what comes after it.                                  *)
LEMMA KeptThen ==
  ASSUME NEW base \in Nat, NEW end \in Nat, NEW kept \in Seq(Tokens),
         NEW data \in Seq(Tokens), KeptFrom(base, end, kept),
         \A i \in 1..Len(data) : data[i] = V!Video[end + i]
  PROVE  /\ kept \o data \in Seq(Tokens)
         /\ base + Len(kept \o data) = end + Len(data)
         /\ \A i \in 1..Len(kept \o data) :
              (kept \o data)[i] = V!Video[base + i]
<1> DEFINE c == kept \o data
<1>1. /\ c \in Seq(Tokens) /\ Len(c) = Len(kept) + Len(data)
      /\ \A i \in 1..(Len(kept) + Len(data)) :
           c[i] = IF i <= Len(kept) THEN kept[i] ELSE data[i - Len(kept)]
  BY ConcatProperties
<1> HIDE DEF c
<1>2. Len(kept) \in Nat /\ Len(data) \in Nat
  BY LenProperties
<1>3. /\ Len(kept) = end - base
      /\ \A i \in 1..Len(kept) : kept[i] = V!Video[base + i]
  BY DEF KeptFrom
<1>4. ASSUME NEW i \in 1..Len(c)
      PROVE  c[i] = V!Video[base + i]
  <2>1. CASE i <= Len(kept)
    <3>1. i \in 1..Len(kept) /\ c[i] = kept[i]
      BY <1>1, <1>2, <2>1
    <3> QED
      BY <1>3, <3>1
  <2>2. CASE ~(i <= Len(kept))
    <3> DEFINE j == i - Len(kept)
    <3>1. j \in 1..Len(data) /\ c[i] = data[j] /\ end + j = base + i
      BY <1>1, <1>2, <1>3, <2>2
    <3> HIDE DEF j
    <3>2. data[j] = V!Video[end + j]
      BY <3>1
    <3> QED
      BY <3>1, <3>2
  <2> QED
    BY <2>1, <2>2
<1> QED
  BY <1>1, <1>2, <1>3, <1>4 DEF c

LEMMA SyncedWhole ==
  ASSUME NEW c \in Seq(Tokens), NEW q \in Nat, Packets \in Nat,
         3 * q + Len(c) <= 3 * Packets,
         \A i \in 1..Len(c) : c[i] = V!Video[3 * q + i]
  PROVE  V!Synced(c) = c
<1>1. CASE Len(c) < 3
  BY <1>1 DEF V!Synced, V!PacketSize
<1>2. CASE ~(Len(c) < 3)
  <2>1. Len(c) \in Nat /\ 1 \in 1..Len(c) /\ 1 \in DOMAIN c
    BY <1>2, LenProperties
  <2>2. c[1] = V!Video[3 * q + 1] /\ 3 * q + 1 <= 3 * Packets
    BY <1>2, <2>1
  <2>3. V!Video[3 * q + 1] = V!Packet(q + 1)[1]
    BY <2>2, VideoAt
  <2>4. V!Packet(q + 1)[1].kind = "sync"
    <3>1. q + 1 \in Nat
      OBVIOUS
    <3> QED
      BY <3>1, PacketsAre, Zenon
  <2>5. 1 \in V!Syncs(c)
    BY <2>1, <2>2, <2>3, <2>4, Zenon DEF V!Syncs
  <2> QED
    BY <2>5 DEF V!Synced
<1> QED
  BY <1>1, <1>2

LEMMA SyncedSkewed ==
  ASSUME NEW c \in Seq(Tokens), Packets \in Nat, skew \in {1, 2},
         1 \notin Lookalikes, skew + Len(c) <= 3 * Packets, Len(c) >= 3,
         \A i \in 1..Len(c) : c[i] = V!Video[skew + i]
  PROVE  LET s == V!Synced(c) IN
         /\ s \in Seq(Tokens) /\ 3 + Len(s) = skew + Len(c)
         /\ \A i \in 1..Len(s) : s[i] = V!Video[3 + i]
<1> DEFINE m == 4 - skew
<1>1. /\ Len(c) \in Nat /\ DOMAIN c = 1..Len(c) /\ m \in 1..Len(c)
      /\ m # 1 /\ m \in Nat /\ skew + m = 4 /\ m - 1 \in Nat
      /\ m - 1 <= Len(c) /\ Len(c) - (m - 1) + 3 = skew + Len(c)
  BY LenProperties
<1> HIDE DEF m
<1>2. c[m].kind = "sync"
  <2>1. c[m] = V!Video[4]
    BY <1>1
  <2>2. V!Video[3 * 1 + 1] = V!Packet(1 + 1)[1]
    BY <1>1, VideoAt
  <2>3. V!Packet(1 + 1)[1].kind = "sync"
    BY PacketsAre
  <2> QED
    BY <2>1, <2>2, <2>3
<1>3. ASSUME NEW i \in 1..Len(c), i < m
      PROVE  c[i].kind # "sync"
  <2> DEFINE r == skew + i
  <2>1. r \in {2, 3} /\ c[i] = V!Video[r]
    BY <1>1, <1>3
  <2>2. 3 * 0 + r = r /\ 3 * 0 + r <= 3 * Packets /\ r \in 1..3 /\ 0 + 1 = 1
    BY <1>1, <2>1
  <2> HIDE DEF r
  <2>3. V!Video[3 * 0 + r] = V!Packet(0 + 1)[r]
    BY <2>2, VideoAt
  <2>4. V!Packet(1)[2].kind # "sync" /\ V!Packet(1)[3].kind # "sync"
    BY PacketsAre
  <2> QED
    BY <2>1, <2>2, <2>3, <2>4
<1>4. m \in V!Syncs(c) /\ \A i \in V!Syncs(c) : i \in 1..Len(c) /\ ~(i < m)
  BY <1>1, <1>2, <1>3, Zenon DEF V!Syncs
<1>5. V!Min(V!Syncs(c)) = m
  <2>1. ASSUME NEW x \in V!Syncs(c)
        PROVE  x \in Nat /\ m <= x
    <3>1. x \in 1..Len(c) /\ ~(x < m)
      BY <1>4
    <3> QED
      BY <1>1, <3>1
  <2> QED
    BY <1>4, <2>1, Lowest
<1>6. V!Synced(c) = SubSeq(c, m, Len(c))
  <2>1. 1 \notin V!Syncs(c) /\ V!Syncs(c) # {}
    BY <1>1, <1>4
  <2>2. ~(Len(c) < 3)
    BY <1>1
  <2> QED
    BY <1>5, <2>1, <2>2 DEF V!Synced, V!PacketSize
<1> DEFINE n == m - 1
           s == SubSeq(c, n + 1, Len(c))
<1>7. n \in Nat /\ n <= Len(c) /\ n + 1 = m /\ skew + n = 3
  BY <1>1
<1> HIDE DEF n
<1>8. /\ s \in Seq(Tokens) /\ Len(s) = Len(c) - n
      /\ \A i \in 1..(Len(c) - n) : s[i] = c[n + i]
  BY <1>7, Rest
<1>9. V!Synced(c) = s
  BY <1>6, <1>7
<1> HIDE DEF s
<1>10. ASSUME NEW i \in 1..Len(s)
       PROVE  s[i] = V!Video[3 + i]
  <2>1. n + i \in 1..Len(c) /\ skew + (n + i) = 3 + i /\ s[i] = c[n + i]
    BY <1>1, <1>7, <1>8
  <2> QED
    BY <2>1
<1>11. 3 + Len(s) = skew + Len(c)
  BY <1>1, <1>7, <1>8
<1> QED
  BY <1>8, <1>9, <1>10, <1>11

LEMMA Forward ==
  ASSUME NEW end \in Nat, NEW data \in Seq(Tokens), skew \in 0..2,
         Packets \in Nat, tsBuffer \in Seq(Tokens), V!Recognizable,
         emitted \in Seq(Seq(Tokens)), AlignedAt(end, tsBuffer, emitted),
         end + Len(data) <= 3 * Packets,
         \A i \in 1..Len(data) : data[i] = V!Video[end + i],
         V!forwardTsPackets(data)
  PROVE  AlignedAt(end + Len(data), tsBuffer', emitted')
<1> DEFINE c == tsBuffer \o data
           s == V!Synced(c)
           q == V!FirstWhole - 1 + Len(emitted)
           last == end + Len(data)
<1>1. /\ tsBuffer' = V!Drop(s, V!Whole(s) * V!PacketSize)
      /\ emitted' = emitted \o [i \in 1..V!Whole(s) |->
                      SubSeq(s, (i - 1) * V!PacketSize + 1, i * V!PacketSize)]
  BY DEF V!forwardTsPackets
<1>2. GivenAll(emitted)
  BY DEF AlignedAt
<1>3. q \in Nat /\ Len(data) \in Nat /\ last \in Nat
  BY FirstWholes, LenProperties
<1>4. ASSUME s \in Seq(Tokens), 3 * q + Len(s) = last,
             \A i \in 1..Len(s) : s[i] = V!Video[3 * q + i]
      PROVE  AlignedAt(last, tsBuffer', emitted')
  <2> HIDE DEF s, q
  <2> SUFFICES AlignedAt(3 * q + Len(s), tsBuffer', emitted')
    BY <1>4
  <2>1. 3 * q + Len(s) <= 3 * Packets
    BY <1>4
  <2>2. q = V!FirstWhole - 1 + Len(emitted)
    BY DEF q
  <2> QED
    BY <1>1, <1>2, <1>3, <1>4, <2>1, <2>2, Flushed
<1>5. CASE KeptFrom(3 * q, end, tsBuffer)
  <2>1. /\ c \in Seq(Tokens) /\ 3 * q + Len(c) = last
        /\ \A i \in 1..Len(c) : c[i] = V!Video[3 * q + i]
    <3>1. 3 * q \in Nat
      BY <1>3
    <3> HIDE DEF q
    <3> QED
      BY <1>5, <3>1, KeptThen
  <2> HIDE DEF c, q
  <2>2. s = c
    BY <1>3, <2>1, SyncedWhole
  <2> HIDE DEF s
  <2> QED
    BY <1>4, <2>1, <2>2
<1>6. CASE emitted = << >> /\ KeptFrom(skew, end, tsBuffer)
  <2>1. /\ c \in Seq(Tokens) /\ skew + Len(c) = last
        /\ \A i \in 1..Len(c) : c[i] = V!Video[skew + i]
    BY <1>6, KeptThen
  <2>2. CASE skew = 0
    <3>1. q = 0
      BY <1>6, <2>2, FirstWholes
    <3>2. KeptFrom(3 * q, end, tsBuffer)
      <4>1. 3 * q = skew
        BY <2>2, <3>1
      <4> HIDE DEF q
      <4> QED
        BY <1>6, <4>1
    <3> QED
      BY <1>5, <3>2
  <2>3. CASE skew # 0 /\ Len(c) >= 3
    <3>1. q = 1
      BY <1>6, <2>3, FirstWholes
    <3> HIDE DEF c, q
    <3>2. /\ s \in Seq(Tokens) /\ 3 + Len(s) = skew + Len(c)
          /\ \A i \in 1..Len(s) : s[i] = V!Video[3 + i]
      <4>1. /\ skew \in {1, 2} /\ skew + Len(c) <= 3 * Packets
            /\ 1 \notin Lookalikes
        BY <2>1, <2>3 DEF V!Recognizable
      <4> QED
        BY <2>1, <2>3, <4>1, SyncedSkewed
    <3> HIDE DEF s
    <3>3. 3 * q = 3
      BY <3>1
    <3> QED
      BY <1>4, <2>1, <3>2, <3>3
  <2>4. CASE ~(Len(c) >= 3)
    <3> HIDE DEF c
    <3>1. Len(c) \in Nat /\ Len(c) < 3
      BY <2>1, <2>4, LenProperties
    <3>2. s = c
      BY <3>1 DEF V!Synced, V!PacketSize
    <3>3. V!Whole(s) = 0
      BY <3>1, <3>2 DEF V!Whole, V!PacketSize
    <3>4. tsBuffer' = c
      <4>1. 0 * V!PacketSize = 0 /\ 0 + 1 = 1
        BY DEF V!PacketSize
      <4>2. V!Drop(c, 0) = c
        BY <2>1, SubSeqFull DEF V!Drop
      <4> HIDE DEF s
      <4> QED
        BY <1>1, <3>2, <3>3, <4>1, <4>2
    <3>5. emitted' = << >>
      <4> DEFINE f == [i \in 1..V!Whole(s) |->
                        SubSeq(s, (i - 1) * V!PacketSize + 1, i * V!PacketSize)]
      <4>1. f = << >>
        BY <3>3
      <4>2. emitted' = emitted \o f
        BY <1>1
      <4> HIDE DEF f
      <4> QED
        BY <1>6, <4>1, <4>2
    <3>6. KeptFrom(skew, last, c)
      <4>1. /\ skew <= last /\ last < skew + 3 /\ Len(c) = last - skew
        BY <1>3, <2>1, <3>1
      <4> HIDE DEF last
      <4> QED
        BY <2>1, <4>1 DEF KeptFrom
    <3>7. AlignedAt(last, tsBuffer', emitted')
      <4>1. GivenAll(emitted')
        BY <1>2, <1>6, <3>5
      <4> QED
        BY <3>4, <3>5, <3>6, <4>1 DEF AlignedAt
    <3> QED
      BY <2>1, <3>4, <3>5, <3>7
  <2> QED
    BY <2>2, <2>3, <2>4
<1> QED
  BY <1>5, <1>6 DEF AlignedAt

(* Whatever is taken for a sync byte, less than a packet is kept.          *)
LEMMA SyncedTypes ==
  ASSUME NEW c \in Seq(Tokens)
  PROVE  V!Synced(c) \in Seq(Tokens)
<1>1. CASE V!Synced(c) = c \/ V!Synced(c) = << >>
  <2>1. << >> \in Seq(Tokens)
    OBVIOUS
  <2> QED
    BY <1>1, <2>1
<1>2. CASE V!Syncs(c) # {} /\ V!Synced(c) = SubSeq(c, V!Min(V!Syncs(c)), Len(c))
  <2>1. Len(c) \in Nat /\ DOMAIN c = 1..Len(c)
    BY LenProperties
  <2>2. V!Syncs(c) \subseteq 1..Len(c)
    BY <2>1, Zenon DEF V!Syncs
  <2>3. PICK m \in V!Syncs(c) : \A x \in V!Syncs(c) : m <= x
    <3>1. V!Syncs(c) \in SUBSET Nat
      BY <2>1, <2>2
    <3> QED
      BY <1>2, <3>1, Least
  <2>4. V!Min(V!Syncs(c)) = m
    BY <2>1, <2>2, <2>3, Lowest
  <2>5. m \in 1..Len(c)
    BY <2>2
  <2>6. SubSeq(c, m, Len(c)) \in Seq(Tokens)
    BY <2>1, <2>5, Piece
  <2> QED
    BY <1>2, <2>4, <2>6
<1> QED
  BY <1>1, <1>2 DEF V!Synced

LEMMA ForwardTypes ==
  ASSUME NEW data \in Seq(Tokens), tsBuffer \in Seq(Tokens),
         emitted \in Seq(Seq(Tokens)), V!forwardTsPackets(data)
  PROVE  /\ tsBuffer' \in Seq(Tokens) /\ Len(tsBuffer') < 3
         /\ emitted' \in Seq(Seq(Tokens))
<1> DEFINE s == V!Synced(tsBuffer \o data)
           w == V!Whole(s)
           f == [i \in 1..w |->
                  SubSeq(s, (i - 1) * V!PacketSize + 1, i * V!PacketSize)]
<1>1. tsBuffer' = V!Drop(s, w * V!PacketSize) /\ emitted' = emitted \o f
  BY DEF V!forwardTsPackets
<1>2. s \in Seq(Tokens)
  <2>1. tsBuffer \o data \in Seq(Tokens)
    BY ConcatProperties
  <2> QED
    BY <2>1, SyncedTypes
<1>3. w = Len(s) \div 3 /\ V!PacketSize = 3
  BY DEF V!Whole, V!PacketSize
<1> HIDE DEF s, w
<1>4. /\ Len(s) \in Nat /\ w \in Nat /\ 3 * w <= Len(s) /\ Len(s) < 3 * w + 3
  BY <1>2, <1>3, LenProperties
<1> PICK n : n = 3 * w
  OBVIOUS
<1> DEFINE d == SubSeq(s, n + 1, Len(s))
<1>5. d \in Seq(Tokens) /\ Len(d) = Len(s) - n
  <2>1. n \in Nat /\ n <= Len(s)
    BY <1>4
  <2> QED
    BY <1>2, <2>1, Rest
<1>6. tsBuffer' = d
  <2>1. w * V!PacketSize = n
    BY <1>3, <1>4
  <2> QED
    BY <1>1, <2>1 DEF V!Drop
<1>7. f \in Seq(Seq(Tokens))
  <2>1. ASSUME NEW i \in 1..w
        PROVE  SubSeq(s, (i - 1) * V!PacketSize + 1, i * V!PacketSize)
                 \in Seq(Tokens)
    <3> DEFINE a == (i - 1) * V!PacketSize + 1
               b == i * V!PacketSize
    <3>1. a \in Nat /\ b \in Nat /\ 1 <= a /\ a <= b + 1 /\ b <= Len(s)
      BY <1>3, <1>4
    <3> HIDE DEF a, b
    <3>2. SubSeq(s, a, b) \in Seq(Tokens)
      BY <1>2, <3>1, Piece
    <3> QED
      BY <3>2 DEF a, b
  <2>2. f \in [1..w -> Seq(Tokens)]
    BY <2>1
  <2> QED
    BY <1>4, <2>2
<1> HIDE DEF f, d
<1>8. emitted \o f \in Seq(Seq(Tokens))
  BY <1>7, ConcatProperties
<1>9. Len(d) < 3
  BY <1>4, <1>5
<1> QED
  BY <1>1, <1>5, <1>6, <1>8, <1>9

LEMMA NoHeaders ==
  ASSUME VideoTypes, Strange, foreign
  PROVE  ~V!HasHeaders
<1>1. ASSUME NEW i \in V!Starts(buffer, V!boundary)
      PROVE  FALSE
  <2>1. Len(V!boundary) = 2
    BY DEF V!boundary
  <2>2. /\ i \in 1..(Len(buffer) + 1 - 2)
        /\ SubSeq(buffer, i, i + 2 - 1) = V!boundary
    BY <1>1, <2>1, Zenon DEF V!Starts
  <2>3. /\ i \in Nat /\ 1 <= i /\ i + 1 <= Len(buffer) /\ i + 2 - 1 = i + 1
        /\ i \in 1..Len(buffer)
    BY <2>2, Numbers
  <2>4. SubSeq(buffer, i, i + 1) = <<buffer[i], buffer[i + 1]>>
    BY <2>3, Couple DEF VideoTypes
  <2>5. <<buffer[i], buffer[i + 1]>> = V!boundary
    BY <2>2, <2>3, <2>4
  <2>6. buffer[i] = V!boundary[1]
    BY <2>5
  <2>7. buffer[i] = V!Token("other")
    BY <2>3 DEF Strange
  <2> QED
    BY <2>6, <2>7, TokensAre
<1> QED
  BY <1>1 DEF V!HasHeaders

LEMMA VideoInit ==
  ASSUME V!Init
  PROVE  VideoInv
<1>1. /\ parts = << >> /\ received = 0 /\ handled = 0 /\ buffer = << >>
      /\ tsBuffer = << >> /\ emitted = << >> /\ progressed = FALSE
      /\ alive = TRUE /\ foreign \in BOOLEAN /\ skew \in 0..2
      /\ wire = IF foreign THEN V!Foreign ELSE << >>
  BY DEF V!Init, V!PacketSize
<1>2. wire \in Seq(Tokens)
  <2>1. V!Foreign \in [1..(MaxBuffer + 1) -> Tokens] /\ MaxBuffer + 1 \in Nat
    BY TokensAre, VideoBounds DEF V!Foreign
  <2>2. V!Foreign \in Seq(Tokens)
    BY <2>1
  <2>3. << >> \in Seq(Tokens)
    OBVIOUS
  <2> QED
    BY <1>1, <2>2, <2>3
<1>3. VideoTypes
  <2>1. /\ << >> \in Seq(Tokens) /\ << >> \in Seq(Seq(Tokens))
        /\ << >> \in Seq(PartRecords) /\ Len(<< >>) = 0
    OBVIOUS
  <2>2. Len(wire) \in Nat
    BY <1>2, LenProperties
  <2>3. /\ received \in 0..Len(wire) /\ handled \in 0..Len(parts)
        /\ Len(buffer) <= MaxBuffer /\ Len(tsBuffer) < 3
    BY <1>1, <2>1, <2>2, VideoBounds
  <2> QED
    BY <1>1, <1>2, <2>1, <2>3 DEF VideoTypes
<1>4. Len(parts) = 0 /\ Len(buffer) = 0 /\ V!Ends(0) = 0 /\ V!Shows(0) = skew
  BY <1>1 DEF V!Ends, V!Shows
<1>5. Laid /\ Kept /\ Waiting
  <2>1. ~foreign => Len(wire) = 0
    BY <1>1
  <2>2. Laid
    BY <1>4, <2>1 DEF Laid
  <2>3. Kept
    BY <1>1, <1>4 DEF Kept
  <2> QED
    BY <1>1, <1>4, <2>2, <2>3 DEF Waiting
<1>6. Aligned
  <2>1. GivenAll(emitted)
    BY <1>1 DEF GivenAll
  <2>2. KeptFrom(skew, skew, tsBuffer)
    BY <1>1 DEF KeptFrom
  <2> QED
    BY <1>1, <1>4, <2>1, <2>2 DEF Aligned, AlignedAt
<1>7. Strange
  BY <1>1, <1>4 DEF Strange
<1> QED
  BY <1>3, <1>5, <1>6, <1>7 DEF VideoInv

LEMMA CameraStays ==
  ASSUME UNCHANGED V!camera
  PROVE  /\ \A k : V!Ends(k)' = V!Ends(k) /\ V!Shows(k)' = V!Shows(k)
         /\ Laid => Laid'
         /\ wire' = wire /\ parts' = parts /\ foreign' = foreign
         /\ skew' = skew
<1>1. /\ wire' = wire /\ parts' = parts /\ foreign' = foreign
      /\ skew' = skew
  BY DEF V!camera
<1>2. \A k : V!Ends(k)' = V!Ends(k) /\ V!Shows(k)' = V!Shows(k)
  BY <1>1 DEF V!Ends, V!Shows
<1>3. Laid => Laid'
  BY <1>1, <1>2 DEF Laid, LaidAt, Size, Content, V!Ends, V!Shows
<1> QED
  BY <1>1, <1>2, <1>3

LEMMA AlignedNext ==
  ASSUME NEW end, skew' = skew, V!Shows(handled)' = end,
         V!Recognizable => AlignedAt(end, tsBuffer', emitted')
  PROVE  Aligned'
<1>1. V!FirstWhole' = V!FirstWhole /\ V!Recognizable' = V!Recognizable
  BY DEF V!FirstWhole, V!Recognizable
<1> QED
  BY <1>1 DEF Aligned, AlignedAt, GivenAll, KeptFrom

(* A part handled, or stepped past.                                        *)
LEMMA Advance ==
  ASSUME VideoInv, ~foreign, alive, progressed, handled < Len(parts),
         UNCHANGED <<V!camera, received, progressed>>, alive' \in BOOLEAN,
         NEW k, k = handled + 1, handled' = handled + 1,
         buffer' \in Seq(Tokens),
         Len(buffer') = Len(buffer) - (5 + Size(k)),
         \A i \in 1..Len(buffer') : buffer'[i] = buffer[5 + Size(k) + i],
         tsBuffer' \in Seq(Tokens), Len(tsBuffer') < 3,
         emitted' \in Seq(Seq(Tokens)),
         V!Recognizable => AlignedAt(V!Shows(k), tsBuffer', emitted')
  PROVE  VideoInv'
<1> DEFINE e == V!Ends(handled)
<1>1. /\ k \in 1..Len(parts) /\ LaidAt(k, e, V!Shows(handled))
      /\ e \in Nat /\ Size(k) \in Nat
  BY NextPart DEF VideoInv
<1>2. /\ wire' = wire /\ parts' = parts /\ foreign' = foreign /\ skew' = skew
      /\ received' = received /\ progressed' = progressed
  BY CameraStays
<1>3. V!Ends(k) = e + 5 + Size(k)
  BY <1>1 DEF LaidAt
<1>4. /\ V!Ends(handled)' = V!Ends(k)
      /\ V!Shows(handled)' = V!Shows(k)
  BY <1>2 DEF V!Ends, V!Shows
<1>5. /\ Len(buffer) \in Nat /\ Len(buffer') \in Nat /\ received \in Nat
      /\ Len(buffer) <= MaxBuffer /\ MaxBuffer \in Nat
  BY Numbers, LenProperties, VideoBounds DEF VideoInv, VideoTypes
<1>6. VideoTypes'
  <2>1. Len(buffer') <= MaxBuffer /\ handled' \in 0..Len(parts)
    BY <1>1, <1>5, Numbers DEF VideoInv
  <2> QED
    BY <1>2, <2>1 DEF VideoInv, VideoTypes
<1>7. Kept'
  <2>1. /\ e <= received /\ Len(buffer) = received - e
        /\ \A i \in 1..Len(buffer) : buffer[i] = wire[e + i]
    BY DEF VideoInv, Kept
  <2> DEFINE e2 == e + 5 + Size(k)
  <2> HIDE DEF e
  <2>2. e2 <= received /\ Len(buffer') = received - e2
    BY <1>1, <1>5, <2>1
  <2>3. ASSUME NEW i \in 1..Len(buffer')
        PROVE  buffer'[i] = wire[e2 + i]
    <3> DEFINE j == 5 + Size(k) + i
    <3>1. j \in 1..Len(buffer) /\ e + j = e2 + i /\ buffer'[i] = buffer[j]
      BY <1>1, <1>5
    <3> HIDE DEF j, e2
    <3>2. buffer[j] = wire[e + j]
      BY <2>1, <3>1
    <3> QED
      BY <3>1, <3>2
  <2>4. V!Ends(handled)' = e2
    BY <1>3, <1>4
  <2> HIDE DEF e2
  <2>5. /\ V!Ends(handled)' <= received'
        /\ Len(buffer') = received' - V!Ends(handled)'
        /\ \A i \in 1..Len(buffer') : buffer'[i] = wire'[V!Ends(handled)' + i]
    BY <1>2, <2>2, <2>3, <2>4
  <2> QED
    BY <2>5 DEF Kept
<1>8. Waiting'
  BY <1>2 DEF Waiting
<1>9. Aligned'
  BY <1>2, <1>4, AlignedNext
<1>10. Laid' /\ Strange'
  BY <1>2, CameraStays DEF VideoInv, Strange
<1> QED
  BY <1>6, <1>7, <1>8, <1>9, <1>10 DEF VideoInv

(* What is behind the headers of the part.                                 *)
LEMMA Behind ==
  ASSUME VideoInv, ~foreign, alive, V!HasHeaders, NEW k, k = handled + 1
  PROVE  /\ handled < Len(parts) /\ Len(buffer) >= 5
         /\ LaidAt(k, V!Ends(handled), V!Shows(handled))
         /\ Size(k) \in Nat /\ V!Shows(handled) \in Nat /\ V!Ends(handled) \in Nat
         /\ Content(k) \in Contents
         /\ V!HasLength <=> Content(k) # "unreadable"
         /\ V!headers.kind = Content(k) /\ V!headers.n = Size(k)
         /\ V!afterHeaders \in Seq(Tokens)
         /\ Len(V!afterHeaders) = Len(buffer) - 5
         /\ \A i \in 1..Len(V!afterHeaders) :
              V!afterHeaders[i] = buffer[5 + i]
<1>1. /\ handled < Len(parts) /\ Len(buffer) >= 5
      /\ V!headers = V!Header(Content(k), Size(k))
      /\ V!afterHeaders = SubSeq(buffer, 6, Len(buffer))
  <2>1. /\ V!HasHeaders <=> Len(buffer) >= 5
        /\ Len(buffer) >= 1 => handled < Len(parts)
        /\ Len(buffer) >= 5 =>
             /\ V!headers = V!Header(Content(k), Size(k))
             /\ V!afterHeaders = SubSeq(buffer, 6, Len(buffer))
    BY Heads
  <2>2. Len(buffer) \in Nat
    BY Numbers DEF VideoInv
  <2> QED
    BY <2>1, <2>2
<1>2. /\ LaidAt(k, V!Ends(handled), V!Shows(handled))
      /\ Size(k) \in Nat /\ V!Shows(handled) \in Nat /\ V!Ends(handled) \in Nat
      /\ Content(k) \in Contents
  BY <1>1, NextPart DEF VideoInv
<1>3. V!headers.kind = Content(k) /\ V!headers.n = Size(k)
  BY <1>1, <1>2, HeadersAre
<1>4. V!HasLength <=> Content(k) # "unreadable"
  BY <1>3 DEF V!HasLength
<1> DEFINE r == SubSeq(buffer, 5 + 1, Len(buffer))
<1>5. /\ r \in Seq(Tokens) /\ Len(r) = Len(buffer) - 5
      /\ \A i \in 1..(Len(buffer) - 5) : r[i] = buffer[5 + i]
  BY <1>1, Rest DEF VideoInv, VideoTypes
<1>6. V!afterHeaders = r
  BY <1>1
<1> HIDE DEF r
<1>7. /\ V!afterHeaders \in Seq(Tokens)
      /\ Len(V!afterHeaders) = Len(buffer) - 5
      /\ \A i \in 1..Len(V!afterHeaders) : V!afterHeaders[i] = buffer[5 + i]
  BY <1>5, <1>6
<1> QED
  BY <1>1, <1>2, <1>3, <1>4, <1>7

LEMMA SkipsPartKeeps ==
  ASSUME VideoInv, V!SkipsPart
  PROVE  VideoInv'
<1>1. /\ alive /\ progressed /\ V!HasHeaders /\ ~V!HasLength
      /\ buffer' = V!afterHeaders /\ handled' = handled + 1
      /\ UNCHANGED <<V!camera, received, progressed>> /\ alive' = alive
      /\ UNCHANGED <<tsBuffer, emitted>>
  BY DEF V!SkipsPart
<1>2. ~foreign
  BY <1>1, NoHeaders DEF VideoInv
<1> DEFINE k == handled + 1
<1>3. /\ handled < Len(parts)
      /\ LaidAt(k, V!Ends(handled), V!Shows(handled))
      /\ Content(k) = "unreadable" /\ V!Shows(handled) \in Nat
      /\ V!afterHeaders \in Seq(Tokens)
      /\ Len(V!afterHeaders) = Len(buffer) - 5
      /\ \A i \in 1..Len(V!afterHeaders) : V!afterHeaders[i] = buffer[5 + i]
  BY <1>1, <1>2, Behind
<1> HIDE DEF k
<1>10. Size(k) = 0
  <2>1. Size(k) \in V!Sizes["unreadable"]
    BY <1>3 DEF LaidAt
  <2> QED
    BY <2>1, VideoBounds
<1>4. /\ buffer' \in Seq(Tokens) /\ Len(buffer') = Len(buffer) - (5 + Size(k))
      /\ \A i \in 1..Len(buffer') : buffer'[i] = buffer[5 + Size(k) + i]
  <2>1. 5 + Size(k) = 5
    BY <1>10
  <2> QED
    BY <1>1, <1>3, <2>1
<1>5. V!Shows(k) = V!Shows(handled)
  <2>1. V!Shows(k) = V!Shows(handled) + 0
    BY <1>3 DEF LaidAt, V!Shown
  <2> QED
    BY <1>3, <2>1
<1>6. /\ V!Recognizable => AlignedAt(V!Shows(k), tsBuffer', emitted')
      /\ tsBuffer' \in Seq(Tokens) /\ emitted' \in Seq(Seq(Tokens))
      /\ Len(tsBuffer') < 3
  BY <1>1, <1>5 DEF VideoInv, VideoTypes, Aligned
<1>7. alive' \in BOOLEAN
  BY <1>1, Zenon DEF VideoInv, VideoTypes
<1> QED
  BY <1>1, <1>2, <1>3, <1>4, <1>6, <1>7, Advance DEF k

LEMMA PartKeeps ==
  ASSUME VideoInv, V!Part
  PROVE  VideoInv'
<1> DEFINE a == V!afterHeaders
           n == V!headers.n
           data == SubSeq(a, 1, n)
<1>1. /\ alive /\ progressed /\ V!HasHeaders /\ V!HasLength /\ Len(a) >= n
      /\ buffer' = V!Drop(a, n) /\ handled' = handled + 1
      /\ UNCHANGED <<V!camera, received, progressed>>
      /\ alive' = (V!headers.kind # "undecipherable")
      /\ IF V!headers.kind = "video" THEN V!forwardTsPackets(data)
                                     ELSE tsBuffer' = tsBuffer /\ emitted' = emitted
  BY DEF V!Part, V!HasBody, V!HasLength
<1>2. ~foreign
  BY <1>1, NoHeaders DEF VideoInv
<1> DEFINE k == handled + 1
           v == V!Shows(handled)
           e == V!Ends(handled)
<1>3. /\ handled < Len(parts) /\ LaidAt(k, e, v)
      /\ Size(k) \in Nat /\ n = Size(k) /\ v \in Nat /\ e \in Nat
      /\ V!headers.kind = Content(k)
      /\ a \in Seq(Tokens) /\ Len(a) = Len(buffer) - 5
      /\ \A i \in 1..Len(a) : a[i] = buffer[5 + i]
  BY <1>1, <1>2, Behind
<1> HIDE DEF k, v, e, a, n
<1>4. /\ V!Shows(k) <= 3 * Packets
      /\ Content(k) # "video" => V!Shows(k) = v + 0
      /\ Content(k) = "video" =>
           /\ V!Shows(k) = v + n
           /\ \A j \in 1..n : wire[e + 5 + j] = V!Video[v + j]
  BY <1>3 DEF LaidAt, V!Shown
<1>5. /\ Len(buffer) \in Nat /\ Len(a) \in Nat /\ n \in Nat /\ n <= Len(a)
      /\ Packets \in Nat /\ skew \in 0..2
  BY <1>1, <1>3, Numbers, LenProperties, VideoBounds DEF VideoInv, VideoTypes
<1>6. /\ data \in Seq(Tokens) /\ Len(data) = n
      /\ \A i \in 1..n : data[i] = a[i]
  <2>1. /\ data \in Seq(Tokens) /\ Len(data) = n + 1 - 1
        /\ \A i \in 1..(n + 1 - 1) : data[i] = a[1 + i - 1]
    BY <1>3, <1>5, Piece
  <2>2. n + 1 - 1 = n /\ \A i \in Nat : 1 + i - 1 = i
    BY <1>5
  <2> HIDE DEF data
  <2> QED
    BY <1>5, <2>1, <2>2
<1> HIDE DEF data
<1>7. ASSUME Content(k) = "video", NEW i \in 1..Len(data)
      PROVE  data[i] = V!Video[v + i]
  <2>1. /\ i \in 1..n /\ i \in 1..Len(a) /\ 5 + i \in 1..Len(buffer)
        /\ e + 5 + i = e + (5 + i)
    BY <1>3, <1>5, <1>6
  <2>2. data[i] = buffer[5 + i]
    BY <1>3, <1>6, <2>1
  <2>3. buffer[5 + i] = wire[e + (5 + i)]
    BY <1>1, <1>2, <2>1 DEF VideoInv, Kept, e
  <2>4. wire[e + 5 + i] = V!Video[v + i]
    BY <1>4, <1>7, <2>1
  <2> QED
    BY <2>1, <2>2, <2>3, <2>4
<1>8. /\ V!Recognizable => AlignedAt(v, tsBuffer, emitted)
      /\ tsBuffer \in Seq(Tokens) /\ emitted \in Seq(Seq(Tokens))
      /\ Len(tsBuffer) < 3
  BY DEF VideoInv, VideoTypes, Aligned, v
<1>9. /\ V!Recognizable => AlignedAt(V!Shows(k), tsBuffer', emitted')
      /\ tsBuffer' \in Seq(Tokens) /\ Len(tsBuffer') < 3
      /\ emitted' \in Seq(Seq(Tokens))
  <2>1. CASE Content(k) = "video"
    <3>1. /\ v + Len(data) <= 3 * Packets /\ V!forwardTsPackets(data)
          /\ V!Shows(k) = v + Len(data)
      BY <1>1, <1>3, <1>4, <1>6, <2>1
    <3>2. V!Recognizable => AlignedAt(v + Len(data), tsBuffer', emitted')
      BY <1>3, <1>5, <1>6, <1>7, <1>8, <2>1, <3>1, Forward
    <3>3. /\ tsBuffer' \in Seq(Tokens) /\ Len(tsBuffer') < 3
          /\ emitted' \in Seq(Seq(Tokens))
      BY <1>6, <1>8, <3>1, ForwardTypes
    <3> QED
      BY <3>1, <3>2, <3>3
  <2>2. CASE Content(k) # "video"
    <3>1. V!Shows(k) = v /\ tsBuffer' = tsBuffer /\ emitted' = emitted
      BY <1>1, <1>3, <1>4, <2>2
    <3> QED
      BY <1>8, <3>1
  <2> QED
    BY <2>1, <2>2
<1> DEFINE d == SubSeq(a, n + 1, Len(a))
<1>10. /\ d \in Seq(Tokens) /\ Len(d) = Len(a) - n
       /\ \A i \in 1..(Len(a) - n) : d[i] = a[n + i]
  BY <1>3, <1>5, Rest
<1>11. buffer' = d
  BY <1>1 DEF V!Drop
<1> HIDE DEF d
<1>12. /\ buffer' \in Seq(Tokens) /\ Len(buffer') = Len(buffer) - (5 + Size(k))
       /\ \A i \in 1..Len(buffer') : buffer'[i] = buffer[5 + Size(k) + i]
  <2>1. Len(d) = Len(buffer) - (5 + n)
    BY <1>3, <1>5, <1>10
  <2>2. ASSUME NEW i \in 1..Len(d)
        PROVE  d[i] = buffer[5 + n + i]
    <3>1. n + i \in 1..Len(a) /\ d[i] = a[n + i] /\ 5 + (n + i) = 5 + n + i
      BY <1>5, <1>10
    <3> QED
      BY <1>3, <3>1
  <2> QED
    BY <1>3, <1>10, <1>11, <2>1, <2>2
<1>13. alive' \in BOOLEAN
  BY <1>1, Zenon
<1> QED
  BY <1>1, <1>2, <1>3, <1>9, <1>12, <1>13, Advance DEF k

LEMMA WaitsKeeps ==
  ASSUME VideoInv, V!Waits
  PROVE  VideoInv'
<1>1. /\ alive /\ progressed
      /\ ~V!HasHeaders \/ (V!HasLength /\ ~V!HasBody)
      /\ UNCHANGED V!camera
      /\ progressed' = FALSE /\ received' = received /\ handled' = handled
      /\ buffer' = buffer /\ tsBuffer' = tsBuffer /\ emitted' = emitted
      /\ alive' = alive
  BY DEF V!Waits
<1>2. /\ wire' = wire /\ parts' = parts /\ foreign' = foreign /\ skew' = skew
      /\ Laid'
  BY <1>1, CameraStays DEF VideoInv
<1>3. VideoTypes'
  BY <1>1, <1>2 DEF VideoInv, VideoTypes
<1>4. /\ V!Ends(handled)' = V!Ends(handled)
      /\ V!Shows(handled)' = V!Shows(handled)
      /\ V!Ends(handled + 1)' = V!Ends(handled + 1)
  BY <1>1, <1>2 DEF V!Ends, V!Shows
<1>5. Kept' /\ Strange'
  BY <1>1, <1>2, <1>4 DEF VideoInv, Kept, Strange
<1>6. Aligned'
  BY <1>1, <1>2, <1>4, AlignedNext DEF VideoInv, Aligned
<1>7. Waiting'
  <2> SUFFICES ASSUME ~foreign, handled < Len(parts)
               PROVE  received < V!Ends(handled + 1)
    BY <1>1, <1>2, <1>4 DEF Waiting
  <2> DEFINE k == handled + 1
  <2>1. /\ LaidAt(k, V!Ends(handled), V!Shows(handled))
        /\ V!Ends(handled) \in Nat /\ Size(k) \in Nat
    BY NextPart DEF VideoInv
  <2>2. V!Ends(k) = V!Ends(handled) + 5 + Size(k)
    BY <2>1 DEF LaidAt
  <2>3. /\ Len(buffer) = received - V!Ends(handled)
        /\ Len(buffer) \in Nat /\ received \in Nat
    BY <1>1, Numbers DEF VideoInv, Kept
  <2>4. Len(buffer) < 5 + Size(k)
    <3>1. CASE ~V!HasHeaders
      <4>1. ~(Len(buffer) >= 5)
        BY <1>1, <3>1, Heads
      <4> QED
        BY <2>1, <2>3, <4>1
    <3>2. CASE V!HasLength /\ ~V!HasBody
      <4>1. V!HasHeaders
        BY <3>2 DEF V!HasLength
      <4>2. /\ V!headers.n = Size(k)
            /\ Len(V!afterHeaders) = Len(buffer) - 5
        BY <1>1, <3>2, <4>1, Behind
      <4>3. ~(Len(V!afterHeaders) >= V!headers.n)
        BY <3>2 DEF V!HasBody
      <4> QED
        BY <2>1, <2>3, <4>2, <4>3
    <3> QED
      BY <1>1, <3>1, <3>2
  <2> QED
    BY <2>1, <2>2, <2>3, <2>4
<1> QED
  BY <1>2, <1>3, <1>5, <1>6, <1>7 DEF VideoInv

LEMMA OnDataKeeps ==
  ASSUME VideoInv, NEW n \in 1..MaxChunk, V!onData(n)
  PROVE  VideoInv'
<1> DEFINE size == Len(buffer) + n
           piece == SubSeq(wire, received + 1, received + n)
<1>1. /\ alive /\ ~progressed /\ received + n <= Len(wire)
      /\ received' = received + n
      /\ UNCHANGED V!camera
      /\ handled' = handled /\ tsBuffer' = tsBuffer /\ emitted' = emitted
      /\ IF size > MaxBuffer
           THEN buffer' = << >> /\ alive' = FALSE /\ progressed' = progressed
           ELSE /\ buffer' = buffer \o piece
                /\ progressed' = TRUE
                /\ alive' = alive
  BY DEF V!onData
<1>2. /\ wire' = wire /\ parts' = parts /\ foreign' = foreign /\ skew' = skew
      /\ Laid'
  BY <1>1, CameraStays DEF VideoInv
<1>3. /\ V!Ends(handled)' = V!Ends(handled)
      /\ V!Shows(handled)' = V!Shows(handled)
      /\ V!Ends(handled) \in Nat
  <2>1. V!Ends(handled) \in Nat
    BY Marks DEF VideoInv, VideoTypes
  <2> QED
    BY <1>1, <1>2, <2>1 DEF V!Ends, V!Shows
<1>4. Aligned'
  BY <1>1, <1>2, <1>3, AlignedNext DEF VideoInv, Aligned
<1>5. /\ n \in Nat /\ received \in Nat /\ Len(wire) \in Nat
      /\ Len(buffer) \in Nat /\ MaxBuffer \in Nat
      /\ wire \in Seq(Tokens) /\ buffer \in Seq(Tokens)
  BY Numbers, VideoBounds DEF VideoInv, VideoTypes
<1>6. received' \in 0..Len(wire')
  BY <1>1, <1>2, <1>5
<1>7. CASE size > MaxBuffer
  <2>1. buffer' = << >> /\ alive' = FALSE /\ progressed' = progressed
    BY <1>1, <1>7
  <2>2. buffer' \in Seq(Tokens) /\ Len(buffer') = 0
    BY <2>1
  <2>3. VideoTypes'
    <3>1. Len(buffer') <= MaxBuffer
      BY <1>5, <2>2
    <3>2. alive' \in BOOLEAN /\ progressed' \in BOOLEAN
      BY <2>1, Zenon DEF VideoInv, VideoTypes
    <3> QED
      BY <1>1, <1>2, <1>6, <2>2, <3>1, <3>2 DEF VideoInv, VideoTypes
  <2>4. Kept' /\ Waiting'
    BY <2>1 DEF Kept, Waiting
  <2>5. Strange'
    BY <1>2, <2>1, <2>2 DEF VideoInv, Strange
  <2> QED
    BY <1>2, <1>4, <2>3, <2>4, <2>5 DEF VideoInv
<1>8. CASE ~(size > MaxBuffer)
  <2>1. buffer' = buffer \o piece /\ progressed' = TRUE /\ alive' = alive
    BY <1>1, <1>8
  <2>2. /\ piece \in Seq(Tokens) /\ Len(piece) = n
        /\ \A i \in 1..n : piece[i] = wire[received + i]
    <3> DEFINE m == received + 1
               l == received + n
    <3>1. /\ m \in Nat /\ l \in Nat /\ 1 <= m /\ m <= l + 1 /\ l <= Len(wire)
          /\ l + 1 - m = n /\ \A i \in Nat : m + i - 1 = received + i
      BY <1>1, <1>5
    <3>2. piece = SubSeq(wire, m, l)
      OBVIOUS
    <3> HIDE DEF m, l, piece
    <3>3. /\ piece \in Seq(Tokens) /\ Len(piece) = l + 1 - m
          /\ \A i \in 1..(l + 1 - m) : piece[i] = wire[m + i - 1]
      BY <1>5, <3>1, <3>2, Piece
    <3>4. Len(piece) = n
      BY <3>1, <3>3
    <3>5. ASSUME NEW i \in 1..n
          PROVE  piece[i] = wire[received + i]
      <4>1. i \in 1..(l + 1 - m) /\ m + i - 1 = received + i
        BY <1>5, <3>1
      <4> QED
        BY <3>3, <4>1
    <3> QED
      BY <3>3, <3>4, <3>5
  <2> HIDE DEF piece
  <2>3. /\ buffer' \in Seq(Tokens) /\ Len(buffer') = Len(buffer) + n
        /\ \A i \in 1..(Len(buffer) + n) :
             buffer'[i] = IF i <= Len(buffer) THEN buffer[i]
                                              ELSE piece[i - Len(buffer)]
    <3> DEFINE c == buffer \o piece
    <3>1. /\ c \in Seq(Tokens) /\ Len(c) = Len(buffer) + Len(piece)
          /\ \A i \in 1..(Len(buffer) + Len(piece)) :
               c[i] = IF i <= Len(buffer) THEN buffer[i]
                                          ELSE piece[i - Len(buffer)]
      BY <1>5, <2>2, ConcatProperties
    <3>2. buffer' = c
      BY <2>1
    <3> HIDE DEF c
    <3> QED
      BY <2>2, <3>1, <3>2
  <2>4. VideoTypes'
    <3>1. Len(buffer') <= MaxBuffer
      BY <1>5, <1>8, <2>3
    <3> QED
      BY <1>1, <1>2, <1>6, <2>1, <2>3, <3>1 DEF VideoInv, VideoTypes
  <2>5. Waiting'
    BY <2>1 DEF Waiting
  <2>6. Kept'
    <3> DEFINE e == V!Ends(handled)
    <3> SUFFICES ASSUME ~foreign
                 PROVE  Kept'
      BY <1>2 DEF Kept
    <3>1. /\ e <= received /\ Len(buffer) = received - e
          /\ \A i \in 1..Len(buffer) : buffer[i] = wire[e + i]
      BY <1>1 DEF VideoInv, Kept
    <3> HIDE DEF e
    <3>2. e <= received' /\ Len(buffer') = received' - e
      BY <1>1, <1>3, <1>5, <2>3, <3>1 DEF e
    <3>3. ASSUME NEW i \in 1..Len(buffer')
          PROVE  buffer'[i] = wire[e + i]
      <4>1. CASE i <= Len(buffer)
        <5>1. i \in 1..Len(buffer) /\ buffer'[i] = buffer[i]
          BY <1>5, <2>3, <4>1
        <5> QED
          BY <3>1, <5>1
      <4>2. CASE ~(i <= Len(buffer))
        <5> DEFINE j == i - Len(buffer)
        <5>0. e \in Nat
          BY <1>3 DEF e
        <5>1. j \in 1..n /\ buffer'[i] = piece[j] /\ received + j = e + i
          BY <1>5, <2>3, <3>1, <4>2, <5>0
        <5> HIDE DEF j
        <5>2. piece[j] = wire[received + j]
          BY <2>2, <5>1
        <5> QED
          BY <5>1, <5>2
      <4> QED
        BY <4>1, <4>2
    <3>4. V!Ends(handled)' = e
      BY <1>3 DEF e
    <3>5. /\ V!Ends(handled)' <= received'
          /\ Len(buffer') = received' - V!Ends(handled)'
          /\ \A i \in 1..Len(buffer') : buffer'[i] = wire'[V!Ends(handled)' + i]
      BY <1>2, <3>2, <3>3, <3>4
    <3> QED
      BY <3>5 DEF Kept
  <2>7. Strange'
    <3> SUFFICES ASSUME foreign
                 PROVE  Strange'
      BY <1>2 DEF Strange
    <3>1. /\ parts = << >> /\ wire = V!Foreign /\ Len(buffer) = received
          /\ \A i \in 1..Len(buffer) : buffer[i] = V!Token("other")
      BY <1>1 DEF VideoInv, Strange
    <3>2. Len(buffer') = received'
      BY <1>1, <1>5, <2>3, <3>1
    <3>3. ASSUME NEW i \in 1..Len(buffer')
          PROVE  buffer'[i] = V!Token("other")
      <4>1. CASE i <= Len(buffer)
        BY <1>5, <2>3, <3>1, <4>1
      <4>2. CASE ~(i <= Len(buffer))
        <5> DEFINE j == i - Len(buffer)
        <5>1. j \in 1..n /\ buffer'[i] = piece[j] /\ received + j \in 1..Len(wire)
          BY <1>1, <1>5, <2>3, <4>2
        <5> HIDE DEF j
        <5>2. piece[j] = wire[received + j]
          BY <2>2, <5>1
        <5>3. \A x \in 1..Len(V!Foreign) : V!Foreign[x] = V!Token("other")
          BY <1>5 DEF V!Foreign
        <5> QED
          BY <3>1, <5>1, <5>2, <5>3
      <4> QED
        BY <4>1, <4>2
    <3> QED
      BY <1>2, <3>1, <3>2, <3>3 DEF Strange
  <2> QED
    BY <1>2, <1>4, <2>4, <2>5, <2>6, <2>7 DEF VideoInv
<1> QED
  BY <1>7, <1>8

(* A part more on the wire.                                                *)
LEMMA Sent ==
  ASSUME NEW w \in Seq(Tokens), NEW first \in Tokens, NEW slice \in Seq(Tokens)
  PROVE  LET x == w \o V!Opening(first) \o slice IN
         /\ x \in Seq(Tokens) /\ Len(x) = Len(w) + 5 + Len(slice)
         /\ \A i \in 1..Len(w) : x[i] = w[i]
         /\ x[Len(w) + 1] = V!boundary[1] /\ x[Len(w) + 2] = V!boundary[2]
         /\ x[Len(w) + 3] = first
         /\ x[Len(w) + 4] = V!HEADER_SEPARATOR[1]
         /\ x[Len(w) + 5] = V!HEADER_SEPARATOR[2]
         /\ \A j \in 1..Len(slice) : x[Len(w) + 5 + j] = slice[j]
<1> DEFINE o == V!Opening(first)
           y == w \o o
           x == y \o slice
           l == Len(w)
<1>1. /\ o \in Seq(Tokens) /\ Len(o) = 5
      /\ o[1] = V!boundary[1] /\ o[2] = V!boundary[2] /\ o[3] = first
      /\ o[4] = V!HEADER_SEPARATOR[1] /\ o[5] = V!HEADER_SEPARATOR[2]
  <2>1. \A a, b, c, d, e \in Tokens :
          /\ <<a, b, c, d, e>> \in Seq(Tokens) /\ Len(<<a, b, c, d, e>>) = 5
    OBVIOUS
  <2>2. o = <<V!boundary[1], V!boundary[2], first,
              V!HEADER_SEPARATOR[1], V!HEADER_SEPARATOR[2]>>
    BY DEF V!Opening
  <2>3. o \in Seq(Tokens) /\ Len(o) = 5
    <3> HIDE DEF o
    <3> QED
      BY <2>1, <2>2, TokensAre
  <2> HIDE DEF o
  <2> QED
    BY <2>2, <2>3
<1> HIDE DEF o
<1>2. l \in Nat /\ Len(slice) \in Nat
  BY LenProperties
<1>3. /\ y \in Seq(Tokens) /\ Len(y) = l + Len(o)
      /\ \A i \in 1..(l + Len(o)) : y[i] = IF i <= l THEN w[i] ELSE o[i - l]
  BY <1>1, ConcatProperties
<1> HIDE DEF y
<1>4. /\ x \in Seq(Tokens) /\ Len(x) = Len(y) + Len(slice)
      /\ \A i \in 1..(Len(y) + Len(slice)) :
           x[i] = IF i <= Len(y) THEN y[i] ELSE slice[i - Len(y)]
  <2>1. y \in Seq(Tokens)
    BY <1>3
  <2> QED
    BY <2>1, ConcatProperties
<1> HIDE DEF x, l
<1>5. Len(y) = l + 5 /\ Len(x) = l + 5 + Len(slice)
  BY <1>1, <1>2, <1>3, <1>4
<1>6. ASSUME NEW i \in 1..(l + 5)
      PROVE  x[i] = IF i <= l THEN w[i] ELSE o[i - l]
  <2>1. i <= Len(y) /\ i \in 1..(Len(y) + Len(slice)) /\ i \in 1..(l + Len(o))
    BY <1>1, <1>2, <1>5
  <2>2. x[i] = y[i]
    BY <1>4, <2>1
  <2>3. y[i] = IF i <= l THEN w[i] ELSE o[i - l]
    BY <1>3, <2>1
  <2> QED
    BY <2>2, <2>3
<1>7. \A i \in 1..l : x[i] = w[i]
  BY <1>2, <1>6
<1>8. ASSUME NEW r \in {1, 2, 3, 4, 5}
      PROVE  x[l + r] = o[r]
  <2> DEFINE i == l + r
  <2>1. i \in 1..(l + 5) /\ ~(i <= l) /\ i - l = r
    BY <1>2
  <2> HIDE DEF i
  <2>2. x[i] = o[r]
    BY <1>6, <2>1
  <2> QED
    BY <2>2 DEF i
<1>9. ASSUME NEW j \in 1..Len(slice)
      PROVE  x[l + 5 + j] = slice[j]
  <2> DEFINE i == l + 5 + j
  <2>1. ~(i <= Len(y)) /\ i \in 1..(Len(y) + Len(slice)) /\ i - Len(y) = j
    BY <1>2, <1>5
  <2> HIDE DEF i
  <2>2. x[i] = slice[j]
    BY <1>4, <2>1
  <2> QED
    BY <2>2 DEF i
<1>10. /\ x[l + 1] = V!boundary[1] /\ x[l + 2] = V!boundary[2]
       /\ x[l + 3] = first
       /\ x[l + 4] = V!HEADER_SEPARATOR[1] /\ x[l + 5] = V!HEADER_SEPARATOR[2]
  BY <1>1, <1>8
<1> QED
  BY <1>4, <1>5, <1>7, <1>9, <1>10 DEF x, y, o, l

(* What the camera puts in a part.                                         *)
LEMMA Bodies ==
  ASSUME NEW c, NEW n \in Nat, NEW v \in Nat, Packets \in Nat,
         v + V!Shown(c, n) <= Len(V!Video)
  PROVE  LET slice == V!Body(c, n, v) IN
         /\ slice \in Seq(Tokens) /\ Len(slice) = n
         /\ c = "video" => \A j \in 1..n : slice[j] = V!Video[v + j]
<1> DEFINE slice == V!Body(c, n, v)
<1>1. V!Video \in Seq(Tokens) /\ Len(V!Video) \in Nat
  BY VideoIs
<1>2. CASE c = "video"
  <2> DEFINE a == v + 1
             b == v + n
  <2>1. /\ a \in Nat /\ b \in Nat /\ 1 <= a /\ a <= b + 1
        /\ b <= Len(V!Video) /\ b + 1 - a = n
        /\ \A i \in Nat : a + i - 1 = v + i
    BY <1>2 DEF V!Shown
  <2>2. slice = SubSeq(V!Video, a, b)
    BY <1>2 DEF V!Body
  <2> HIDE DEF a, b, slice
  <2>3. /\ slice \in Seq(Tokens) /\ Len(slice) = b + 1 - a
        /\ \A i \in 1..(b + 1 - a) : slice[i] = V!Video[a + i - 1]
    BY <1>1, <2>1, <2>2, Piece
  <2>4. Len(slice) = n
    BY <2>1, <2>3
  <2>5. ASSUME NEW j \in 1..n
        PROVE  slice[j] = V!Video[v + j]
    <3>1. j \in 1..(b + 1 - a) /\ a + j - 1 = v + j
      BY <2>1
    <3> QED
      BY <2>3, <3>1
  <2> QED
    BY <2>3, <2>4, <2>5 DEF slice
<1>3. CASE c # "video"
  <2>1. slice = [j \in 1..n |-> V!boundary[2 - (j % 2)]]
    BY <1>3 DEF V!Body
  <2>2. ASSUME NEW j \in 1..n
        PROVE  V!boundary[2 - (j % 2)] \in Tokens
    <3>1. 2 - (j % 2) \in {1, 2}
      OBVIOUS
    <3> QED
      BY <3>1, TokensAre
  <2> HIDE DEF slice
  <2>3. slice \in [1..n -> Tokens]
    BY <2>1, <2>2
  <2>4. slice \in Seq(Tokens) /\ Len(slice) = n
    BY <2>3
  <2> QED
    BY <1>3, <2>4 DEF slice
<1> QED
  BY <1>2, <1>3

LEMMA Within ==
  ASSUME NEW start \in Nat, NEW z \in Nat, NEW l \in Nat, start + 5 + z <= l
  PROVE  /\ start + 1 \in 1..l /\ start + 2 \in 1..l /\ start + 3 \in 1..l
         /\ start + 4 \in 1..l /\ start + 5 \in 1..l
         /\ \A j \in 1..z : start + 5 + j \in 1..l
OBVIOUS

LEMMA SendsKeeps ==
  ASSUME VideoInv, NEW c \in Contents, NEW n \in V!Sizes[c], V!Sends(c, n)
  PROVE  VideoInv'
<1> PICK l, m, v : l = Len(wire) /\ m = Len(parts) /\ v = V!Shows(Len(parts))
  OBVIOUS
<1> DEFINE slice == V!Body(c, n, v)
           first == V!Header(c, n)
           u == V!Shown(c, n)
           rec == [content |-> c, size |-> n, wire |-> l + 5 + n, video |-> v + u]
<1>1. /\ ~foreign /\ v + u <= Len(V!Video)
      /\ wire' = wire \o V!Opening(first) \o slice
      /\ parts' = Append(parts, rec)
      /\ foreign' = foreign /\ skew' = skew /\ received' = received
      /\ handled' = handled
      /\ buffer' = buffer /\ progressed' = progressed /\ tsBuffer' = tsBuffer
      /\ emitted' = emitted /\ alive' = alive
  BY DEF V!Sends, V!reader
<1>2. /\ l \in Nat /\ m \in Nat /\ handled \in 0..m /\ received \in 0..l
      /\ n \in Nat /\ Len(V!Video) = 3 * Packets /\ V!Video \in Seq(Tokens)
      /\ wire \in Seq(Tokens) /\ parts \in Seq(PartRecords)
      /\ u \in Nat
  <2>1. n \in Nat
    BY VideoBounds
  <2>2. u \in Nat
    BY <2>1 DEF V!Shown
  <2> QED
    BY <2>1, <2>2, Numbers, VideoBounds, VideoIs DEF VideoInv, VideoTypes
<1>3. v \in Nat
  <2>1. m \in 0..Len(parts)
    BY <1>2
  <2>2. v = V!Shows(m)
    OBVIOUS
  <2> QED
    BY <2>1, <2>2, Marks DEF VideoInv
<1>4. /\ slice \in Seq(Tokens) /\ Len(slice) = n
      /\ c = "video" => \A j \in 1..n : slice[j] = V!Video[v + j]
  <2>1. /\ n \in Nat /\ v \in Nat /\ Packets \in Nat
        /\ v + V!Shown(c, n) <= Len(V!Video)
    BY <1>1, <1>2, <1>3, VideoBounds
  <2> HIDE DEF u, first, rec
  <2> QED
    BY <2>1, Bodies
<1>5. first \in Tokens
  BY <1>2, HeadersAre
<1> HIDE DEF slice, first, u
<1>6. /\ wire' \in Seq(Tokens) /\ Len(wire') = l + 5 + n
      /\ \A i \in 1..l : wire'[i] = wire[i]
      /\ wire'[l + 1] = V!boundary[1] /\ wire'[l + 2] = V!boundary[2]
      /\ wire'[l + 3] = first
      /\ wire'[l + 4] = V!HEADER_SEPARATOR[1]
      /\ wire'[l + 5] = V!HEADER_SEPARATOR[2]
      /\ c = "video" =>
           \A j \in 1..n : wire'[l + 5 + j] = V!Video[v + j]
  <2> DEFINE x == wire \o V!Opening(first) \o slice
  <2>1. /\ x \in Seq(Tokens) /\ Len(x) = Len(wire) + 5 + Len(slice)
        /\ \A i \in 1..Len(wire) : x[i] = wire[i]
        /\ x[Len(wire) + 1] = V!boundary[1] /\ x[Len(wire) + 2] = V!boundary[2]
        /\ x[Len(wire) + 3] = first
        /\ x[Len(wire) + 4] = V!HEADER_SEPARATOR[1]
        /\ x[Len(wire) + 5] = V!HEADER_SEPARATOR[2]
        /\ \A j \in 1..Len(slice) : x[Len(wire) + 5 + j] = slice[j]
    BY <1>2, <1>4, <1>5, Sent
  <2>2. wire' = x
    BY <1>1
  <2>3. Len(wire) = l /\ Len(slice) = n
    BY <1>4
  <2> HIDE DEF x
  <2> QED
    BY <1>4, <2>1, <2>2, <2>3
<1>7. /\ parts' \in Seq(PartRecords) /\ Len(parts') = m + 1
      /\ \A k \in 1..m : parts'[k] = parts[k]
      /\ parts'[m + 1] = rec
  <2>1. l + 5 + n \in Nat /\ v + u \in Nat
    BY <1>2, <1>3
  <2>2. rec \in PartRecords
    BY <1>2, <2>1 DEF PartRecords
  <2> HIDE DEF rec
  <2> QED
    BY <1>1, <1>2, <2>2, AppendProperties
<1>8. ASSUME NEW k \in 0..m
      PROVE  /\ V!Ends(k)' = V!Ends(k) /\ V!Shows(k)' = V!Shows(k)
             /\ V!Ends(k) \in Nat /\ V!Shows(k) \in Nat
             /\ V!Ends(k) <= l
  <2>1. V!Ends(k) \in Nat /\ V!Shows(k) \in Nat
    BY Marks DEF VideoInv
  <2>2. V!Ends(k)' = V!Ends(k) /\ V!Shows(k)' = V!Shows(k)
    BY <1>1, <1>2, <1>7 DEF V!Ends, V!Shows
  <2>3. V!Ends(k) <= V!Ends(m) /\ V!Ends(m) = l
    BY <1>1, <1>2 DEF VideoInv, Laid
  <2> QED
    BY <2>1, <2>2, <2>3
<1>9. /\ V!Ends(m + 1)' = l + 5 + n /\ V!Shows(m + 1)' = v + u
      /\ V!Ends(m) = l /\ Size(m + 1)' = n /\ Content(m + 1)' = c
  <2>1. parts'[m + 1].wire = l + 5 + n /\ parts'[m + 1].video = v + u
    BY <1>7
  <2>2. m + 1 # 0
    BY <1>2
  <2>3. V!Ends(m + 1)' = parts'[m + 1].wire /\ V!Shows(m + 1)' = parts'[m + 1].video
    BY <2>2 DEF V!Ends, V!Shows
  <2>4. V!Ends(m) = l
    BY <1>1 DEF VideoInv, Laid
  <2>5. Size(m + 1)' = n /\ Content(m + 1)' = c
    BY <1>7 DEF Size, Content
  <2> QED
    BY <2>1, <2>3, <2>4, <2>5
<1> HIDE DEF rec
<1>10. VideoTypes'
  <2>1. /\ received' \in 0..Len(wire') /\ handled' \in 0..Len(parts')
        /\ Len(buffer') <= MaxBuffer
    <3>1. received \in 0..(l + 5 + n) /\ handled \in 0..(m + 1)
      BY <1>2
    <3>2. Len(buffer') = Len(buffer) /\ Len(buffer) <= MaxBuffer
      BY <1>1 DEF VideoInv, VideoTypes
    <3> QED
      BY <1>1, <1>6, <1>7, <3>1, <3>2
  <2> QED
    BY <1>1, <1>6, <1>7, <2>1 DEF VideoInv, VideoTypes
<1>11. ASSUME NEW k \in 1..m
       PROVE  LaidAt(k, V!Ends(k - 1), V!Shows(k - 1))'
  <2> PICK i, start, from : i = k - 1 /\ start = V!Ends(k - 1) /\ from = V!Shows(k - 1)
    OBVIOUS
  <2>1. /\ i \in 0..m /\ k \in 0..m /\ k \in 1..Len(parts)
    BY <1>2
  <2>2. LaidAt(k, start, from)
    BY <1>1, <2>1 DEF VideoInv, Laid
  <2>3. /\ V!Ends(i)' = start /\ V!Shows(i)' = from
        /\ start \in Nat /\ from \in Nat
    BY <1>8, <2>1
  <2>4. V!Ends(k)' = V!Ends(k) /\ V!Shows(k)' = V!Shows(k) /\ V!Ends(k) <= l
    BY <1>8, <2>1
  <2>5. Size(k)' = Size(k) /\ Content(k)' = Content(k)
    BY <1>7 DEF Size, Content
  <2>6. /\ Content(k) \in Contents /\ Size(k) \in V!Sizes[Content(k)]
        /\ V!Ends(k) = start + 5 + Size(k)
        /\ V!Shows(k) = from + V!Shown(Content(k), Size(k))
        /\ V!Shows(k) <= 3 * Packets
        /\ wire[start + 1] = V!boundary[1] /\ wire[start + 2] = V!boundary[2]
        /\ wire[start + 3] = V!Header(Content(k), Size(k))
        /\ wire[start + 4] = V!HEADER_SEPARATOR[1]
        /\ wire[start + 5] = V!HEADER_SEPARATOR[2]
        /\ Content(k) = "video" =>
             \A j \in 1..Size(k) : wire[start + 5 + j] = V!Video[from + j]
    BY <2>2 DEF LaidAt
  <2>7. Size(k) \in Nat
    BY <2>6, VideoBounds
  <2>8. start + 5 + Size(k) <= l
    BY <2>4, <2>6
  <2>9. /\ wire'[start + 1] = wire[start + 1] /\ wire'[start + 2] = wire[start + 2]
        /\ wire'[start + 3] = wire[start + 3] /\ wire'[start + 4] = wire[start + 4]
        /\ wire'[start + 5] = wire[start + 5]
    <3>1. /\ start + 1 \in 1..l /\ start + 2 \in 1..l /\ start + 3 \in 1..l
          /\ start + 4 \in 1..l /\ start + 5 \in 1..l
      BY <1>2, <2>3, <2>7, <2>8, Within
    <3> QED
      BY <1>6, <3>1
  <2>10. ASSUME Content(k) = "video", NEW j \in 1..Size(k)
         PROVE  wire'[start + 5 + j] = V!Video[from + j]
    <3>1. start + 5 + j \in 1..l
      BY <1>2, <2>3, <2>7, <2>8, Within
    <3> QED
      BY <1>6, <2>6, <2>10, <3>1
  <2>11. V!Ends(k) <= Len(wire')
    <3>1. V!Ends(k) \in Nat /\ V!Ends(k) <= l /\ Len(wire') = l + 5 + n
      BY <1>6, <1>8, <2>1
    <3> QED
      BY <1>2, <3>1
  <2>12. V!Ends(k - 1)' = start /\ V!Shows(k - 1)' = from
    BY <2>3
  <2> QED
    BY <2>4, <2>5, <2>6, <2>9, <2>10, <2>11, <2>12 DEF LaidAt
<1>12. ASSUME NEW k, k = m + 1
       PROVE  LaidAt(k, V!Ends(k - 1), V!Shows(k - 1))'
  <2>1. k - 1 = m /\ m \in 0..m
    BY <1>2, <1>12
  <2>2. V!Ends(k - 1)' = l /\ V!Shows(k - 1)' = v
    BY <1>8, <1>9, <2>1
  <2>3. V!Ends(k)' = l + 5 + n /\ V!Shows(k)' = v + u
    BY <1>9, <1>12
  <2>4. Size(k)' = n /\ Content(k)' = c
    BY <1>9, <1>12
  <2>5. v + u <= 3 * Packets /\ first = V!Header(c, n) /\ u = V!Shown(c, n)
    BY <1>1, <1>2 DEF first, u
  <2>6. V!Ends(k)' <= Len(wire')
    BY <1>2, <1>6, <2>3
  <2> QED
    BY <1>6, <2>2, <2>3, <2>4, <2>5, <2>6 DEF LaidAt
<1>13. Laid'
  <2>1. V!Ends(Len(parts))' = Len(wire')
    BY <1>6, <1>7, <1>9 DEF V!Ends
  <2>2. ASSUME NEW k \in 1..Len(parts')
        PROVE  LaidAt(k, V!Ends(k - 1), V!Shows(k - 1))'
    <3>1. k \in 1..m \/ k = m + 1
      BY <1>2, <1>7
    <3> QED
      BY <1>11, <1>12, <3>1
  <2>3. ASSUME NEW j \in 0..Len(parts'), NEW k \in 0..Len(parts'), j <= k
        PROVE  V!Ends(j)' <= V!Ends(k)'
    <3>1. CASE k \in 0..m
      <4>1. j \in 0..m
        BY <1>2, <1>7, <2>3, <3>1
      <4>2. V!Ends(j) <= V!Ends(k)
        BY <1>1, <2>3, <3>1, <4>1 DEF VideoInv, Laid
      <4> QED
        BY <1>8, <3>1, <4>1, <4>2
    <3>2. CASE j \in 0..m /\ k = m + 1
      <4>1. V!Ends(j)' <= l /\ V!Ends(j)' \in Nat
        BY <1>8, <3>2
      <4>2. V!Ends(k)' = l + 5 + n
        BY <1>9, <3>2
      <4> QED
        BY <1>2, <4>1, <4>2
    <3>3. CASE j = m + 1 /\ k = m + 1
      <4>1. V!Ends(j)' = l + 5 + n /\ V!Ends(k)' = l + 5 + n
        BY <1>9, <3>3
      <4> QED
        BY <1>2, <4>1
    <3> QED
      BY <1>2, <1>7, <2>3, <3>1, <3>2, <3>3
  <2> QED
    BY <2>1, <2>2, <2>3 DEF Laid
<1>14. /\ V!Ends(handled)' = V!Ends(handled)
       /\ V!Shows(handled)' = V!Shows(handled)
       /\ V!Ends(handled) \in Nat
  <2> PICK h : h = handled
    OBVIOUS
  <2>1. V!Ends(h)' = V!Ends(h) /\ V!Shows(h)' = V!Shows(h) /\ V!Ends(h) \in Nat
    BY <1>2, <1>8
  <2>2. V!Ends(handled)' = V!Ends(h)' /\ V!Shows(handled)' = V!Shows(h)'
    BY <1>1 DEF V!Ends, V!Shows
  <2> QED
    BY <2>1, <2>2
<1>15. Kept'
  <2> SUFFICES ASSUME alive
               PROVE  Kept'
    BY <1>1 DEF Kept
  <2>1. /\ V!Ends(handled) <= received
        /\ Len(buffer) = received - V!Ends(handled)
        /\ \A i \in 1..Len(buffer) : buffer[i] = wire[V!Ends(handled) + i]
    BY <1>1 DEF VideoInv, Kept
  <2>2. ASSUME NEW i \in 1..Len(buffer)
        PROVE  buffer[i] = wire'[V!Ends(handled) + i]
    <3>1. V!Ends(handled) + i \in 1..l
      BY <1>2, <1>14, <2>1
    <3> QED
      BY <1>6, <2>1, <3>1
  <2>3. /\ V!Ends(handled)' <= received'
        /\ Len(buffer') = received' - V!Ends(handled)'
        /\ \A i \in 1..Len(buffer') : buffer'[i] = wire'[V!Ends(handled)' + i]
    BY <1>1, <1>14, <2>1, <2>2
  <2> QED
    BY <2>3 DEF Kept
<1>16. Waiting'
  <2> SUFFICES ASSUME alive, ~progressed
               PROVE  received' < V!Ends(handled + 1)'
    BY <1>1 DEF Waiting
  <2> PICK k : k = handled + 1
    OBVIOUS
  <2>1. V!Ends(handled + 1)' = V!Ends(k)'
    BY <1>1 DEF V!Ends
  <2>2. CASE handled < m
    <3>1. received < V!Ends(k) /\ k \in 0..m
      BY <1>1, <1>2, <2>2 DEF VideoInv, Waiting
    <3>2. V!Ends(k)' = V!Ends(k)
      BY <1>8, <3>1
    <3> QED
      BY <1>1, <2>1, <3>1, <3>2
  <2>3. CASE ~(handled < m)
    <3>1. k = m + 1
      BY <1>2, <2>3
    <3>2. V!Ends(k)' = l + 5 + n
      BY <1>9, <3>1
    <3>3. received < l + 5 + n
      BY <1>2
    <3> QED
      BY <1>1, <2>1, <3>2, <3>3
  <2> QED
    BY <2>2, <2>3
<1>17. Aligned'
  BY <1>1, <1>14, AlignedNext DEF VideoInv, Aligned
<1>18. Strange'
  BY <1>1 DEF Strange
<1> QED
  BY <1>10, <1>13, <1>15, <1>16, <1>17, <1>18 DEF VideoInv

LEMMA VideoKept ==
  ASSUME VideoInv, [V!Next]_(V!vars)
  PROVE  VideoInv'
<1>1. CASE UNCHANGED V!vars
  <2>1. /\ UNCHANGED V!camera
        /\ received' = received /\ handled' = handled /\ buffer' = buffer
        /\ progressed' = progressed /\ tsBuffer' = tsBuffer
        /\ emitted' = emitted /\ alive' = alive
    BY <1>1 DEF V!vars, V!reader
  <2>2. /\ wire' = wire /\ parts' = parts /\ foreign' = foreign /\ skew' = skew
        /\ Laid'
    BY <2>1, CameraStays DEF VideoInv
  <2>3. /\ V!Ends(handled)' = V!Ends(handled)
        /\ V!Shows(handled)' = V!Shows(handled)
        /\ V!Ends(handled + 1)' = V!Ends(handled + 1)
    BY <2>1, <2>2 DEF V!Ends, V!Shows
  <2>4. VideoTypes'
    BY <2>1, <2>2 DEF VideoInv, VideoTypes
  <2>5. Kept' /\ Waiting' /\ Strange'
    BY <2>1, <2>2, <2>3 DEF VideoInv, Kept, Waiting, Strange
  <2>6. Aligned'
    BY <2>1, <2>2, <2>3, AlignedNext DEF VideoInv, Aligned
  <2> QED
    BY <2>2, <2>4, <2>5, <2>6 DEF VideoInv
<1>2. ASSUME NEW c \in DOMAIN V!Sizes, NEW n \in V!Sizes[c], V!Sends(c, n)
      PROVE  VideoInv'
  BY <1>2, VideoBounds, SendsKeeps
<1>3. ASSUME NEW n \in 1..MaxChunk, V!onData(n)
      PROVE  VideoInv'
  BY <1>3, OnDataKeeps
<1> QED
  BY <1>1, <1>2, <1>3, PartKeeps, SkipsPartKeeps, WaitsKeeps DEF V!Next

LEMMA VideoTyped == VideoInv => V!TypeOK
<1> SUFFICES ASSUME VideoInv
             PROVE  V!TypeOK
  OBVIOUS
<1>1. {foreign, progressed, alive} \subseteq BOOLEAN
  BY Zenon DEF VideoInv, VideoTypes
<1> QED
  BY <1>1 DEF VideoInv, VideoTypes, V!TypeOK, V!PacketSize

(* A session stays open while what it waits for fits in the buffer, and    *)
(* what it was given could be deciphered.                                  *)
Fits ==
  \A c \in DOMAIN V!Sizes : \A n \in V!Sizes[c] :
    5 + n + MaxChunk <= MaxBuffer + 1
Undecipherable == handled # 0 /\ parts[handled].content = "undecipherable"
Open == ~foreign /\ ~alive => Undecipherable

LEMMA OpenKept ==
  ASSUME Fits, VideoInv, Open, [V!Next]_(V!vars)
  PROVE  Open'
<1>1. ASSUME NEW n \in 1..MaxChunk, V!onData(n), ~foreign
      PROVE  alive' = alive
  <2>1. /\ alive /\ ~progressed /\ received + n <= Len(wire)
        /\ ~(Len(buffer) + n > MaxBuffer) => alive' = alive
    BY <1>1 DEF V!onData
  <2>2. /\ Len(buffer) \in Nat /\ received \in Nat /\ n \in Nat
        /\ handled \in 0..Len(parts) /\ MaxBuffer \in Nat /\ MaxChunk \in Nat
        /\ Len(wire) \in Nat /\ Len(parts) \in Nat
    BY Numbers, VideoBounds DEF VideoInv, VideoTypes
  <2>3. /\ V!Ends(handled) <= received /\ Len(buffer) = received - V!Ends(handled)
        /\ V!Ends(Len(parts)) = Len(wire)
    BY <1>1, <2>1 DEF VideoInv, Kept, Laid
  <2>4. handled < Len(parts)
    <3>1. handled # Len(parts)
      BY <2>1, <2>2, <2>3
    <3> QED
      BY <2>2, <3>1
  <2> PICK k : k = handled + 1
    OBVIOUS
  <2>5. /\ LaidAt(k, V!Ends(handled), V!Shows(handled))
        /\ Size(k) \in Nat /\ V!Ends(handled) \in Nat
    BY <1>1, <2>4, NextPart DEF VideoInv
  <2>6. /\ V!Ends(k) = V!Ends(handled) + 5 + Size(k)
        /\ Content(k) \in DOMAIN V!Sizes /\ Size(k) \in V!Sizes[Content(k)]
    BY <2>5, VideoBounds DEF LaidAt
  <2>7. received < V!Ends(k)
    BY <1>1, <2>1, <2>4 DEF VideoInv, Waiting
  <2>8. 5 + Size(k) + MaxChunk <= MaxBuffer + 1
    BY <2>6 DEF Fits
  <2>9. ~(Len(buffer) + n > MaxBuffer)
    BY <2>2, <2>3, <2>5, <2>6, <2>7, <2>8
  <2> QED
    BY <2>1, <2>9
<1>2. ASSUME handled' = handled, parts' = parts, foreign' = foreign,
             ~foreign => alive' = alive
      PROVE  Open'
  BY <1>2 DEF Open, Undecipherable
<1>3. ASSUME NEW c \in DOMAIN V!Sizes, NEW n \in V!Sizes[c], V!Sends(c, n)
      PROVE  Open'
  <2>1. /\ foreign' = foreign /\ alive' = alive /\ handled' = handled
        /\ \E x : parts' = Append(parts, x)
    BY <1>3 DEF V!Sends, V!reader
  <2>2. handled # 0 => parts'[handled] = parts[handled]
    <3>1. handled # 0 => handled \in 1..Len(parts)
      BY Numbers DEF VideoInv, VideoTypes
    <3> QED
      BY <2>1, <3>1, AppendProperties DEF VideoInv, VideoTypes
  <2> QED
    BY <2>1, <2>2 DEF Open, Undecipherable
<1>4. ASSUME V!Part
      PROVE  Open'
  <2> PICK k : k = handled + 1
    OBVIOUS
  <2>1. /\ alive /\ V!HasHeaders /\ parts' = parts /\ handled' = k
        /\ alive' = (V!headers.kind # "undecipherable")
    BY <1>4 DEF V!Part, V!HasBody, V!HasLength, V!camera
  <2>2. ~foreign
    BY <2>1, NoHeaders DEF VideoInv
  <2>3. V!headers.kind = Content(k)
    BY <2>1, <2>2, Behind
  <2>4. k # 0
    BY Numbers DEF VideoInv
  <2> QED
    BY <2>1, <2>3, <2>4 DEF Open, Undecipherable, Content
<1>5. ASSUME V!SkipsPart
      PROVE  Open'
  BY <1>5 DEF V!SkipsPart, Open
<1>6. ASSUME V!Waits
      PROVE  Open'
  BY <1>2, <1>6 DEF V!Waits, V!camera
<1>7. ASSUME NEW n \in 1..MaxChunk, V!onData(n)
      PROVE  Open'
  <2>1. foreign' = foreign /\ handled' = handled /\ parts' = parts
    BY <1>7 DEF V!onData, V!camera
  <2> QED
    BY <1>1, <1>2, <1>7, <2>1
<1>8. CASE UNCHANGED V!vars
  BY <1>2, <1>8 DEF V!vars, V!camera, V!reader
<1> QED
  BY <1>3, <1>4, <1>5, <1>6, <1>7, <1>8 DEF V!Next

LEMMA Reassembled == VideoInv /\ Open => StreamReassembled
<1> SUFFICES ASSUME VideoInv, Open
             PROVE  StreamReassembled
  OBVIOUS
<1> DEFINE v == V!Shows(handled)
           g == Len(emitted)
           fw == V!FirstWhole
<1>1. /\ handled \in 0..Len(parts) /\ Len(parts) \in Nat /\ received \in Nat
      /\ v \in Nat /\ g \in Nat /\ fw \in {1, 2} /\ Packets \in Nat
      /\ skew \in 0..2 /\ (skew = 0 => fw = 1) /\ (skew # 0 => fw = 2)
      /\ DOMAIN parts = 1..Len(parts) /\ DOMAIN emitted = 1..g
  BY Marks, Numbers, FirstWholes, VideoBounds, LenProperties
     DEF VideoInv, VideoTypes
<1>2. V!Recognizable =>
        \A i \in DOMAIN emitted : emitted[i] = V!Packet(fw + i - 1)
  BY <1>1 DEF VideoInv, Aligned, AlignedAt, GivenAll
<1>3. ASSUME ~foreign, alive, ~progressed, NEW k \in DOMAIN parts
      PROVE  k <= handled <=> V!Ends(k) <= received
  <2>1. /\ k \in 0..Len(parts) /\ k \in Nat /\ V!Ends(k) \in Nat
        /\ V!Ends(handled) \in Nat
    BY <1>1, Marks DEF VideoInv
  <2>2. \A a, b \in 0..Len(parts) : a <= b => V!Ends(a) <= V!Ends(b)
    BY <1>3 DEF VideoInv, Laid
  <2>3. CASE k <= handled
    <3>1. V!Ends(k) <= V!Ends(handled)
      BY <1>1, <2>1, <2>2, <2>3
    <3>2. V!Ends(handled) <= received
      BY <1>3 DEF VideoInv, Kept
    <3> QED
      BY <1>1, <2>1, <2>3, <3>1, <3>2
  <2>4. CASE ~(k <= handled)
    <3> PICK h : h = handled + 1
      OBVIOUS
    <3>1. h \in 0..Len(parts) /\ h <= k /\ handled < Len(parts)
      BY <1>1, <2>1, <2>4
    <3>2. V!Ends(h) <= V!Ends(k) /\ V!Ends(h) \in Nat
      BY <2>1, <2>2, <3>1, Marks DEF VideoInv
    <3>3. received < V!Ends(h)
      BY <1>3, <3>1 DEF VideoInv, Waiting
    <3> QED
      BY <1>1, <2>1, <2>4, <3>2, <3>3
  <2> QED
    BY <2>3, <2>4
<1>4. ASSUME V!Recognizable, NEW i \in 1..Packets
      PROVE  V!IsWhole(i, v) <=> i \in fw..fw + g - 1
  <2>1. V!IsWhole(i, v) <=> skew <= (i - 1) * 3 /\ i * 3 <= v
    BY DEF V!IsWhole, V!PacketSize
  <2>2. \/ g = 0 /\ skew <= v /\ v < skew + 3
        \/ 3 * (fw - 1 + g) <= v /\ v < 3 * (fw - 1 + g) + 3
    BY <1>4 DEF VideoInv, Aligned, AlignedAt, KeptFrom
  <2> HIDE DEF v, g, fw
  <2>3. skew <= (i - 1) * 3 <=> fw <= i
    BY <1>1
  <2> QED
    BY <1>1, <2>1, <2>2, <2>3
<1>5. foreign /\ alive => received <= MaxBuffer
  BY DEF VideoInv, VideoTypes, Strange
<1> QED
  BY <1>2, <1>3, <1>4, <1>5
     DEF StreamReassembled, V!StreamReassembled, Open, Undecipherable

LEMMA VideoHolds == Spec => []VideoInv
BY VideoInit, VideoKept, Initially, ComponentSteps, PTL DEF Spec

(* Wherever the network cuts the stream of a camera and the camera cuts    *)
(* its packets, a part is handled as soon as it is all there, ffmpeg is    *)
(* given every whole packet of the video so far, once and in order, and    *)
(* nothing else, and only a boundary that never comes, or a part that      *)
(* cannot be deciphered, ends the session (mediaSession.js,                *)
(* handleStreamChunk and forwardTsPackets). The packets are not claimed of *)
(* a video that starts within a packet whose rest looks like a sync byte   *)
(* (run StreamSkew). Fits is what constants.js:361-366 says of the parts:  *)
(* a buffer past its bound "means the parts are not being recognized at    *)
(* all".                                                                   *)
THEOREM StreamReassembledHolds ==
  ASSUME Fits
  PROVE  Spec => []StreamReassembled
<1>1. Init => Open
  BY Initially DEF V!Init, Open
<1>2. VideoInv /\ Open /\ [Next]_vars => Open'
  BY OpenKept, ComponentSteps
<1>3. Spec => []Open
  BY <1>1, <1>2, VideoHolds, PTL DEF Spec
<1> QED
  BY <1>3, VideoHolds, Reassembled, PTL

---------------------------------------------------------------------------
(* The types and the shape of the six components.                          *)
THEOREM TypeCorrect == Spec => []TypeOK
<1>1. /\ PtzInv /\ S!TypeOK /\ VideoInv /\ AccountInv /\ CameraInv
      /\ ClientInv
      => TypeOK
  BY CameraTyped, VideoTyped DEF PtzInv, AccountInv, ClientInv, StoreInv, TypeOK
<1> QED
  BY <1>1, PtzHolds, CaptureHolds, VideoHolds, AccountHolds, CameraHolds,
     ClientHolds, PTL
===============================================================================
