------------------------------ MODULE SmartClient ------------------------------
(***************************************************************************)
(* The client of one plug, bulb, switch or hub (src/smart/client.js) and   *)
(* the three transports it may speak through: which protocol it tries,     *)
(* when it falls back to another one, when it opens a session again, and   *)
(* when it leaves the device alone.                                        *)
(*                                                                         *)
(* A device speaks one protocol: KLAP, AES (the older securePassthrough),  *)
(* TPAP, or none a third party may use.  Its owner changes that with a     *)
(* firmware update or the Third-Party Compatibility switch.  A transport   *)
(* is its session and, for TPAP, the discover answer it keeps: handshakes  *)
(* are one exchange here, whose outcomes are those of all their messages.  *)
(* The queue of the client runs one call at a time.                        *)
(***************************************************************************)
EXTENDS Naturals

CONSTANTS
  Announced,     \* what the network scan may have said: protocols, or None
  Modes,         \* what the device may be when the client is built
  Changes,       \* <<from, to>>: the changes of mode that may happen
  MaxChanges,    \* bound on those changes
  MaxRestarts,   \* bound on the sessions the device drops
  MaxRefusals,   \* bound on the logins it refuses
  MaxOutages,    \* bound on the times it goes away
  None

Protocols == {"KLAP", "AES", "TPAP"}
AllModes == Protocols \cup {"closed"}

SmartClientAssumption ==
  /\ None \notin Protocols
  /\ Announced \subseteq Protocols \cup {None}
  /\ Modes \subseteq AllModes
  /\ Changes \subseteq AllModes \X AllModes
  /\ {MaxChanges, MaxRestarts, MaxRefusals, MaxOutages} \subseteq Nat

VARIABLES
  mode, up,      \* the device
  known,         \* it knows the session of the client
  encryptType,   \* the protocol settled on, None while nothing says
  transport,     \* the protocol of the transport, None before its first use
  session,       \* the transport holds a session
  info,          \* the TPAP transport holds a discover answer
  announced,     \* encryptType before TPAP was tried on a refusal
  stage,         \* where the call is
  blocked,       \* before blockedUntil
  result,        \* how the last call ended
  changes, restarts, refusals, outages   \* the bounds

device == <<mode, up, known>>
link == <<encryptType, transport, session, info>>
progress == <<announced, stage, result>>
bounds == <<changes, restarts, refusals, outages>>
vars == <<device, link, progress, blocked, bounds>>

Outcomes == {"ok", "http404", "refused403", "notTpap", "retryable", "auth",
             "unreachable", "error"}

TypeOK ==
  /\ mode \in AllModes
  /\ {up, known, session, info, blocked} \subseteq BOOLEAN
  /\ encryptType \in Protocols \cup {None}
  /\ transport \in Protocols \cup {None}
  /\ session => transport # None
  /\ info => transport = "TPAP"
  /\ announced \in {None, "KLAP"}
  /\ stage \in {"idle", "first", "switched", "tpap", "again"}
  /\ result \in Outcomes \cup {"none", "backoff"}

(* A scan is right, or wrong about the Third-Party Compatibility only.     *)
Fits(a, m) == a = None \/ (a = "AES") = (m = "AES")

Init ==
  /\ mode \in Modes /\ up = TRUE /\ known = FALSE
  /\ encryptType \in {a \in Announced : Fits(a, mode)}
  /\ transport = None /\ session = FALSE /\ info = FALSE
  /\ announced = None /\ stage = "idle" /\ result = "none"
  /\ blocked = FALSE
  /\ changes = 0 /\ restarts = 0 /\ refusals = 0 /\ outages = 0

---------------------------------------------------------------------------
(* The device.                                                             *)

ChangesMode(m) ==
  /\ changes < MaxChanges
  /\ <<mode, m>> \in Changes
  /\ changes' = changes + 1
  /\ mode' = m
  /\ known' = FALSE
  /\ UNCHANGED <<up, link, progress, blocked, restarts, refusals, outages>>

DropsSession ==
  /\ known
  /\ restarts < MaxRestarts
  /\ restarts' = restarts + 1
  /\ known' = FALSE
  /\ UNCHANGED <<mode, up, link, progress, blocked, changes, refusals, outages>>

GoesAway ==
  /\ up
  /\ outages < MaxOutages
  /\ outages' = outages + 1
  /\ up' = FALSE
  /\ UNCHANGED <<mode, known, link, progress, blocked, changes, restarts,
                 refusals>>

ComesBack ==
  /\ ~up
  /\ up' = TRUE
  /\ UNCHANGED <<mode, known, link, progress, blocked, bounds>>

---------------------------------------------------------------------------
(* What a transport gets out of the device: the request on its session, or *)
(* the handshake first when it has none.                                   *)

Login == IF refusals < MaxRefusals THEN {"ok", "auth"} ELSE {"ok"}

OnSession == IF known THEN {"ok"} ELSE {"retryable"}

KlapOutcomes ==
  CASE mode = "KLAP" -> IF session THEN OnSession ELSE Login
    [] mode = "AES"  -> IF session THEN {"error"} ELSE {"http404"}
    [] OTHER         -> IF session THEN {"retryable"} ELSE {"refused403"}

AesOutcomes ==
  CASE mode = "AES" -> IF session THEN OnSession ELSE Login
    [] OTHER        -> {"error"}

(* A discover answer is asked for once and kept: only without one does the *)
(* transport learn that the device is not in TPAP mode.                    *)
TpapOutcomes ==
  CASE mode = "TPAP" -> IF session THEN OnSession ELSE Login
    [] OTHER         -> IF session THEN {"retryable", "error"}
                        ELSE IF info THEN {"error"} ELSE {"notTpap"}

Reachable ==
  CASE transport = "KLAP" -> KlapOutcomes
    [] transport = "AES"  -> AesOutcomes
    [] OTHER              -> TpapOutcomes

Reply == IF up THEN Reachable ELSE {"unreachable"}

(* The session after an exchange: opened by one that works, dropped when   *)
(* the device does not know it; a failed handshake had none.               *)
SessionAfter(o) == o = "ok" \/ (session /\ o = "error")
InfoAfter(o) ==
  IF transport # "TPAP" THEN {FALSE}
  ELSE CASE o = "ok" -> {TRUE}
         [] o # "ok" -> IF mode = "TPAP" THEN {info, TRUE} ELSE {info}
KnownAfter(o) == IF o = "ok" THEN TRUE ELSE known

---------------------------------------------------------------------------
(* The call.                                                               *)

Built(type) == IF type = None THEN "KLAP" ELSE type

CallStarts ==
  /\ stage = "idle"
  /\ ~blocked
  /\ stage' = "first"
  /\ transport' = IF transport = None THEN Built(encryptType) ELSE transport
  /\ UNCHANGED <<device, encryptType, session, info, announced, result, blocked,
                 bounds>>

CallBlocked ==
  /\ stage = "idle"
  /\ blocked
  /\ result' = "backoff"
  /\ UNCHANGED <<device, link, announced, stage, blocked, bounds>>

PauseEnds ==
  /\ blocked
  /\ blocked' = FALSE
  /\ UNCHANGED <<device, link, progress, bounds>>

(* The lifetime of a KLAP or TPAP session is over.                         *)
SessionExpires ==
  /\ stage = "idle"
  /\ session
  /\ transport # "AES"
  /\ session' = FALSE
  /\ UNCHANGED <<device, encryptType, transport, info, progress, blocked, bounds>>

AsksPause(o) == o \in {"auth", "unreachable"}

(* The call ends; a refused account or a silent device resets the session  *)
(* and is left alone for a while.                                          *)
Ends(o) ==
  /\ stage' = "idle"
  /\ result' = o
  /\ blocked' = (blocked \/ AsksPause(o))
  /\ session' = SessionAfter(o)
  /\ info' \in InfoAfter(o)
  /\ UNCHANGED <<encryptType, transport, announced>>

SwitchToKeepsTransport(type) ==
  /\ encryptType' = type
  /\ UNCHANGED <<transport, session, info, result, blocked>>

SwitchTo(type) ==
  /\ encryptType' = type
  /\ transport' = type
  /\ session' = FALSE
  /\ info' = FALSE
  /\ UNCHANGED <<result, blocked>>

(* The outcomes of the first exchange that are handled rather than thrown. *)
Handled(o) ==
  \/ o = "http404" /\ encryptType = None
  \/ o \in {"refused403", "notTpap", "retryable"}

FallsBackToAes(o) ==
  /\ stage = "first" /\ o = "http404" /\ encryptType = None
  /\ SwitchTo("AES")
  /\ stage' = "switched"
  /\ UNCHANGED announced

TriesTpap(o) ==
  /\ stage = "first" /\ o = "refused403"
  /\ announced' = encryptType
  /\ SwitchTo("TPAP")
  /\ stage' = "tpap"

LeavesTpap(o) ==
  /\ stage = "first" /\ o = "notTpap"
  /\ SwitchTo("KLAP")
  /\ stage' = "switched"
  /\ UNCHANGED announced

Resends(o) ==
  /\ stage = "first" /\ o = "retryable"
  /\ session' = FALSE
  /\ stage' = "again"
  /\ UNCHANGED <<encryptType, transport, info, announced, result, blocked>>

TurnsBackHalfway(o) ==
  /\ stage = "tpap" /\ o = "notTpap"
  /\ transport' = "KLAP"
  /\ session' = FALSE /\ info' = FALSE
  /\ stage' = "idle" /\ result' = "refused403"
  /\ UNCHANGED <<encryptType, announced, blocked>>

(* The device is not in TPAP mode either: the KLAP transport comes back,   *)
(* and its refusal is what the caller hears of.                            *)
TurnsBack(o) ==
  /\ stage = "tpap" /\ o = "notTpap"
  /\ encryptType' = announced /\ transport' = "KLAP"
  /\ session' = FALSE /\ info' = FALSE
  /\ stage' = "idle" /\ result' = "refused403"
  /\ UNCHANGED <<announced, blocked>>

Returns(o) ==
  /\ stage = "first" => ~Handled(o)
  /\ ~(stage = "tpap" /\ o = "notTpap")
  /\ Ends(o)

Exchange ==
  /\ stage # "idle"
  /\ \E o \in Reply :
       /\ FallsBackToAes(o) \/ TriesTpap(o) \/ LeavesTpap(o) \/ Resends(o)
          \/ TurnsBack(o) \/ Returns(o)
       /\ known' = KnownAfter(o)
       /\ refusals' = IF o = "auth" THEN refusals + 1 ELSE refusals
  /\ UNCHANGED <<mode, up, changes, restarts, outages>>

Next ==
  \/ \E m \in AllModes : ChangesMode(m)
  \/ DropsSession \/ GoesAway \/ ComesBack
  \/ CallStarts \/ CallBlocked \/ PauseEnds \/ SessionExpires
  \/ Exchange

Spec == Init /\ [][Next]_vars

(* Rounds keep calling, exchanges end by their deadline, pauses are over   *)
(* after a while, and a device that was unplugged is plugged in again.     *)
FairSpec ==
  /\ Spec
  /\ WF_vars(CallStarts) /\ WF_vars(Exchange) /\ WF_vars(PauseEnds)
  /\ WF_vars(ComesBack)

---------------------------------------------------------------------------
(* Properties.                                                             *)

(* The transport in use is the one encryptType stands for, whatever was    *)
(* tried and given up: the fallbacks test both.                            *)
TransportAgrees == transport # None => transport = Built(encryptType)

(* The client settles on the protocol of the device, whatever it was told  *)
(* and whichever it becomes, and its calls are answered again and again.   *)
Settles == []<>(result = "ok" \/ mode = "closed")
===============================================================================
