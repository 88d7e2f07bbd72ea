----------------------------- MODULE CloudAccount -----------------------------
(***************************************************************************)
(* The token of the TP-Link cloud (src/tapo/cloud.js) and whose devices a  *)
(* publication lists (src/app.js).  A publication reads the configuration, *)
(* logs in unless the client holds a token it believes fresh, and asks for *)
(* the device list, renewing once a token the cloud does not honour.       *)
(* Saving the configuration drops the token, at any moment of that.        *)
(*                                                                         *)
(* An account is the version of the configuration it was saved with.       *)
(***************************************************************************)
EXTENDS Naturals

CONSTANTS
  MaxEdits,    \* bound on the configurations saved
  Refused,     \* versions whose password the cloud refuses
  MaxRevoked,  \* bound on the tokens the cloud stops honouring
  None

Versions == 0..MaxEdits

CloudAssumption ==
  /\ MaxEdits \in Nat /\ MaxRevoked \in Nat
  /\ Refused \subseteq Versions
  /\ None \notin Nat

VARIABLES
  stored,    \* the configuration Gladys stores
  token,     \* the account of the token held, and whether it is honoured
  fresh,     \* it is younger than its TTL
  pass,      \* what the publication in flight awaits
  queued,    \* another one waits for it
  config,    \* the configuration it read
  sent,      \* the token its list request carries
  overlapped,  \* history: the cloud was being asked for another account when
               \* the last configuration was saved
  revoked

holding == <<token, fresh>>
running == <<pass, queued, config, sent>>
vars == <<stored, holding, running, overlapped, revoked>>

NoToken == [of |-> None, honoured |-> FALSE]
Tokens == [of : Versions, honoured : BOOLEAN] \cup {NoToken}

TypeOK ==
  /\ stored \in Versions
  /\ token \in Tokens /\ fresh \in BOOLEAN
  /\ pass \in {"none", "reading", "login", "list", "relogin", "relist"}
  /\ queued \in BOOLEAN /\ (queued => pass # "none")
  /\ config \in Versions
  /\ sent \in Tokens
  /\ sent # NoToken => pass \in {"list", "relogin", "relist"}
  /\ overlapped \in BOOLEAN
  /\ revoked \in 0..MaxRevoked

Init ==
  /\ stored = 0
  /\ token = NoToken /\ fresh = FALSE
  /\ pass = "none" /\ queued = FALSE /\ config = 0 /\ sent = NoToken
  /\ overlapped = FALSE
  /\ revoked = 0

---------------------------------------------------------------------------
publishDevices ==
  /\ pass' = IF pass = "none" THEN "reading" ELSE pass
  /\ queued' = (pass # "none")

Ask ==
  /\ publishDevices
  /\ UNCHANGED <<stored, holding, config, sent, overlapped, revoked>>

ConfigUpdatedKeepsToken ==
  /\ stored < MaxEdits
  /\ stored' = stored + 1
  /\ overlapped' = (pass \notin {"none", "reading"})
  /\ publishDevices
  /\ UNCHANGED <<token, fresh, config, sent, revoked>>

(* The account may have changed: the token held is dropped.  Gladys tells  *)
(* of a configuration as soon as it stores it.                             *)
ConfigUpdated ==
  /\ stored < MaxEdits
  /\ stored' = stored + 1
  /\ token' = NoToken
  /\ overlapped' = (pass \notin {"none", "reading"})
  /\ publishDevices
  /\ UNCHANGED <<fresh, config, sent, revoked>>

Over ==
  /\ pass' = IF queued THEN "reading" ELSE "none"
  /\ queued' = FALSE
  /\ sent' = NoToken
  /\ UNCHANGED config

(* login() with a token it believes fresh makes no call.                   *)
ReadsConfig ==
  /\ pass = "reading"
  /\ config' = stored
  /\ IF token # NoToken /\ fresh
     THEN pass' = "list" /\ sent' = token
     ELSE pass' = "login" /\ UNCHANGED sent
  /\ UNCHANGED <<stored, holding, queued, overlapped, revoked>>

LoggedIn ==
  /\ pass \in {"login", "relogin"}
  /\ config \notin Refused
  /\ token' = [of |-> config, honoured |-> TRUE]
  /\ fresh' = TRUE
  /\ sent' = token'
  /\ pass' = IF pass = "login" THEN "list" ELSE "relist"
  /\ UNCHANGED <<stored, queued, config, overlapped, revoked>>

LoginRefused ==
  /\ pass \in {"login", "relogin"}
  /\ config \in Refused
  /\ Over
  /\ UNCHANGED <<stored, holding, overlapped, revoked>>

Listed ==
  /\ pass \in {"list", "relist"}
  /\ sent.honoured
  /\ Over
  /\ UNCHANGED <<stored, holding, overlapped, revoked>>

(* Renewed once, whatever the age it believes it has.                      *)
TokenRejected ==
  /\ pass \in {"list", "relist"}
  /\ ~sent.honoured
  /\ IF pass = "list"
     THEN /\ token' = NoToken
          /\ pass' = "relogin"
          /\ UNCHANGED <<queued, config, sent>>
     ELSE Over /\ UNCHANGED token
  /\ UNCHANGED <<stored, fresh, overlapped, revoked>>

Unreachable ==
  /\ pass \in {"login", "list", "relogin", "relist"}
  /\ Over
  /\ UNCHANGED <<stored, holding, overlapped, revoked>>

(* The cloud stops honouring the tokens it gave; those of a request sent   *)
(* before the answer included.                                             *)
Revokes ==
  /\ revoked < MaxRevoked
  /\ revoked' = revoked + 1
  /\ token' = IF token = NoToken THEN token ELSE [token EXCEPT !.honoured = FALSE]
  /\ sent' = IF sent = NoToken THEN sent ELSE [sent EXCEPT !.honoured = FALSE]
  /\ UNCHANGED <<stored, fresh, pass, queued, config,
                 overlapped>>

Ages ==
  /\ fresh
  /\ fresh' = FALSE
  /\ UNCHANGED <<stored, token, running, overlapped, revoked>>

Next ==
  \/ Ask \/ ConfigUpdated \/ ReadsConfig
  \/ LoggedIn \/ LoginRefused \/ Listed \/ TokenRejected \/ Unreachable
  \/ Revokes \/ Ages

Spec == Init /\ [][Next]_vars

---------------------------------------------------------------------------
(* Properties.                                                             *)

(* A publication lists the devices of the account it read, never those of  *)
(* the account configured before, as long as that one was not being asked  *)
(* for: its answer comes after the token was dropped, and brings another.  *)
AccountListed == [][Listed /\ ~overlapped => sent.of = config]_vars
===============================================================================
