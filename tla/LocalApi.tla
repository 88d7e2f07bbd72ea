------------------------------- MODULE LocalApi -------------------------------
(***************************************************************************)
(* The client of a camera's local HTTPS API (src/tapo/localApi.js): the    *)
(* two-step login, the session token, the queue its requests wait in, the  *)
(* retry of a dropped session, the pause after a failure and the log out   *)
(* of a client that is closed.                                             *)
(*                                                                         *)
(* A camera serves a handful of sessions and locks a client out that keeps *)
(* failing to log in: what matters is the sessions a client leaves behind  *)
(* and the logins it attempts.  Every exchange ends, its timer sees to it. *)
(* Only tasks of the queue log in, so loginPromise is never shared.        *)
(***************************************************************************)
EXTENDS Naturals, Sequences

CONSTANTS
  MaxCalls,      \* bound on the requests of the poll and of the commands
  MaxDrops,      \* bound on the sessions the camera ends by itself
  MaxLost,       \* bound on the answers that are lost or cannot be read
  MaxRefusals,   \* bound on the logins the camera refuses
  MaxOutages,    \* bound on the times the camera goes away
  None

ASSUME LocalApiAssumption ==
  /\ {MaxCalls, MaxDrops, MaxLost, MaxRefusals, MaxOutages} \subseteq Nat
  /\ None \notin {"call", "logout"}

VARIABLES
  stok,      \* the client holds a session token
  queue,     \* tasks waiting
  task,      \* the task running
  phase,     \* the exchange it is in
  retried,   \* the session was already renewed for it
  blocked,   \* before blockedUntil
  closed,    \* close() was called
  up,        \* the camera answers
  live,      \* the camera knows the session of stok
  spare,     \* other sessions of this client the camera still holds
  resting,   \* history: the pause the last failure asks for is not over
  excuse,    \* history: what went wrong during the last task
  result,    \* history: how it ended
  calls, drops, lost, refusals, outages   \* the bounds

session == <<stok, live, spare>>
running == <<queue, task, phase, retried>>
pause == <<blocked, resting>>
verdict == <<excuse, result>>
bounds == <<calls, drops, lost, refusals, outages>>
vars == <<session, running, pause, closed, up, verdict, bounds>>

Tasks == {"call", "logout"}
Login == {"hello", "digest"}

(* A task runs in an exchange; a session is used only once it was opened.  *)
TypeOK ==
  /\ {stok, retried, blocked, closed, up, live, resting} \subseteq BOOLEAN
  /\ queue \in Seq(Tasks)
  /\ task \in Tasks \cup {None}
  /\ phase \in Login \cup {"idle", "ask"}
  /\ (task = None) = (phase = "idle")
  /\ (phase = "ask") => stok
  /\ (phase \in Login) => ~stok
  /\ live => stok
  /\ blocked => resting
  /\ {spare, excuse} \subseteq Nat
  /\ result \in {"none", "done", "failed", "backoff"}

Init ==
  /\ stok = FALSE /\ live = FALSE /\ spare = 0
  /\ queue = << >> /\ task = None /\ phase = "idle" /\ retried = FALSE
  /\ blocked = FALSE /\ resting = FALSE /\ closed = FALSE /\ up = TRUE
  /\ excuse = 0 /\ result = "none"
  /\ calls = 0 /\ drops = 0 /\ lost = 0 /\ refusals = 0 /\ outages = 0

---------------------------------------------------------------------------
(* The camera.                                                             *)

DropsSession ==
  /\ live
  /\ drops < MaxDrops
  /\ drops' = drops + 1
  /\ live' = FALSE
  /\ excuse' = excuse + 1
  /\ UNCHANGED <<stok, spare, running, pause, closed, up, result, calls, lost,
                 refusals, outages>>

SpareExpires ==
  /\ spare > 0
  /\ spare' = spare - 1
  /\ UNCHANGED <<stok, live, running, pause, closed, up, verdict, bounds>>

GoesAway ==
  /\ up
  /\ outages < MaxOutages
  /\ outages' = outages + 1
  /\ up' = FALSE
  /\ UNCHANGED <<session, running, pause, closed, verdict, calls, drops, lost,
                 refusals>>

ComesBack ==
  /\ ~up
  /\ up' = TRUE
  /\ UNCHANGED <<session, running, pause, closed, verdict, bounds>>

---------------------------------------------------------------------------
(* The queue.                                                              *)

Call ==
  /\ ~closed
  /\ calls < MaxCalls
  /\ calls' = calls + 1
  /\ queue' = Append(queue, "call")
  /\ UNCHANGED <<session, task, phase, retried, pause, closed, up, verdict,
                 drops, lost, refusals, outages>>

(* Without a token there is nothing to log out of.                         *)
Close ==
  /\ ~closed
  /\ closed' = TRUE
  /\ queue' = IF stok THEN Append(queue, "logout") ELSE queue
  /\ UNCHANGED <<session, task, phase, retried, pause, up, verdict, bounds>>

Begin(t) ==
  /\ task = None
  /\ queue # << >>
  /\ Head(queue) = t
  /\ queue' = Tail(queue)

Starts ==
  /\ task' = Head(queue)
  /\ phase' = IF stok THEN "ask" ELSE "hello"
  /\ retried' = FALSE
  /\ excuse' = IF stok /\ ~live THEN 1 ELSE 0

CallUnchecked ==
  /\ Begin("call")
  /\ Starts
  /\ UNCHANGED <<session, pause, closed, up, result, bounds>>

CallAvailable ==
  /\ Begin("call")
  /\ ~blocked
  /\ Starts
  /\ UNCHANGED <<session, pause, closed, up, result, bounds>>

(* The camera is left alone: the call fails at once.                       *)
CallBlocked ==
  /\ Begin("call")
  /\ blocked
  /\ result' = "backoff"
  /\ UNCHANGED <<session, task, phase, retried, pause, closed, up, excuse,
                 bounds>>

(* The log out looks at nothing but the queue.                             *)
LogoutStarts ==
  /\ Begin("logout")
  /\ Starts
  /\ UNCHANGED <<session, pause, closed, up, result, bounds>>

TaskEnds ==
  /\ task' = None
  /\ phase' = "idle"

Forget ==
  /\ stok' = FALSE
  /\ live' = FALSE
  /\ spare' = IF live THEN spare + 1 ELSE spare

FailsStuck(asksPause) ==
  /\ task' = task /\ phase' = "idle"
  /\ result' = "failed"
  /\ resting' = IF asksPause THEN TRUE ELSE resting
  /\ blocked' = IF asksPause /\ task = "call" THEN TRUE ELSE blocked
  /\ UNCHANGED <<queue, retried>>

(* A failure of a call is remembered when it asks for a pause; that of a   *)
(* log out is dropped, and the token with it.                              *)
Fails(asksPause) ==
  /\ TaskEnds
  /\ result' = "failed"
  /\ resting' = IF asksPause THEN TRUE ELSE resting
  /\ blocked' = IF asksPause /\ task = "call" THEN TRUE ELSE blocked
  /\ UNCHANGED <<queue, retried>>

KeepForCalls == IF task = "logout" THEN Forget ELSE UNCHANGED session

PauseEnds ==
  /\ resting
  /\ resting' = FALSE
  /\ blocked' = FALSE
  /\ UNCHANGED <<session, running, closed, up, verdict, bounds>>

---------------------------------------------------------------------------
(* The exchanges.                                                          *)

UnreachableForgets ==
  /\ phase # "idle"
  /\ ~up
  /\ Fails(TRUE)
  /\ Forget
  /\ excuse' = excuse + 2
  /\ UNCHANGED <<closed, up, bounds>>

Unreachable ==
  /\ phase # "idle"
  /\ ~up
  /\ Fails(TRUE)
  /\ KeepForCalls
  /\ excuse' = excuse + 2
  /\ UNCHANGED <<closed, up, bounds>>

(* The request or its answer is lost: the camera may have opened a session *)
(* nobody knows of, or have logged out.                                    *)
AnswerLost ==
  /\ phase # "idle" /\ up
  /\ lost < MaxLost
  /\ lost' = lost + 1
  /\ excuse' = excuse + 2
  /\ Fails(TRUE)
  /\ \/ KeepForCalls
     \/ phase = "digest" /\ spare' = spare + 1 /\ UNCHANGED <<stok, live>>
     \/ /\ phase = "ask" /\ task = "logout"
        /\ stok' = FALSE /\ live' = FALSE /\ UNCHANGED spare
  /\ UNCHANGED <<closed, up, calls, drops, refusals, outages>>

Challenged ==
  /\ phase = "hello" /\ up
  /\ phase' = "digest"
  /\ UNCHANGED <<session, queue, task, retried, pause, closed, up, verdict,
                 bounds>>

LoggedIn ==
  /\ phase = "digest" /\ up
  /\ stok' = TRUE /\ live' = TRUE
  /\ phase' = "ask"
  /\ UNCHANGED <<spare, queue, task, retried, pause, closed, up, verdict,
                 bounds>>

(* No nonce, a device_confirm that does not match, or no token.            *)
LoginRefused ==
  /\ phase \in Login /\ up
  /\ refusals < MaxRefusals
  /\ refusals' = refusals + 1
  /\ Fails(TRUE)
  /\ KeepForCalls
  /\ excuse' = excuse + 2
  /\ UNCHANGED <<closed, up, calls, drops, lost, outages>>

Answered ==
  /\ phase = "ask" /\ up /\ live
  /\ TaskEnds
  /\ result' = "done"
  /\ IF task = "logout" THEN stok' = FALSE /\ live' = FALSE
                        ELSE UNCHANGED <<stok, live>>
  /\ UNCHANGED <<spare, queue, retried, pause, closed, up, excuse, bounds>>

NotAnsweredGivesUp == Fails(FALSE) /\ KeepForCalls

(* An answer without a response, or one that cannot be read, is taken for  *)
(* a dropped session: a call logs in again, once.                          *)
NotAnswered ==
  \/ task = "call" /\ ~retried
     /\ retried' = TRUE
     /\ phase' = "hello"
     /\ Forget
     /\ UNCHANGED <<queue, task, pause, result>>
  \/ (task = "logout" \/ retried) /\ Fails(FALSE) /\ KeepForCalls

SessionUnknown ==
  /\ phase = "ask" /\ up /\ ~live
  /\ NotAnswered
  /\ UNCHANGED <<closed, up, excuse, bounds>>

Garbled ==
  /\ phase = "ask" /\ up /\ live
  /\ lost < MaxLost
  /\ lost' = lost + 1
  /\ excuse' = excuse + 1
  /\ NotAnswered
  /\ UNCHANGED <<closed, up, calls, drops, refusals, outages>>

Exchange ==
  \/ Unreachable \/ AnswerLost \/ Challenged \/ LoggedIn \/ LoginRefused
  \/ Answered \/ SessionUnknown \/ Garbled

ClientStep == CallAvailable \/ CallBlocked \/ LogoutStarts \/ Exchange

Next ==
  \/ DropsSession \/ SpareExpires \/ GoesAway \/ ComesBack
  \/ Call \/ Close \/ PauseEnds
  \/ ClientStep

Spec == Init /\ [][Next]_vars

(* Each exchange ends, by its answer or by its timer.                      *)
FairSpec == Spec /\ WF_vars(ClientStep)
---------------------------------------------------------------------------
(* Properties.                                                             *)

(* The camera holds no session of this client besides the one in use, save *)
(* one per answer that was lost and one for a log out that failed:         *)
(* "Opening a new one per poll without logging out exhausts them".         *)
SessionsAccounted == spare <= lost + (IF closed THEN 1 ELSE 0)

(* No call logs in before the pause that the last failure asks for is      *)
(* over, those still queued when the client is closed included: every      *)
(* attempt during a lockout prolongs it.  A log out does not look.         *)
Quiet ==
  [][phase \notin Login /\ phase' \in Login
       => ~resting \/ task' = "logout"]_vars

(* A call only fails for more than one session dropped under it: the       *)
(* camera was away, refused a login, lost an answer, or dropped a second   *)
(* session.                                                                *)
SurvivesDrop ==
  [][task = "call" /\ task' = None /\ result' = "failed" => excuse' >= 2]_vars

(* The queue moves on whatever its tasks end with.                         *)
QueueDrains == []<>(task = None /\ queue = << >>)
=============================================================================
