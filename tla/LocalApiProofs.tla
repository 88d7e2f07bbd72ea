---------------------------- MODULE LocalApiProofs ----------------------------
(***************************************************************************)
(* The sessions a client of the local API leaves on a camera, the pauses   *)
(* it keeps, and the failures its calls survive.                           *)
(***************************************************************************)
EXTENDS LocalApi, TLAPS

LogoutPending == task = "logout" \/ \E i \in 1..Len(queue) : queue[i] = "logout"

(* The log out is the last task, and there is one only once closed.        *)
QueueInv ==
  /\ queue \in Seq(Tasks)
  /\ task \in Tasks \cup {None}
  /\ \A i \in 1..Len(queue) : queue[i] = "logout" => closed /\ i = Len(queue)
  /\ task = "logout" => closed /\ queue = << >>

SessionInv ==
  /\ stok \in BOOLEAN /\ live \in BOOLEAN /\ closed \in BOOLEAN
  /\ spare \in Nat /\ lost \in Nat
  /\ live => stok
  /\ (phase \in Login) => ~stok
  /\ (task = None) <=> (phase = "idle")

(* Until the log out is over, every spare session is a lost answer.        *)
Budget ==
  /\ SessionsAccounted
  /\ LogoutPending => spare <= lost

IInv == QueueInv /\ SessionInv /\ Budget

(* What taking the first task leaves in the queue.                         *)
LEMMA Taken ==
  ASSUME queue \in Seq(Tasks), NEW t \in Tasks, Begin(t)
  PROVE  /\ queue' \in Seq(Tasks)
         /\ \A i \in 1..Len(queue') : queue'[i] = queue[i + 1]
         /\ Len(queue') = Len(queue) - 1
         /\ t = queue[1] /\ Len(queue) > 0 /\ Len(queue) \in Nat
         /\ task = None
  BY DEF Begin, Tasks

LEMMA QueueHolds == Spec => []QueueInv
<1>1. Init => QueueInv
  BY LocalApiAssumption DEF Init, QueueInv
<1>2. QueueInv /\ [Next]_vars => QueueInv'
  <2> SUFFICES ASSUME QueueInv, [Next]_vars PROVE QueueInv'
    OBVIOUS
  <2> USE LocalApiAssumption DEF QueueInv, Tasks
  <2>1. CASE Call
    BY <2>1 DEF Call
  <2>2. CASE Close
    BY <2>2 DEF Close
  <2>3. ASSUME NEW t \in Tasks, Begin(t)
        PROVE  /\ queue' \in Seq(Tasks)
               /\ \A i \in 1..Len(queue') : queue'[i] = queue[i + 1]
               /\ Len(queue') = Len(queue) - 1
               /\ t = queue[1] /\ Len(queue) > 0
    BY <2>3, Taken
  <2>4. CASE CallAvailable
    <3>1. task' = "call" /\ closed' = closed
      BY <2>4 DEF CallAvailable, Begin, Starts
    <3> QED
      BY <2>3, <2>4, <3>1 DEF CallAvailable
  <2>5. CASE CallBlocked
    <3>1. task' = None /\ closed' = closed
      BY <2>5 DEF CallBlocked, Begin
    <3> QED
      BY <2>3, <2>5, <3>1 DEF CallBlocked
  <2>6. CASE LogoutStarts
    <3>1. task' = "logout" /\ closed' = closed
      BY <2>6 DEF LogoutStarts, Begin, Starts
    <3>2. closed /\ Len(queue) = 1
      BY <2>3, <2>6 DEF LogoutStarts
    <3>3. queue' = << >>
      BY <2>3, <2>6, <3>2 DEF LogoutStarts
    <3> QED
      BY <3>1, <3>2, <3>3
  <2>7. CASE Exchange
    <3>1. queue' = queue /\ closed' = closed /\ task' \in {task, None}
      BY <2>7 DEF Exchange, Unreachable, AnswerLost, Challenged, LoggedIn,
         LoginRefused, Answered, SessionUnknown, Garbled, NotAnswered, Fails,
         TaskEnds, running, session
    <3> QED
      BY <3>1
  <2>8. CASE \/ DropsSession \/ SpareExpires \/ GoesAway \/ ComesBack
             \/ PauseEnds \/ UNCHANGED vars
    BY <2>8 DEF DropsSession, SpareExpires, GoesAway, ComesBack, PauseEnds,
       running, vars
  <2> QED
    BY <2>1, <2>2, <2>4, <2>5, <2>6, <2>7, <2>8 DEF Next, ClientStep
<1> QED
  BY <1>1, <1>2, PTL DEF Spec

(* Forgetting the session leaves at most one more behind.                  *)
LEMMA Forgotten ==
  ASSUME spare \in Nat, Forget
  PROVE  /\ ~stok' /\ ~live' /\ stok' \in BOOLEAN /\ live' \in BOOLEAN
         /\ spare' \in Nat /\ spare' \in {spare, spare + 1}
<1>1. stok' = FALSE /\ live' = FALSE
  BY DEF Forget
<1>2. spare' = spare \/ spare' = spare + 1
  BY DEF Forget
<1>3. spare' \in Nat
  BY <1>2
<1> QED
  BY <1>1, <1>2, <1>3

LEMMA KeptOrForgotten ==
  ASSUME SessionInv, KeepForCalls
  PROVE  /\ stok' \in BOOLEAN /\ live' \in BOOLEAN /\ (live' => stok')
         /\ spare' \in Nat
         /\ ~stok => ~stok'
         /\ spare' = spare \/ (spare' = spare + 1 /\ task = "logout")
<1>1. CASE task = "logout"
  BY <1>1, Forgotten DEF SessionInv, KeepForCalls
<1>2. CASE task # "logout"
  BY <1>2 DEF SessionInv, KeepForCalls, session
<1> QED
  BY <1>1, <1>2

(* A task that ends frees at most the session in use, and only the log     *)
(* out does so without the client asking for another one.                  *)
LEMMA BudgetHolds ==
  ASSUME QueueInv, QueueInv', IInv, [Next]_vars
  PROVE  SessionInv' /\ Budget'
<1> USE LocalApiAssumption DEF Tasks, Login
<1>1. CASE Call
  BY <1>1 DEF Call, IInv, SessionInv, Budget, SessionsAccounted, QueueInv,
     LogoutPending, session
<1>2. CASE Close
  BY <1>2 DEF Close, IInv, SessionInv, Budget, SessionsAccounted, session, bounds
<1>3. CASE CallAvailable \/ CallBlocked \/ LogoutStarts
  <2>1. /\ spare' = spare /\ lost' = lost /\ closed' = closed
        /\ stok' = stok /\ live' = live
    BY <1>3 DEF CallAvailable, CallBlocked, LogoutStarts, session, bounds
  <2>2. SessionInv'
    BY <1>3, <2>1 DEF IInv, SessionInv, CallAvailable, CallBlocked,
       LogoutStarts, Begin, Starts
  <2>3. PICK t \in Tasks : Begin(t) /\ task' \in {t, None}
    BY <1>3 DEF CallAvailable, CallBlocked, LogoutStarts, Begin, Starts
  <2>4. /\ \A i \in 1..Len(queue') : queue'[i] = queue[i + 1]
        /\ Len(queue') = Len(queue) - 1
        /\ t = queue[1] /\ Len(queue) > 0 /\ Len(queue) \in Nat
    BY <2>3, Taken DEF QueueInv
  <2>5. LogoutPending' => \E i \in 1..Len(queue) : queue[i] = "logout"
    <3>1. task' = "logout" => queue[1] = "logout"
      BY <2>3, <2>4
    <3>2. ASSUME NEW i \in 1..Len(queue'), queue'[i] = "logout"
          PROVE  i + 1 \in 1..Len(queue) /\ queue[i + 1] = "logout"
      BY <2>4, <3>2
    <3> QED
      BY <2>4, <3>1, <3>2 DEF LogoutPending
  <2>6. LogoutPending' => LogoutPending
    BY <2>5 DEF LogoutPending
  <2> QED
    BY <2>1, <2>2, <2>6 DEF IInv, Budget, SessionsAccounted
<1>4. CASE Exchange
  <2>1. queue' = queue /\ closed' = closed /\ task' \in {task, None}
    BY <1>4 DEF Exchange, Unreachable, AnswerLost, Challenged, LoggedIn,
       LoginRefused, Answered, SessionUnknown, Garbled, NotAnswered, Fails,
       TaskEnds, running, session
  <2>2. LogoutPending' => LogoutPending
    BY <2>1 DEF LogoutPending
  <2>3. task = "logout" => LogoutPending /\ closed
    BY DEF LogoutPending, IInv, QueueInv
  <2>4. ASSUME task = "logout", task' = None PROVE ~LogoutPending'
    BY <2>1, <2>4 DEF IInv, QueueInv, LogoutPending
  <2>5. SessionInv'
    <3>1. CASE Unreachable
      <4>1. SessionInv /\ KeepForCalls
        BY <3>1 DEF Unreachable, IInv
      <4>2. task' = None /\ phase' = "idle" /\ lost' = lost /\ closed' = closed
        BY <3>1 DEF Unreachable, Fails, TaskEnds, bounds
      <4> QED
        BY <4>1, <4>2, KeptOrForgotten DEF SessionInv
    <3>2. CASE AnswerLost
      <4>1. /\ task' = None /\ phase' = "idle" /\ lost' = lost + 1
            /\ closed' = closed
        BY <3>2 DEF AnswerLost, Fails, TaskEnds
      <4>2. CASE KeepForCalls
        BY <4>1, <4>2, KeptOrForgotten DEF IInv, SessionInv
      <4>3. CASE spare' = spare + 1 /\ UNCHANGED <<stok, live>>
        BY <4>1, <4>3 DEF IInv, SessionInv
      <4>4. CASE stok' = FALSE /\ live' = FALSE /\ UNCHANGED spare
        <5>1. spare' \in Nat /\ lost' \in Nat
          BY <4>1, <4>4 DEF IInv, SessionInv
        <5> QED
          BY <4>1, <4>4, <5>1 DEF IInv, SessionInv
      <4> QED
        BY <3>2, <4>2, <4>3, <4>4 DEF AnswerLost
    <3>3. CASE Challenged
      BY <3>3 DEF Challenged, IInv, SessionInv, NotAnswered, Fails, KeepForCalls,
         Forget, TaskEnds, session, running, bounds
    <3>4. CASE LoggedIn
      BY <3>4 DEF LoggedIn, IInv, SessionInv, NotAnswered, Fails, KeepForCalls,
         Forget, TaskEnds, session, running, bounds
    <3>5. CASE LoginRefused
      BY <3>5 DEF LoginRefused, IInv, SessionInv, NotAnswered, Fails, KeepForCalls,
         Forget, TaskEnds, session, running, bounds
    <3>6. CASE Answered
      BY <3>6 DEF Answered, IInv, SessionInv, NotAnswered, Fails, KeepForCalls,
         Forget, TaskEnds, session, running, bounds
    <3>7. CASE SessionUnknown
      BY <3>7 DEF SessionUnknown, IInv, SessionInv, NotAnswered, Fails, KeepForCalls,
         Forget, TaskEnds, session, running, bounds
    <3>8. CASE Garbled
      <4>1. lost' = lost + 1 /\ closed' = closed /\ phase = "ask"
        BY <3>8 DEF Garbled
      <4>2. CASE task = "call" /\ phase' = "hello" /\ Forget /\ task' = task
        <5>1. "hello" # "idle" /\ task' # None /\ lost' \in Nat
          BY <4>1, <4>2 DEF IInv, SessionInv
        <5> QED
          BY <4>1, <4>2, <5>1, Forgotten DEF IInv, SessionInv
      <4>3. CASE task' = None /\ phase' = "idle" /\ KeepForCalls
        BY <4>1, <4>3, KeptOrForgotten DEF IInv, SessionInv
      <4> QED
        BY <3>8, <4>2, <4>3 DEF Garbled, NotAnswered, Fails, TaskEnds
    <3> QED
      BY <1>4, <3>1, <3>2, <3>3, <3>4, <3>5, <3>6, <3>7, <3>8
         DEF Exchange
  <2>6. \/ spare' = spare /\ lost' \in {lost, lost + 1}
        \/ spare' = spare + 1 /\ lost' = lost + 1
        \/ spare' = spare + 1 /\ lost' = lost /\ task = "logout" /\ task' = None
    BY <1>4 DEF IInv, SessionInv, Exchange, Unreachable, AnswerLost,
       Challenged, LoggedIn, LoginRefused, Answered, SessionUnknown, Garbled,
       NotAnswered, Fails, KeepForCalls, Forget, TaskEnds, session, running,
       bounds
  <2>7. /\ spare \in Nat /\ lost \in Nat /\ closed' = closed
        /\ spare <= lost + (IF closed THEN 1 ELSE 0)
        /\ LogoutPending => spare <= lost
    BY <2>1 DEF IInv, SessionInv, Budget, SessionsAccounted
  <2>8. CASE task = "logout" /\ task' = None
    <3>1. closed /\ ~LogoutPending' /\ spare <= lost
      BY <2>3, <2>4, <2>7, <2>8
    <3>2. spare' <= lost' + 1
      BY <2>6, <2>7, <3>1
    <3> QED
      BY <2>5, <2>7, <3>1, <3>2 DEF Budget, SessionsAccounted
  <2>9. CASE ~(task = "logout" /\ task' = None)
    <3>1. \/ spare' = spare /\ lost' = lost
          \/ spare' = spare /\ lost' = lost + 1
          \/ spare' = spare + 1 /\ lost' = lost + 1
      BY <2>6, <2>9, Zenon
    <3>2. spare' <= lost' + (IF closed THEN 1 ELSE 0)
      <4>1. CASE closed
        BY <2>7, <3>1, <4>1
      <4>2. CASE ~closed
        BY <2>7, <3>1, <4>2
      <4> QED
        BY <4>1, <4>2
    <3>3. SessionsAccounted'
      BY <2>7, <3>2 DEF SessionsAccounted
    <3>4. spare <= lost => spare' <= lost'
      BY <2>7, <3>1
    <3> QED
      BY <2>2, <2>5, <2>7, <3>3, <3>4 DEF Budget
  <2> QED
    BY <2>8, <2>9
<1>5. CASE \/ DropsSession \/ SpareExpires \/ GoesAway \/ ComesBack
           \/ PauseEnds \/ UNCHANGED vars
  <2>1. /\ queue' = queue /\ task' = task /\ phase' = phase
        /\ closed' = closed /\ lost' = lost
    BY <1>5 DEF DropsSession, SpareExpires, GoesAway, ComesBack, PauseEnds,
       running, bounds, vars
  <2>2. stok' = stok /\ (live' = live \/ live' = FALSE)
    BY <1>5 DEF DropsSession, SpareExpires, GoesAway, ComesBack, PauseEnds,
       session, vars
  <2>5. spare' = spare \/ (spare > 0 /\ spare' = spare - 1)
    BY <1>5 DEF DropsSession, SpareExpires, GoesAway, ComesBack, PauseEnds,
       session, vars
  <2>3. LogoutPending' = LogoutPending
    BY <2>1 DEF LogoutPending
  <2>4. SessionInv'
    <3>1. spare' \in Nat /\ lost' \in Nat
      BY <2>1, <2>5 DEF IInv, SessionInv
    <3>2. live' \in BOOLEAN /\ (live' => stok') /\ stok' \in BOOLEAN
      <4>1. stok \in BOOLEAN /\ live \in BOOLEAN /\ (live => stok)
        BY DEF IInv, SessionInv
      <4>2. CASE live' = live
        BY <2>2, <4>1, <4>2
      <4>3. CASE live' = FALSE
        BY <2>2, <4>1, <4>3
      <4> QED
        BY <2>2, <4>2, <4>3
    <3>3. (phase' \in Login) => ~stok'
      BY <2>1, <2>2 DEF IInv, SessionInv
    <3> QED
      BY <2>1, <3>1, <3>2, <3>3 DEF IInv, SessionInv
  <2> QED
    BY <2>1, <2>3, <2>4, <2>5 DEF IInv, SessionInv, Budget, SessionsAccounted
<1> QED
  BY <1>1, <1>2, <1>3, <1>4, <1>5 DEF Next, ClientStep

LEMMA IInvHolds == Spec => []IInv
<1>1. Init => IInv
  <2> SUFFICES ASSUME Init PROVE IInv
    OBVIOUS
  <2> USE LocalApiAssumption DEF Init, Tasks, Login
  <2>1. QueueInv
    BY DEF QueueInv
  <2>2. SessionInv
    BY DEF SessionInv
  <2>3. Budget
    BY DEF Budget, SessionsAccounted, LogoutPending
  <2> QED
    BY <2>1, <2>2, <2>3 DEF IInv
<1>2. QueueInv /\ QueueInv' /\ IInv /\ [Next]_vars => IInv'
  BY BudgetHolds DEF IInv
<1> QED
  BY <1>1, <1>2, QueueHolds, PTL DEF Spec

(* However many calls, drops and failures there are, a session the client  *)
(* leaves on the camera is an answer that was lost, or the failed log out. *)
THEOREM SessionsAccountedHolds == Spec => []SessionsAccounted
<1>1. IInv => SessionsAccounted
  BY DEF IInv, Budget
<1> QED
  BY <1>1, IInvHolds, PTL

---------------------------------------------------------------------------
(* A failure of a call is remembered until the pause it asks for is over;  *)
(* that of a log out is not, and nothing runs after it.                    *)
PauseInv ==
  /\ resting => blocked \/ (closed /\ task = None /\ queue = << >>)
  /\ task = "call" => ~resting

LEMMA PauseKept ==
  ASSUME QueueInv, SessionInv, PauseInv, [Next]_vars
  PROVE  PauseInv'
<1> USE LocalApiAssumption DEF PauseInv
<1>1. CASE Call
  BY <1>1 DEF Call, pause
<1>2. CASE Close
  <2>1. closed' = TRUE /\ task' = task /\ blocked' = blocked /\ resting' = resting
    BY <1>2 DEF Close, pause
  <2>2. CASE resting /\ ~blocked
    BY <1>2, <2>2 DEF Close
  <2> QED
    BY <2>1, <2>2
<1>3. CASE CallAvailable
  BY <1>3 DEF CallAvailable, Begin, Starts, pause
<1>4. CASE CallBlocked
  BY <1>4 DEF CallBlocked, Begin, pause
<1>5. CASE LogoutStarts
  <2>1. queue # << >> /\ Head(queue) = "logout" /\ task = None
    BY <1>5 DEF LogoutStarts, Begin
  <2>2. task' = "logout" /\ blocked' = blocked /\ resting' = resting
    BY <1>5, <2>1 DEF LogoutStarts, Begin, Starts, pause
  <2> QED
    BY <2>1, <2>2
<1>6. CASE Exchange
  <2>1. task # None /\ closed' = closed
    BY <1>6 DEF Exchange, Unreachable, AnswerLost, Challenged, LoggedIn,
       LoginRefused, Answered, SessionUnknown, Garbled, SessionInv, Login
  <2>2. ASSUME NEW asks \in BOOLEAN, Fails(asks) PROVE PauseInv'
    <3>1. task' = None /\ queue' = queue
      BY <2>2 DEF Fails, TaskEnds
    <3>2. CASE task = "logout"
      <4>1. closed /\ queue = << >>
        BY <3>2 DEF QueueInv
      <4> QED
        BY <2>1, <3>1, <4>1
    <3>3. CASE task = "call"
      <4>1. resting' => blocked'
        BY <2>2, <3>3 DEF Fails
      <4> QED
        BY <3>1, <4>1
    <3> QED
      BY <2>1, <3>2, <3>3 DEF QueueInv, Tasks
  <2>3. ASSUME queue' = queue, UNCHANGED pause, task' \in {task, None}
        PROVE  PauseInv'
    <3>1. resting => blocked
      BY <2>1
    <3>2. resting' = resting /\ blocked' = blocked
      BY <2>3 DEF pause
    <3>3. task' = "call" => task = "call"
      BY <2>3, LocalApiAssumption
    <3> QED
      BY <3>1, <3>2, <3>3
  <2>4. CASE Unreachable \/ AnswerLost \/ LoginRefused
    BY <2>2, <2>4 DEF Unreachable, AnswerLost, LoginRefused
  <2>5. CASE Challenged \/ LoggedIn \/ Answered
    BY <2>3, <2>5 DEF Challenged, LoggedIn, Answered, TaskEnds
  <2>6. CASE SessionUnknown \/ Garbled
    <3>1. NotAnswered
      BY <2>6 DEF SessionUnknown, Garbled
    <3> QED
      BY <2>2, <2>3, <3>1 DEF NotAnswered
  <2> QED
    BY <1>6, <2>4, <2>5, <2>6 DEF Exchange
<1>7. CASE \/ DropsSession \/ SpareExpires \/ GoesAway \/ ComesBack
           \/ PauseEnds \/ UNCHANGED vars
  BY <1>7 DEF DropsSession, SpareExpires, GoesAway, ComesBack, PauseEnds,
     pause, running, vars
<1> QED
  BY <1>1, <1>2, <1>3, <1>4, <1>5, <1>6, <1>7 DEF Next, ClientStep

(* A call that logs in is not paused when it starts, and its own failures  *)
(* end it before they pause the client.                                    *)
LEMMA LogsInRested ==
  ASSUME QueueInv, SessionInv, PauseInv, [Next]_vars,
         phase \notin Login, phase' \in Login
  PROVE  ~resting \/ task' = "logout"
<1>1. CASE CallAvailable
  BY <1>1 DEF CallAvailable, Begin, PauseInv
<1>2. CASE LogoutStarts
  BY <1>2 DEF LogoutStarts, Begin, Starts
<1>3. CASE SessionUnknown \/ Garbled
  BY <1>3 DEF SessionUnknown, Garbled, NotAnswered, Fails, TaskEnds, PauseInv,
     Login
<1>4. CASE ~CallAvailable /\ ~LogoutStarts /\ ~SessionUnknown /\ ~Garbled
  BY <1>4 DEF Next, ClientStep, Exchange, Unreachable, AnswerLost, Challenged,
     LoggedIn, LoginRefused, Answered, Fails, TaskEnds, DropsSession,
     SpareExpires, GoesAway, ComesBack, Call, Close, PauseEnds, CallBlocked,
     Login, running, vars
<1> QED
  BY <1>1, <1>2, <1>3, <1>4

(* A call never logs in during the pause that the last failure asks for.   *)
THEOREM QuietHolds == Spec => Quiet
<1>1. Init => PauseInv
  BY LocalApiAssumption DEF Init, PauseInv
<1>2. IInv => SessionInv
  BY DEF IInv
<1>3. QueueInv /\ SessionInv /\ PauseInv /\ [Next]_vars => PauseInv'
  BY PauseKept
<1>4. QueueInv /\ SessionInv /\ PauseInv /\ [Next]_vars
      => (phase \notin Login /\ phase' \in Login
            => ~resting \/ task' = "logout")
  BY LogsInRested
<1> QED
  BY <1>1, <1>2, <1>3, <1>4, QueueHolds, IInvHolds, PTL DEF Spec, Quiet


---------------------------------------------------------------------------
(* Types: an exchange on a session has one, and a client that keeps a      *)
(* pause owes it to a failure that is not over.                            *)
TaskTypes ==
  /\ retried \in BOOLEAN /\ blocked \in BOOLEAN /\ up \in BOOLEAN
  /\ resting \in BOOLEAN
  /\ phase \in Login \cup {"idle", "ask"}
  /\ phase = "ask" => stok
  /\ blocked => resting
  /\ excuse \in Nat
  /\ result \in {"none", "done", "failed", "backoff"}

LEMMA TaskTypesKept ==
  ASSUME SessionInv, TaskTypes, [Next]_vars
  PROVE  TaskTypes'
<1> USE DEF TaskTypes, Login
<1>1. CASE Call \/ Close
  BY <1>1 DEF Call, Close, session, pause, verdict
<1>2. CASE DropsSession \/ SpareExpires \/ GoesAway \/ ComesBack
  <2>1. UNCHANGED <<stok, retried, phase, blocked, resting, result>>
    BY <1>2 DEF DropsSession, SpareExpires, GoesAway, ComesBack, session,
                running, pause, verdict
  <2>2. up' \in BOOLEAN
    BY <1>2 DEF DropsSession, SpareExpires, GoesAway, ComesBack
  <2>3. excuse' \in Nat
    BY <1>2 DEF DropsSession, SpareExpires, GoesAway, ComesBack, verdict
  <2> QED
    BY <2>1, <2>2, <2>3
<1>3. CASE PauseEnds
  BY <1>3 DEF PauseEnds, session, running, verdict
<1>4. CASE CallAvailable \/ LogoutStarts
  <2>1. /\ UNCHANGED <<stok, blocked, resting, up, result>>
        /\ retried' = FALSE
    BY <1>4 DEF CallAvailable, LogoutStarts, Starts, session, pause
  <2>2. phase' = IF stok THEN "ask" ELSE "hello"
    BY <1>4 DEF CallAvailable, LogoutStarts, Starts
  <2>3. excuse' \in Nat
    BY <1>4 DEF CallAvailable, LogoutStarts, Starts
  <2> QED
    BY <2>1, <2>2, <2>3
<1>5. CASE CallBlocked
  BY <1>5 DEF CallBlocked, session, pause
<1>6. ASSUME NEW asks \in BOOLEAN, Fails(asks), up' = up, excuse' \in Nat
      PROVE  TaskTypes'
  <2>1. phase' = "idle" /\ result' = "failed" /\ retried' = retried
    BY <1>6 DEF Fails, TaskEnds
  <2>2. resting' \in BOOLEAN /\ blocked' \in BOOLEAN /\ (blocked' => resting')
    BY <1>6 DEF Fails
  <2> QED
    BY <1>6, <2>1, <2>2
<1>7. CASE Unreachable \/ AnswerLost \/ LoginRefused
  <2>1. Fails(TRUE) /\ up' = up /\ excuse' = excuse + 2
    BY <1>7 DEF Unreachable, AnswerLost, LoginRefused
  <2>2. excuse' \in Nat
    BY <2>1
  <2> QED
    BY <1>6, <2>1, <2>2
<1>8. CASE Challenged
  BY <1>8 DEF Challenged, session, pause, verdict
<1>9. CASE LoggedIn
  BY <1>9 DEF LoggedIn, pause, verdict
<1>10. CASE Answered
  BY <1>10 DEF Answered, TaskEnds, pause
<1>11. CASE SessionUnknown \/ Garbled
  <2>1. NotAnswered /\ up' = up /\ excuse' \in Nat
    BY <1>11 DEF SessionUnknown, Garbled
  <2>2. CASE Fails(FALSE)
    BY <1>6, <2>1, <2>2
  <2>3. CASE /\ retried' = TRUE /\ phase' = "hello"
             /\ UNCHANGED <<pause, result>>
    BY <2>1, <2>3 DEF pause
  <2> QED
    BY <2>1, <2>2, <2>3 DEF NotAnswered
<1>12. CASE UNCHANGED vars
  BY <1>12 DEF vars, session, running, pause, verdict
<1> QED
  BY <1>1, <1>2, <1>3, <1>4, <1>5, <1>7, <1>8, <1>9, <1>10, <1>11, <1>12
     DEF Next, ClientStep, Exchange

LEMMA TaskTypesHold == Spec => []TaskTypes
<1>1. Init => TaskTypes
  <2> SUFFICES ASSUME Init PROVE TaskTypes
    OBVIOUS
  <2>1. retried = FALSE /\ blocked = FALSE /\ resting = FALSE /\ up = TRUE
    BY DEF Init
  <2>2. phase = "idle" /\ excuse = 0 /\ result = "none"
    BY DEF Init
  <2> QED
    BY <2>1, <2>2 DEF TaskTypes
<1>2. IInv /\ TaskTypes /\ [Next]_vars => TaskTypes'
  BY TaskTypesKept DEF IInv
<1> QED
  BY <1>1, <1>2, IInvHolds, PTL DEF Spec

(* TypeCorrect: the queue of calls, the token, the pause and the sessions  *)
(* of the camera keep their types (localApi.js, call, login and close).    *)
THEOREM TypeCorrect == Spec => []TypeOK
<1>1. IInv /\ TaskTypes => TypeOK
  <2> SUFFICES ASSUME IInv, TaskTypes PROVE TypeOK
    OBVIOUS
  <2>1. {stok, retried, blocked, closed, up, live, resting} \subseteq BOOLEAN
    BY DEF IInv, SessionInv, TaskTypes
  <2>2. (task = None) = (phase = "idle")
    BY DEF IInv, SessionInv
  <2>3. {spare, excuse} \subseteq Nat
    BY DEF IInv, SessionInv, TaskTypes
  <2> QED
    BY <2>1, <2>2, <2>3 DEF IInv, QueueInv, SessionInv, TaskTypes, TypeOK
<1> QED
  BY <1>1, IInvHolds, TaskTypesHold, PTL

---------------------------------------------------------------------------
(* What went wrong during a call, session by session: renewing it owes to  *)
(* one thing that did, and being on a session the camera does not know to  *)
(* one more.                                                               *)
Excused ==
  task = "call" =>
    /\ retried => excuse >= 1
    /\ phase = "ask" /\ ~live => excuse >= (IF retried THEN 2 ELSE 1)

LEMMA ExcusedKept ==
  ASSUME SessionInv, TaskTypes, Excused, [Next]_vars
  PROVE  Excused'
<1> USE LocalApiAssumption DEF Excused
<1>0. excuse \in Nat /\ retried \in BOOLEAN /\ live \in BOOLEAN
  BY DEF TaskTypes, SessionInv
<1>1. CASE Call \/ Close \/ CallBlocked
  BY <1>1 DEF Call, Close, CallBlocked, session, verdict
<1>2. CASE DropsSession
  <2>1. live /\ excuse' = excuse + 1 /\ UNCHANGED <<task, phase, retried>>
    BY <1>2 DEF DropsSession, running
  <2> QED
    BY <1>0, <2>1
<1>3. CASE SpareExpires \/ GoesAway \/ ComesBack \/ PauseEnds \/ UNCHANGED vars
  BY <1>3 DEF SpareExpires, GoesAway, ComesBack, PauseEnds, session, running,
     verdict, vars
<1>4. CASE CallAvailable \/ LogoutStarts
  <2>1. /\ retried' = FALSE /\ stok' = stok /\ live' = live
        /\ phase' = IF stok THEN "ask" ELSE "hello"
        /\ excuse' = IF stok /\ ~live THEN 1 ELSE 0
    BY <1>4 DEF CallAvailable, LogoutStarts, Starts, session
  <2> QED
    BY <2>1
<1>5. CASE \/ Unreachable \/ AnswerLost \/ LoginRefused \/ Answered
  <2>1. task' = None
    BY <1>5 DEF Unreachable, AnswerLost, LoginRefused, Answered, Fails, TaskEnds
  <2> QED
    BY <2>1
<1>6. CASE Challenged
  BY <1>6 DEF Challenged, session, verdict
<1>7. CASE LoggedIn
  BY <1>7 DEF LoggedIn, verdict
<1>8. CASE SessionUnknown \/ Garbled
  <2>1. /\ NotAnswered /\ phase = "ask"
        /\ \/ ~live /\ excuse' = excuse
           \/ excuse' = excuse + 1
    BY <1>8 DEF SessionUnknown, Garbled
  <2>2. CASE task' = None
    BY <2>2
  <2>3. CASE ~retried /\ retried' = TRUE /\ phase' = "hello" /\ task' = task
    BY <1>0, <2>1, <2>3
  <2> QED
    BY <2>1, <2>2, <2>3 DEF NotAnswered, Fails, TaskEnds
<1> QED
  BY <1>1, <1>2, <1>3, <1>4, <1>5, <1>6, <1>7, <1>8
     DEF Next, ClientStep, Exchange

LEMMA FailsExcused ==
  ASSUME SessionInv, TaskTypes, Excused, [Next]_vars,
         task = "call", task' = None, result' = "failed"
  PROVE  excuse' >= 2
<1> USE LocalApiAssumption DEF Excused
<1>0. excuse \in Nat /\ retried \in BOOLEAN
  BY DEF TaskTypes
<1>1. CASE Unreachable \/ AnswerLost \/ LoginRefused
  <2>1. excuse' = excuse + 2
    BY <1>1 DEF Unreachable, AnswerLost, LoginRefused
  <2> QED
    BY <1>0, <2>1
<1>2. CASE SessionUnknown \/ Garbled
  <2>1. /\ NotAnswered /\ phase = "ask"
        /\ \/ ~live /\ excuse' = excuse
           \/ excuse' = excuse + 1
    BY <1>2 DEF SessionUnknown, Garbled
  <2>2. retried
    BY <2>1 DEF NotAnswered
  <2> QED
    BY <1>0, <2>1, <2>2
<1>3. CASE Answered
  BY <1>3 DEF Answered
<1>4. CASE CallAvailable \/ LogoutStarts \/ CallBlocked
  BY <1>4 DEF CallAvailable, LogoutStarts, CallBlocked, Begin
<1>5. CASE \/ Call \/ Close \/ DropsSession \/ SpareExpires \/ GoesAway
           \/ ComesBack \/ PauseEnds \/ Challenged \/ LoggedIn
           \/ UNCHANGED vars
  <2>1. task' = task
    BY <1>5 DEF Call, Close, DropsSession, SpareExpires, GoesAway, ComesBack,
       PauseEnds, Challenged, LoggedIn, running, vars
  <2> QED
    BY <2>1
<1> QED
  BY <1>1, <1>2, <1>3, <1>4, <1>5 DEF Next, ClientStep, Exchange

(* However the drops, the renewal of the session and the answers fall, a   *)
(* call never fails for one dropped session alone (localApi.js, request).  *)
THEOREM SurvivesDropHolds == Spec => SurvivesDrop
<1>1. Init => Excused
  BY LocalApiAssumption DEF Init, Excused
<1>2. IInv /\ TaskTypes /\ Excused /\ [Next]_vars => Excused'
  BY ExcusedKept DEF IInv
<1>3. IInv /\ TaskTypes /\ Excused /\ [Next]_vars
      => [task = "call" /\ task' = None /\ result' = "failed"
            => excuse' >= 2]_vars
  BY FailsExcused DEF IInv
<1> QED
  BY <1>1, <1>2, <1>3, IInvHolds, TaskTypesHold, PTL DEF Spec, SurvivesDrop
===============================================================================
