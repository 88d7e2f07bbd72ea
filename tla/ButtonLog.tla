------------------------------- MODULE ButtonLog -------------------------------
(***************************************************************************)
(* The presses of one button of a hub, src/smart/manager.js: the hub keeps *)
(* a log of numbered events, every round reads it from its beginning       *)
(* (collectButton) and the mark of the button tells what was seen; the     *)
(* round then publishes what it collected, with the states of the other    *)
(* devices, in calls of STATES_PER_CALL states (flush).                    *)
(***************************************************************************)
EXTENDS Naturals, Sequences, FiniteSets

CONSTANTS
  MaxPresses,      \* bound on the events of the button
  Page,            \* the events the hub keeps and returns
  MaxUnread,       \* bound on the readings of the log that fail
  MaxRefused,      \* bound on the calls the host refuses
  MaxLostAnswers,  \* bound on those it takes, whose answer is lost
  MaxStarts,       \* bound on the restarts of the integration
  None

Counts == <<MaxUnread, MaxRefused, MaxLostAnswers, MaxStarts>>

ButtonAssumption ==
  /\ Page \in Nat \ {0}
  /\ MaxPresses \in Nat \ {0}
  /\ \A i \in DOMAIN Counts : Counts[i] \in Nat
  /\ None \notin Nat

VARIABLES
  presses,  \* every event of the button: buttonValueOf knows it or does not
  mark,     \* buttonMarks: the last event seen, None before the first look
  looking,  \* where the round is
  queue,    \* the presses it has yet to publish
  told,     \* history: the presses Gladys was given, in order
  turnedDown, \* history: presses in a call the host refused
  rolled,   \* history: presses the hub forgot before a look
  since,    \* history: where the log stood at the first look
  blind,    \* history: a first look could not read the log
  started,  \* history: the events, and the presses told, at the last start
  unread, refusedCalls, lostAnswers, starts    \* the bounds

seen == <<mark, looking, queue>>
facts == <<told, turnedDown, rolled, since, blind, started>>
counters == <<unread, refusedCalls, lostAnswers, starts>>
vars == <<presses, seen, facts, counters>>

Ids == 1..MaxPresses

TypeOK ==
  /\ presses \in Seq(BOOLEAN)
  /\ {mark, since} \subseteq Nat \cup {None}
  /\ looking \in {"idle", "asking", "flushing"}
  /\ queue \in Seq(Ids) /\ told \in Seq(Ids)
  /\ (mark = None) = (since = None)
  /\ queue = << >> \/ looking = "flushing"
  /\ {turnedDown, rolled} \subseteq SUBSET Ids
  /\ blind \in BOOLEAN

Init ==
  /\ presses \in UNION {[1..n -> {TRUE}] : n \in 0..1}
  /\ mark = None /\ looking = "idle" /\ queue = << >>
  /\ told = << >> /\ turnedDown = {} /\ rolled = {} /\ since = None
  /\ blind = FALSE /\ started = [events |-> Len(presses), told |-> 0]
  /\ unread = 0 /\ refusedCalls = 0 /\ lostAnswers = 0 /\ starts = 0

latest == Len(presses)
OrZero(m) == IF m = None THEN 0 ELSE m
Larger(a, b) == IF a > b THEN a ELSE b

(* The events the hub still has.                                           *)
Logged == {p \in DOMAIN presses : p + Page > latest}

(* The presses of a set as the log has them, in order.                     *)
Increasing(q) == \A i, j \in DOMAIN q : i < j => q[i] < q[j]
Listings(S) ==
  {q \in [1..Cardinality(S) -> S] :
     Increasing(q) /\ \A p \in S : \E i \in DOMAIN q : q[i] = p}

---------------------------------------------------------------------------
(* The button is pressed, turned (known) or does something else.           *)
Pressed(known) ==
  /\ latest < MaxPresses
  /\ presses' = Append(presses, known)
  /\ UNCHANGED <<seen, facts, counters>>

(* A round reaches the button; another one waits for its end (running).    *)
Asks ==
  /\ looking = "idle"
  /\ looking' = "asking"
  /\ UNCHANGED <<presses, mark, queue, facts, counters>>

(* collectButton, over the log it was given: the mark moves to the last    *)
(* event, never back, and the events after the previous mark are queued,   *)
(* in order, unless there was none.                                        *)
MarksLast(logs, last) == mark' = last

Marks(logs, last) == mark' = Larger(last, OrZero(mark))

Queues(logs) ==
  IF mark = None
    THEN queue' = << >>
    ELSE queue' \in Listings({p \in logs : p > mark /\ presses[p]})

Collects(logs, last) ==
  /\ looking = "asking"
  /\ looking' = "flushing"
  /\ Marks(logs, last)
  /\ Queues(logs)
  /\ since' = IF mark = None THEN last ELSE since

Read ==
  /\ Collects(Logged, latest)
  /\ rolled' = IF mark = None THEN rolled
                 ELSE rolled \cup {p \in (mark + 1)..latest : p \notin Logged}
  /\ UNCHANGED <<presses, told, turnedDown, blind, started, counters>>

(* A log that cannot be read passes for an empty one.                      *)
Unread ==
  /\ unread < MaxUnread
  /\ unread' = unread + 1
  /\ Collects({}, 0)
  /\ blind' = (blind \/ mark = None)
  /\ UNCHANGED <<presses, told, turnedDown, rolled, started, refusedCalls,
                 lostAnswers, starts>>

---------------------------------------------------------------------------
(* flush: one call, which ends anywhere among the presses of this button,  *)
(* as the states of the other devices fill it; the next one is made        *)
(* whatever became of it.                                                  *)
Sent(n) == queue' = SubSeq(queue, n + 1, Len(queue))
SentUpTo(n) == {queue[i] : i \in 1..n}

CallTaken(n) ==
  /\ Sent(n)
  /\ told' = told \o SubSeq(queue, 1, n)
  /\ UNCHANGED <<presses, mark, looking, turnedDown, rolled, since, blind,
                 started>>

CallPublished(n) ==
  /\ CallTaken(n)
  /\ UNCHANGED counters

CallUnanswered(n) ==
  /\ lostAnswers < MaxLostAnswers
  /\ lostAnswers' = lostAnswers + 1
  /\ CallTaken(n)
  /\ UNCHANGED <<unread, refusedCalls, starts>>

CallRefused(n) ==
  /\ refusedCalls < MaxRefused
  /\ refusedCalls' = refusedCalls + 1
  /\ Sent(n)
  /\ turnedDown' = turnedDown \cup SentUpTo(n)
  /\ UNCHANGED <<presses, mark, looking, told, rolled, since, blind, started,
                 unread, lostAnswers, starts>>

RoundOver ==
  /\ looking = "flushing" /\ queue = << >>
  /\ looking' = "idle"
  /\ UNCHANGED <<presses, mark, queue, facts, counters>>

(* The integration restarts, anywhere in a round.                          *)
Starts ==
  /\ starts < MaxStarts
  /\ starts' = starts + 1
  /\ mark' = None /\ looking' = "idle" /\ queue' = << >>
  /\ since' = None
  /\ started' = [events |-> latest, told |-> Len(told)]
  /\ UNCHANGED <<presses, told, turnedDown, rolled, blind, unread,
                 refusedCalls, lostAnswers>>

Next ==
  \/ \E known \in BOOLEAN : Pressed(known)
  \/ Asks \/ Read \/ Unread
  \/ \E n \in 1..Len(queue) :
       CallPublished(n) \/ CallUnanswered(n) \/ CallRefused(n)
  \/ RoundOver \/ Starts

Spec == Init /\ [][Next]_vars

---------------------------------------------------------------------------
(* PressesTold: every press is told once and in order, over any restart,   *)
(* failed reading and lost answer, and those seen since the first look are *)
(* told but for the ones the host refused or the hub forgot (manager.js,   *)
(* collectButton: "A press is an event"); a first look that failed is the  *)
(* exception, see NoReplay.                                                *)
InOrder == Increasing(told)
Settled ==
  looking = "idle" /\ mark # None
    => \A p \in (since + 1)..mark :
         presses[p] => \/ p \in turnedDown \cup rolled
                       \/ \E i \in DOMAIN told : told[i] = p
PressesTold == (blind \/ InOrder) /\ Settled

(* NoReplay: "starting the integration must not replay presses made before *)
(* it" (manager.js:482).                                                   *)
NoReplay ==
  \A i \in DOMAIN told : i > started.told => told[i] > started.events
===============================================================================
