----------------------------- MODULE MemoizedWork -----------------------------
(***************************************************************************)
(* What an operation asked once for everyone promises: of each thing, it   *)
(* finds out whether it is able.  Those who ask before that is known wait  *)
(* for the same answer; all are told at once, and it is kept, whole.  An   *)
(* attempt that fails tells those who wait and keeps nothing: the next one *)
(* to ask begins another.  Nobody acts on a thing not known to be able.    *)
(***************************************************************************)
CONSTANTS Things, Callers

VARIABLES
  answer,   \* what is known of each thing
  waiting,  \* those who wait for it
  acting    \* those who act, told that it is able

vars == <<answer, waiting, acting>>

TypeOK ==
  /\ answer \in [Things -> {"unknown", "able", "unable"}]
  /\ {waiting, acting} \subseteq [Things -> SUBSET Callers]

Init ==
  /\ answer = [k \in Things |-> "unknown"]
  /\ waiting = [k \in Things |-> {}]
  /\ acting = [k \in Things |-> {}]

Busy(c) == \E k \in Things : c \in waiting[k] \cup acting[k]

(* One that is unable is told so at once.                                  *)
Ask(c, k) ==
  /\ ~Busy(c)
  /\ \/ /\ answer[k] = "unknown"
        /\ waiting' = [waiting EXCEPT ![k] = @ \cup {c}]
        /\ UNCHANGED acting
     \/ /\ answer[k] = "able"
        /\ acting' = [acting EXCEPT ![k] = @ \cup {c}]
        /\ UNCHANGED waiting
  /\ UNCHANGED answer

Learn(k, what) ==
  /\ answer[k] = "unknown" /\ waiting[k] # {}
  /\ answer' = [answer EXCEPT ![k] = what]
  /\ waiting' = [waiting EXCEPT ![k] = {}]
  /\ acting' = IF what = "able"
                 THEN [acting EXCEPT ![k] = @ \cup waiting[k]]
                 ELSE acting

Fail(k) ==
  /\ waiting[k] # {}
  /\ waiting' = [waiting EXCEPT ![k] = {}]
  /\ UNCHANGED <<answer, acting>>

Finish(c, k) ==
  /\ c \in acting[k]
  /\ acting' = [acting EXCEPT ![k] = @ \ {c}]
  /\ UNCHANGED <<answer, waiting>>

(* What nobody uses may be forgotten.                                      *)
Forget(k) ==
  /\ waiting[k] = {} /\ acting[k] = {}
  /\ answer' = [answer EXCEPT ![k] = "unknown"]
  /\ UNCHANGED <<waiting, acting>>

Next ==
  \E k \in Things :
    \/ Forget(k)
    \/ \E c \in Callers : Ask(c, k) \/ Finish(c, k)
    \/ \E what \in {"able", "unable"} : Learn(k, what)
    \/ Fail(k)

Spec == Init /\ [][Next]_vars
===============================================================================
