----------------------------- MODULE CoalescedWork -----------------------------
(***************************************************************************)
(* What a coalesced operation promises those who ask for it while it runs: *)
(* it reads its input once, for a batch of callers who had all asked       *)
(* before that; the others wait for another reading.  One batch is served  *)
(* at a time.                                                              *)
(***************************************************************************)
EXTENDS Naturals

CONSTANT Callers

VARIABLES
  input,     \* what a reading returns now: a version, which only grows
  waiting,   \* callers whose input was not read yet
  serving,   \* the batch whose input was read
  taken      \* the version read for it

vars == <<input, waiting, serving, taken>>

TypeOK ==
  /\ {input, taken} \subseteq Nat
  /\ {waiting, serving} \subseteq SUBSET Callers
  /\ waiting \cap serving = {}

Init ==
  /\ input = 0 /\ taken = 0
  /\ waiting = {} /\ serving = {}

Change ==
  /\ input' = input + 1
  /\ UNCHANGED <<waiting, serving, taken>>

Ask(c) ==
  /\ c \notin waiting \cup serving
  /\ waiting' = waiting \cup {c}
  /\ UNCHANGED <<serving, taken>>
  /\ input' \in {input, input + 1}

(* The input is read for some of the callers, once those of the batch      *)
(* before have been answered.                                              *)
Take(batch) ==
  /\ serving = {}
  /\ batch # {}
  /\ serving' = batch
  /\ waiting' = waiting \ batch
  /\ taken' = input
  /\ UNCHANGED input

Answer ==
  /\ serving # {}
  /\ serving' = {}
  /\ UNCHANGED <<input, waiting, taken>>

(* The reading failed, or told that there is nothing to do: the callers    *)
(* are answered at once.                                                   *)
AnswerAtOnce(batch) ==
  /\ serving = {}
  /\ batch # {}
  /\ waiting' = waiting \ batch
  /\ taken' \in {taken, input}
  /\ UNCHANGED <<input, serving>>

Next ==
  \/ Change
  \/ \E c \in Callers : Ask(c)
  \/ \E batch \in SUBSET waiting : Take(batch) \/ AnswerAtOnce(batch)
  \/ Answer

Spec == Init /\ [][Next]_vars
===============================================================================
