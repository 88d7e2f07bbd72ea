-------------------------- MODULE ConfigLifecycleProofs --------------------------
(***************************************************************************)
(* Proofs about ConfigLifecycle, for any handlers, any versions without an *)
(* account and any bounds: its types, that its publications are a         *)
(* coalesced operation (CoalescedWork), and that no SMART client is older  *)
(* than the configuration the watchers run with.                           *)
(***************************************************************************)
EXTENDS ConfigLifecycle, TLAPS

(* The bounds count the versions, which keeps them in their range.         *)
Counted ==
  /\ edits \in 0..MaxEdits /\ entries \in 0..MaxEntries
  /\ stored = edits + entries

VersionTypes ==
  /\ {stored, edited, config, read} \subseteq Versions
  /\ {watching, startedWith, smart, smartConfig} \subseteq Known
  /\ notified \in BOOLEAN

(* Someone awaits the publication in flight exactly while there is one,    *)
(* and the queued one exactly while it is asked for.                       *)
Awaited ==
  /\ run \in {"none", "reading", "asking", "describing"}
  /\ queued \in BOOLEAN
  /\ kind \in [Handlers -> {"updated", "connected", "scan"}]
  /\ phase \in [Handlers -> {"free", "listing", "onRun", "onQueued"}]
  /\ OnRun = {} <=> run = "none"
  /\ OnQueued = {} <=> queued = FALSE

Inv == Counted /\ VersionTypes /\ Awaited

LEMMA BoundsAreNat == MaxEdits \in Nat /\ MaxEntries \in Nat
BY LifecycleAssumption

LEMMA VersionsAdd ==
  ASSUME NEW a \in 0..MaxEdits, NEW b \in 0..MaxEntries
  PROVE  a + b \in Versions
BY BoundsAreNat DEF Versions

---------------------------------------------------------------------------
(* What asking for a publication, and the end of one, do to those who      *)
(* await them.                                                             *)

LEMMA AskingWaits ==
  ASSUME Awaited, NEW h \in Handlers, phase[h] \in {"free", "listing"},
         kind' \in [Handlers -> {"updated", "connected", "scan"}],
         publishDevices(h)
  PROVE  /\ Awaited'
         /\ h \notin Waiting \cup Serving
         /\ Waiting' = Waiting \cup {h}
         /\ Serving' = Serving
<1>1. CASE run = "none"
  <2>1. /\ run' = "reading" /\ queued' = queued
        /\ phase' = [phase EXCEPT ![h] = "onRun"]
    BY <1>1 DEF publishDevices
  <2>2. OnRun = {} /\ OnRun' = {h} /\ OnQueued' = OnQueued
    BY <1>1, <2>1 DEF Awaited, OnRun, OnQueued
  <2> QED
    BY <1>1, <2>1, <2>2 DEF Awaited, Waiting, Serving, OnRun, OnQueued
<1>2. CASE run # "none"
  <2>1. /\ run' = run /\ queued' = TRUE
        /\ phase' = [phase EXCEPT ![h] = "onQueued"]
    BY <1>2 DEF publishDevices
  <2>2. OnRun' = OnRun /\ OnQueued' = OnQueued \cup {h}
    BY <2>1 DEF Awaited, OnRun, OnQueued
  <2> QED
    BY <1>2, <2>1, <2>2 DEF Awaited, Waiting, Serving, OnRun, OnQueued
<1> QED
  BY <1>1, <1>2

LEMMA EndAnswers ==
  ASSUME Awaited, run # "none", kind' = kind,
         NEW ok, NEW c, RunEnds(ok, c)
  PROVE  /\ Awaited'
         /\ Waiting' = Waiting \ OnRun
         /\ Serving' = {}
         /\ OnRun # {} /\ OnRun \subseteq Waiting \cup Serving
<1>1. /\ run' = IF queued THEN "reading" ELSE "none"
      /\ queued' = FALSE
      /\ phase' = [h \in Handlers |-> CASE phase[h] = "onRun" -> "free"
                                        [] phase[h] = "onQueued" -> "onRun"
                                        [] OTHER -> phase[h]]
  BY DEF RunEnds
<1>2. \A h \in Handlers :
        /\ phase[h] = "onRun" => phase'[h] = "free"
        /\ phase[h] = "onQueued" => phase'[h] = "onRun"
        /\ phase[h] \in {"free", "listing"} => phase'[h] = phase[h]
  BY <1>1 DEF Awaited
<1>3. phase' \in [Handlers -> {"free", "listing", "onRun", "onQueued"}]
  BY <1>1, <1>2 DEF Awaited
<1>4. OnRun' = OnQueued /\ OnQueued' = {} /\ OnRun \cap OnQueued = {}
  BY <1>2 DEF Awaited, OnRun, OnQueued
<1>5. Awaited'
  BY <1>1, <1>3, <1>4 DEF Awaited
<1> QED
  BY <1>1, <1>4, <1>5 DEF Awaited, Waiting, Serving

(* The loops are left, stopped, or started with the configuration given.   *)
LEMMA ResumeTypes ==
  ASSUME VersionTypes, NEW c \in Versions, NEW ok, Resume(ok, c)
  PROVE  {watching, startedWith, smart, smartConfig}' \subseteq Known
<1> DEFINE resumed == {kind[h] : h \in {g \in Handlers : phase[g] = "onRun"}}
           restart == \/ "updated" \in resumed
                      \/ /\ "connected" \in resumed /\ ok
                         /\ startedWith # c \/ watching = None
<1>1. StartAll(c) \/ StopAll \/ UNCHANGED loops
  BY DEF Resume
<1> QED
  BY <1>1 DEF StartAll, StopAll, loops, VersionTypes, Known

---------------------------------------------------------------------------
(* The invariant, and the steps seen as those of a coalesced operation.    *)

LEMMA InitInv == Init => Inv /\ Work!Init
<1> SUFFICES ASSUME Init PROVE Inv /\ Work!Init
  OBVIOUS
<1>1. 0 \in Versions
  BY BoundsAreNat DEF Versions
<1>2. OnRun = {} /\ OnQueued = {}
  BY DEF Init, OnRun, OnQueued
<1>3. Counted
  BY BoundsAreNat DEF Init, Counted
<1>4. VersionTypes
  BY <1>1 DEF Init, VersionTypes, Known
<1>5. Awaited
  BY <1>2 DEF Init, Awaited
<1> QED
  BY <1>2, <1>3, <1>4, <1>5 DEF Init, Inv, Work!Init, Waiting, Serving

(* What an action does to the coalesced operation, besides the invariant.  *)
Mapped == [Work!Next]_(Work!vars)

LEMMA AskMaps ==
  ASSUME Inv, NEW h \in Handlers,
         ConfigUpdated(h) \/ Listed(h) \/ Scan(h) \/ SaveEntry(h)
  PROVE  Inv' /\ Mapped
<1> USE DEF Inv
<1>1. Counted' /\ stored' \in {stored, stored + 1}
  BY BoundsAreNat
  DEF Counted, ConfigUpdated, Listed, Scan, SaveEntry, bounds, host, loops
<1>2. stored' \in Versions
  BY <1>1, VersionsAdd DEF Counted
<1>3. VersionTypes'
  BY <1>2 DEF VersionTypes, ConfigUpdated, Listed, Scan, SaveEntry, host, loops
<1>4. kind' \in [Handlers -> {"updated", "connected", "scan"}]
  BY DEF Awaited, ConfigUpdated, Listed, Scan, SaveEntry
<1>5. phase[h] \in {"free", "listing"} /\ publishDevices(h)
  BY DEF ConfigUpdated, Listed, Scan, SaveEntry
<1>6. /\ Awaited' /\ h \notin Waiting \cup Serving
      /\ Waiting' = Waiting \cup {h} /\ Serving' = Serving
  BY <1>4, <1>5, AskingWaits
<1>7. read' = read
  BY DEF ConfigUpdated, Listed, Scan, SaveEntry
<1>8. Work!Ask(h)
  BY <1>1, <1>6, <1>7 DEF Work!Ask
<1> QED
  BY <1>1, <1>3, <1>6, <1>8 DEF Mapped, Work!Next

LEMMA AnswerMaps ==
  ASSUME Inv, NEW c \in Versions, NEW ok, run # "none", RunEnds(ok, c),
         kind' = kind, stored' = stored, read' \in {read, stored},
         read' = stored => run = "reading" \/ read' = read
  PROVE  Awaited' /\ Mapped /\ {watching, startedWith, smart, smartConfig}' \subseteq Known
<1>1. /\ Awaited' /\ Waiting' = Waiting \ OnRun /\ Serving' = {}
      /\ OnRun # {}
  BY EndAnswers DEF Inv
<1>2. ASSUME run = "reading" PROVE Mapped
  <2>1. OnRun \in SUBSET Waiting /\ Serving = {}
    BY <1>2 DEF Waiting, Serving
  <2>2. Work!AnswerAtOnce(OnRun)
    BY <1>1, <2>1 DEF Work!AnswerAtOnce
  <2> QED
    BY <2>1, <2>2 DEF Mapped, Work!Next
<1>3. ASSUME run # "reading" PROVE Mapped
  <2>1. Serving = OnRun /\ Waiting = OnQueued /\ OnRun \cap OnQueued = {}
    BY <1>3 DEF Waiting, Serving, OnRun, OnQueued
  <2>2. read' = read
    BY <1>3
  <2>3. Work!Answer
    BY <1>1, <2>1, <2>2 DEF Work!Answer
  <2> QED
    BY <2>3 DEF Mapped, Work!Next
<1>4. {watching, startedWith, smart, smartConfig}' \subseteq Known
  BY ResumeTypes DEF Inv, RunEnds
<1> QED
  BY <1>1, <1>2, <1>3, <1>4

LEMMA StepMaps ==
  ASSUME Inv, [Next]_vars
  PROVE  Inv' /\ Mapped
<1> USE DEF Inv
<1>0. Counted /\ VersionTypes /\ Awaited
  OBVIOUS
<1>1. CASE Edit
  <2>1. Counted' /\ stored' = stored + 1
    BY <1>1, BoundsAreNat DEF Edit, Counted
  <2>2. stored' \in Versions
    BY <2>1, VersionsAdd DEF Counted
  <2>3. /\ VersionTypes' /\ Awaited'
        /\ Waiting' = Waiting /\ Serving' = Serving /\ read' = read
    BY <1>1, <2>2
    DEF Edit, publication, calls, loops, VersionTypes, Awaited, OnRun,
        OnQueued, Waiting, Serving
  <2>4. Work!Change
    BY <2>1, <2>3 DEF Work!Change
  <2> QED
    BY <2>1, <2>3, <2>4 DEF Mapped, Work!Next
<1>2. ASSUME NEW h \in Handlers,
             ConfigUpdated(h) \/ Listed(h) \/ Scan(h) \/ SaveEntry(h)
      PROVE  Inv' /\ Mapped
  BY <1>2, AskMaps
<1>3. ASSUME NEW h \in Handlers, Connected(h)
      PROVE  Inv' /\ Mapped
  <2>1. /\ kind' \in [Handlers -> {"updated", "connected", "scan"}]
        /\ phase' = [phase EXCEPT ![h] = "listing"] /\ phase[h] = "free"
        /\ run' = run /\ queued' = queued
    BY <1>3 DEF Connected, Awaited, publication
  <2>2. OnRun' = OnRun /\ OnQueued' = OnQueued
    BY <2>1 DEF Awaited, OnRun, OnQueued
  <2>3. Awaited' /\ Waiting' = Waiting /\ Serving' = Serving
    BY <2>1, <2>2 DEF Awaited, Waiting, Serving
  <2>4. Counted' /\ VersionTypes' /\ stored' = stored /\ read' = read
    BY <1>3 DEF Connected, host, publication, loops, Counted, VersionTypes
  <2> QED
    BY <2>3, <2>4 DEF Mapped, Work!vars
<1>4. CASE ReadConfig
  <2>1. /\ run = "reading" /\ config' = stored /\ read' = stored
        /\ stored' = stored /\ edited' = edited /\ notified' = notified
        /\ kind' = kind /\ Counted'
    BY <1>4 DEF ReadConfig, host, bounds, Counted
  <2>2. CASE /\ run' = "asking"
             /\ UNCHANGED <<queued, phase, loops>>
    <3>1. /\ OnRun' = OnRun /\ OnQueued' = OnQueued
          /\ OnRun # {} /\ OnRun \cap OnQueued = {}
      BY <2>1, <2>2 DEF Awaited, OnRun, OnQueued
    <3>2. Awaited'
      BY <2>1, <2>2, <3>1 DEF Awaited
    <3>3. VersionTypes'
      BY <2>1, <2>2 DEF VersionTypes, loops
    <3>4. /\ Waiting = OnQueued \cup OnRun /\ Serving = {}
          /\ Waiting' = OnQueued /\ Serving' = OnRun
      BY <2>1, <2>2, <3>1 DEF Waiting, Serving
    <3>5. OnRun \in SUBSET Waiting /\ Work!Take(OnRun)
      BY <2>1, <3>1, <3>4 DEF Work!Take
    <3> QED
      BY <2>1, <3>2, <3>3, <3>5 DEF Mapped, Work!Next
  <2>3. CASE RunEnds(TRUE, stored)
    <3>1. stored \in Versions
      BY DEF VersionTypes
    <3>2. /\ Awaited' /\ Mapped
          /\ {watching, startedWith, smart, smartConfig}' \subseteq Known
      BY <2>1, <2>3, <3>1, AnswerMaps
    <3> QED
      BY <2>1, <3>2 DEF VersionTypes
  <2> QED
    BY <1>4, <2>2, <2>3 DEF ReadConfig
<1>5. CASE ReadFails \/ CloudFails \/ Published
  <2>1. PICK ok \in BOOLEAN : RunEnds(ok, config)
    BY <1>5 DEF ReadFails, CloudFails, Published
  <2>2. /\ run # "none" /\ config' = config /\ read' = read
        /\ stored' = stored /\ edited' = edited /\ notified' = notified
        /\ kind' = kind
    BY <1>5 DEF ReadFails, CloudFails, Published, host
  <2>3. Counted'
    BY <1>5 DEF ReadFails, CloudFails, Published, host, bounds, Counted
  <2>4. /\ Awaited' /\ Mapped
        /\ {watching, startedWith, smart, smartConfig}' \subseteq Known
    BY <2>1, <2>2, AnswerMaps DEF VersionTypes
  <2> QED
    BY <2>2, <2>3, <2>4 DEF VersionTypes
<1>6. CASE Describe
  <2>1. /\ run = "asking" /\ run' = "describing" /\ queued' = queued
        /\ kind' = kind /\ phase' = phase /\ stored' = stored /\ read' = read
    BY <1>6 DEF Describe, host, calls
  <2>2. OnRun' = OnRun /\ OnQueued' = OnQueued
    BY <2>1 DEF OnRun, OnQueued
  <2>3. Awaited' /\ Waiting' = Waiting /\ Serving' = Serving
    BY <2>1, <2>2 DEF Awaited, Waiting, Serving
  <2>4. Counted' /\ VersionTypes'
    BY <1>6 DEF Describe, host, bounds, Counted, VersionTypes, Known
  <2> QED
    BY <2>1, <2>3, <2>4 DEF Mapped, Work!vars
<1>7. CASE SmartUsed \/ UNCHANGED vars
  <2>1. /\ UNCHANGED <<host, publication, calls, watching, startedWith,
                       smartConfig, bounds>>
        /\ smart' \in {smart, smartConfig}
    BY <1>7 DEF SmartUsed, vars, loops
  <2>2. OnRun' = OnRun /\ OnQueued' = OnQueued
    BY <2>1 DEF OnRun, OnQueued, calls
  <2>3. Awaited' /\ Waiting' = Waiting /\ Serving' = Serving
    BY <2>1, <2>2 DEF Awaited, Waiting, Serving, publication, calls
  <2>4. Counted' /\ VersionTypes' /\ stored' = stored /\ read' = read
    BY <2>1 DEF host, publication, bounds, Counted, VersionTypes
  <2> QED
    BY <2>3, <2>4 DEF Mapped, Work!vars
<1> QED
  BY <1>1, <1>2, <1>3, <1>4, <1>5, <1>6, <1>7 DEF Next

LEMMA InvHolds == Spec => []Inv
BY InitInv, StepMaps, PTL DEF Spec

(* TypeCorrect: versions are those saved within the bounds, someone awaits *)
(* the publication in flight exactly while there is one, and the queued    *)
(* one exactly while it is asked for (app.js, publishDevices).             *)
THEOREM TypeCorrect == Spec => []TypeOK
<1>1. Inv => TypeOK
  BY DEF Inv, VersionTypes, Awaited, TypeOK, OnRun, OnQueued
<1> QED
  BY <1>1, InvHolds, PTL

(* The publications of publishDevices implement a coalesced operation, for *)
(* any number of handlers: none is answered by a publication that read the *)
(* configuration before it asked.                                          *)
THEOREM PublicationsCoalesce == Spec => CoalescedPublication
<1>1. Inv /\ [Next]_vars => [Work!Next]_(Work!vars)
  BY StepMaps DEF Mapped
<1> QED
  BY InitInv, <1>1, InvHolds, PTL DEF Spec, CoalescedPublication, Work!Spec
---------------------------------------------------------------------------
(* The clients of the SMART manager.  Each of the manager's configuration, *)
(* the client it keeps and the configuration of app.js can only be ahead   *)
(* of what the watchers were started with.                                 *)
InOrder ==
  /\ config <= stored
  /\ watching # None =>
       /\ watching <= config
       /\ smartConfig # None /\ watching <= smartConfig
       /\ smart # None => watching <= smart

LEMMA VersionsAreNat == \A v \in Versions : v \in Nat /\ v # None
BY LifecycleAssumption DEF Versions

LEMMA KnownVersions ==
  ASSUME VersionTypes
  PROVE  /\ stored \in Nat /\ config \in Nat
         /\ stored \in Versions /\ config \in Versions
         /\ watching # None => watching \in Nat
         /\ smart # None => smart \in Nat
         /\ smartConfig # None => smartConfig \in Nat
         /\ config # None
BY VersionsAreNat DEF VersionTypes, Known

(* A publication that ends restarts the watchers with the configuration    *)
(* of app.js, and then without a client, stops them, or leaves them alone. *)
LEMMA EndKeepsOrder ==
  ASSUME VersionTypes, InOrder, NEW c \in Versions, NEW ok, RunEnds(ok, c),
         config' = c, config <= c, stored' = stored, c <= stored
  PROVE  InOrder'
<1>0. c \in Nat /\ c # None
  BY VersionsAreNat
<1>9. /\ config \in Nat /\ stored \in Nat
      /\ watching # None => watching \in Nat
  BY KnownVersions
<1>1. StartAll(c) \/ StopAll \/ UNCHANGED loops
  BY DEF RunEnds, Resume
<1>2. CASE StartAll(c)
  BY <1>0, <1>2 DEF StartAll, InOrder
<1>3. CASE StopAll
  BY <1>3 DEF StopAll, InOrder
<1>4. CASE UNCHANGED loops
  BY <1>0, <1>9, <1>4 DEF loops, InOrder
<1> QED
  BY <1>1, <1>2, <1>3, <1>4

LEMMA StepKeepsOrder ==
  ASSUME Inv, InOrder, [Next]_vars
  PROVE  InOrder'
<1>0. VersionTypes /\ VersionTypes'
  BY StepMaps DEF Inv
<1>9. /\ stored \in Nat /\ config \in Nat
      /\ watching # None => watching \in Nat
      /\ smart # None => smart \in Nat
      /\ smartConfig # None => smartConfig \in Nat
      /\ config # None
  BY <1>0, KnownVersions
<1>1. CASE Edit
  BY <1>1, <1>9 DEF Edit, publication, loops, InOrder
<1>2. ASSUME NEW h \in Handlers,
             ConfigUpdated(h) \/ Connected(h) \/ Listed(h) \/ Scan(h)
      PROVE  InOrder'
  <2>1. UNCHANGED <<stored, config, loops>>
    BY <1>2
    DEF ConfigUpdated, Connected, Listed, Scan, host, publication
  <2> QED
    BY <2>1 DEF loops, InOrder
<1>3. ASSUME NEW h \in Handlers, SaveEntry(h)
      PROVE  InOrder'
  BY <1>3, <1>9 DEF SaveEntry, loops, InOrder
<1>4. CASE ReadConfig
  <2>1. /\ config' = stored /\ stored' = stored /\ config <= stored
        /\ stored <= stored /\ stored \in Versions
    BY <1>0, <1>9, <1>4, KnownVersions DEF ReadConfig, host, InOrder
  <2>2. CASE RunEnds(TRUE, stored)
    BY <1>0, <2>1, <2>2, EndKeepsOrder
  <2>3. CASE UNCHANGED loops
    BY <2>1, <2>3, <1>9 DEF loops, InOrder
  <2> QED
    BY <1>4, <2>2, <2>3 DEF ReadConfig
<1>5. CASE ReadFails \/ CloudFails \/ Published
  <2>1. PICK ok \in BOOLEAN : RunEnds(ok, config)
    BY <1>5 DEF ReadFails, CloudFails, Published
  <2>2. config' = config /\ stored' = stored
    BY <1>5 DEF ReadFails, CloudFails, Published, host
  <2>3. config \in Versions /\ config <= config /\ config <= stored
    BY <1>0, <1>9, KnownVersions DEF InOrder
  <2> QED
    BY <1>0, <2>1, <2>2, <2>3, EndKeepsOrder
<1>6. CASE Describe
  BY <1>6, <1>9 DEF Describe, host, InOrder
<1>7. CASE SmartUsed
  BY <1>7 DEF SmartUsed, host, publication, InOrder
<1>8. CASE UNCHANGED vars
  BY <1>8 DEF vars, host, publication, loops, InOrder
<1> QED
  BY <1>1, <1>2, <1>3, <1>4, <1>5, <1>6, <1>7, <1>8 DEF Next

(* No SMART client is older than the configuration the watchers run with,  *)
(* however the rounds of the manager, the commands and the publications    *)
(* that build one fall between the stops and the starts of the watchers    *)
(* (app.js, startWatchers; manager.js, stop and client).                   *)
THEOREM SmartCurrentHolds == Spec => []SmartCurrent
<1>1. Init => InOrder
  BY DEF Init, InOrder
<1>2. Inv /\ InOrder /\ [Next]_vars => InOrder'
  BY StepKeepsOrder
<1>3. Inv /\ InOrder => SmartCurrent
  BY VersionsAreNat DEF Inv, VersionTypes, Known, InOrder, SmartCurrent
<1> QED
  BY InvHolds, <1>1, <1>2, <1>3, PTL DEF Spec
===============================================================================
