--------------------------- MODULE ConfigLifecycle ---------------------------
(***************************************************************************)
(* How a configuration travels through src/app.js: saved by the user or by *)
(* an action, read by a publication, handed to the watchers, and kept      *)
(* inside the SMART clients built with it.  Publications are coalesced:    *)
(* one runs, at most one waits behind it, and every handler that asked     *)
(* awaits one of the two.                                                  *)
(*                                                                         *)
(* A configuration is its version: saving it makes the next one.           *)
(***************************************************************************)
EXTENDS Naturals

CONSTANTS
  Handlers,         \* handler calls that may be under way at once
  Incomplete,       \* versions without an account: isConfigured is false
  MaxEdits,         \* bound on the configurations the user saves
  MaxEntries,       \* bound on the entries the actions save
  MaxEvents,        \* bound on the connections and scans
  MaxReadFailures,  \* bound on the configurations that cannot be read
  MaxCloudFailures, \* bound on the publications the cloud fails
  None

Versions == 0..(MaxEdits + MaxEntries)
Known == Versions \cup {None}

ASSUME LifecycleAssumption ==
  /\ None \notin Nat
  /\ Incomplete \subseteq Nat
  /\ {MaxEdits, MaxEntries, MaxEvents, MaxReadFailures, MaxCloudFailures}
       \subseteq Nat

VARIABLES
  stored,       \* the configuration Gladys stores
  edited,       \* history: the last version saved by the user
  notified,     \* the handler of every saved configuration was called
  config,       \* the configuration of app.js
  run,          \* what the publication in flight is doing
  read,         \* history: the version the publication in flight read
  queued,       \* publishQueued
  kind,         \* which handler each call is
  phase,        \* what each call awaits
  watching,     \* the version the watchers run with, None when stopped
  startedWith,
  smartConfig,  \* configuration of the SMART manager
  smart,        \* the version the cached client of a SMART device holds
  edits, entries, events, readFailures, cloudFailures

host == <<stored, edited, notified>>
publication == <<config, run, read, queued>>
calls == <<kind, phase>>
loops == <<watching, startedWith, smartConfig, smart>>
bounds == <<edits, entries, events, readFailures, cloudFailures>>
vars == <<host, publication, calls, loops, bounds>>

isConfigured(v) == v \notin Incomplete

TypeOK ==
  /\ {stored, edited, config, read} \subseteq Versions
  /\ {notified, queued} \subseteq BOOLEAN
  /\ run \in {"none", "reading", "asking", "describing"}
  /\ kind \in [Handlers -> {"updated", "connected", "scan"}]
  /\ phase \in [Handlers -> {"free", "listing", "onRun", "onQueued"}]
  /\ {watching, startedWith, smart} \subseteq Known
  /\ smartConfig \in Known
  /\ (\E h \in Handlers : phase[h] = "onRun") <=> run # "none"
  /\ (\E h \in Handlers : phase[h] = "onQueued") <=> queued = TRUE

Init ==
  /\ stored = 0 /\ edited = 0 /\ notified = TRUE
  /\ config = 0 /\ run = "none" /\ read = 0 /\ queued = FALSE
  /\ kind = [h \in Handlers |-> "scan"]
  /\ phase = [h \in Handlers |-> "free"]
  /\ watching = None /\ startedWith = None
  /\ smartConfig = None /\ smart = None
  /\ edits = 0 /\ entries = 0 /\ events = 0
  /\ readFailures = 0 /\ cloudFailures = 0

---------------------------------------------------------------------------
(* publishDevices: join the publication queued behind the one in flight,   *)
(* or start one.                                                           *)
JoinTheRun(h) ==
  /\ phase' = [phase EXCEPT ![h] = "onRun"]
  /\ UNCHANGED queued
  /\ run' = IF run = "none" THEN "reading" ELSE run

publishDevices(h) ==
  IF run # "none"
    THEN /\ phase' = [phase EXCEPT ![h] = "onQueued"]
         /\ queued' = TRUE
         /\ UNCHANGED run
    ELSE /\ phase' = [phase EXCEPT ![h] = "onRun"]
         /\ run' = "reading"
         /\ UNCHANGED queued

(* The user saves the configuration; Gladys tells the integration.         *)
Edit ==
  /\ edits < MaxEdits
  /\ edits' = edits + 1
  /\ stored' = stored + 1
  /\ edited' = stored'
  /\ notified' = FALSE
  /\ UNCHANGED <<publication, calls, loops, entries, events,
                 readFailures, cloudFailures>>

ConfigUpdated(h) ==
  /\ ~notified
  /\ phase[h] = "free"
  /\ notified' = TRUE
  /\ kind' = [kind EXCEPT ![h] = "updated"]
  /\ publishDevices(h)
  /\ UNCHANGED <<stored, edited, config, read, loops, bounds>>

(* Connected, or connected again: the devices are listed first.            *)
Connected(h) ==
  /\ events < MaxEvents
  /\ events' = events + 1
  /\ phase[h] = "free"
  /\ kind' = [kind EXCEPT ![h] = "connected"]
  /\ phase' = [phase EXCEPT ![h] = "listing"]
  /\ UNCHANGED <<host, publication, loops, edits, entries,
                 readFailures, cloudFailures>>

Listed(h) ==
  /\ phase[h] = "listing"
  /\ publishDevices(h)
  /\ UNCHANGED <<host, config, read, kind, loops, bounds>>

(* A scan, or a connection test.                                           *)
Scan(h) ==
  /\ events < MaxEvents
  /\ events' = events + 1
  /\ phase[h] = "free"
  /\ kind' = [kind EXCEPT ![h] = "scan"]
  /\ publishDevices(h)
  /\ UNCHANGED <<host, config, read, loops, edits, entries,
                 readFailures, cloudFailures>>

(* An action saves a camera account (writeStoreEntry), forgets the PTZ     *)
(* client and publishes.                                                   *)
SaveEntry(h) ==
  /\ entries < MaxEntries
  /\ entries' = entries + 1
  /\ phase[h] = "free"
  /\ stored' = stored + 1
  /\ config' = stored'
  /\ kind' = [kind EXCEPT ![h] = "scan"]
  /\ publishDevices(h)
  /\ UNCHANGED <<edited, notified, read, loops, edits, events,
                 readFailures, cloudFailures>>

---------------------------------------------------------------------------
(* What the handlers that awaited the publication do when it ends, with    *)
(* the configuration c.  One that was called for a saved configuration     *)
(* goes on whatever happened, a connection only when it succeeded.         *)
StartAllKeepingClients(c) ==
  /\ watching' = c
  /\ startedWith' = c
  /\ smartConfig' = c
  /\ smart' = smart

StartAll(c) ==
  /\ watching' = c
  /\ startedWith' = c
  /\ smartConfig' = c
  /\ smart' = None

StopAll ==
  /\ watching' = None
  /\ startedWith' = None
  /\ smart' = None
  /\ UNCHANGED smartConfig

ResumeOnSuccess(ok, c) ==
  LET resumed == {kind[h] : h \in {g \in Handlers : phase[g] = "onRun"}}
      restart == /\ ok
                 /\ \/ "updated" \in resumed
                    \/ /\ "connected" \in resumed
                       /\ startedWith # c \/ watching = None
  IN  CASE restart /\ isConfigured(c) -> StartAll(c)
        [] "updated" \in resumed /\ ~isConfigured(c) -> StopAll
        [] OTHER -> UNCHANGED loops

Resume(ok, c) ==
  LET resumed == {kind[h] : h \in {g \in Handlers : phase[g] = "onRun"}}
      restart == \/ "updated" \in resumed
                 \/ /\ "connected" \in resumed /\ ok
                    /\ startedWith # c \/ watching = None
  IN  CASE restart /\ isConfigured(c) -> StartAll(c)
        [] "updated" \in resumed /\ ~isConfigured(c) -> StopAll
        [] OTHER -> UNCHANGED loops

(* Then the queued publication runs.                                       *)
RunEndsKeepingQueue(ok, c) ==
  /\ Resume(ok, c)
  /\ phase' = [h \in Handlers |-> CASE phase[h] = "onRun" -> "free"
                                    [] phase[h] = "onQueued" -> "onRun"
                                    [] OTHER -> phase[h]]
  /\ run' = IF queued THEN "reading" ELSE "none"
  /\ UNCHANGED queued

RunEnds(ok, c) ==
  /\ Resume(ok, c)
  /\ phase' = [h \in Handlers |-> CASE phase[h] = "onRun" -> "free"
                                    [] phase[h] = "onQueued" -> "onRun"
                                    [] OTHER -> phase[h]]
  /\ run' = IF queued THEN "reading" ELSE "none"
  /\ queued' = FALSE

(* runPublish: the configuration is read, which ends the publication when  *)
(* it has no account; the cloud lists the devices; the SMART ones are      *)
(* asked what they are; everything is published.                           *)
ReadConfig ==
  /\ run = "reading"
  /\ config' = stored
  /\ read' = stored
  /\ \/ /\ isConfigured(stored)
        /\ run' = "asking"
        /\ UNCHANGED <<queued, phase, loops>>
     \/ ~isConfigured(stored) /\ RunEnds(TRUE, stored)
  /\ UNCHANGED <<host, kind, bounds>>

ReadFails ==
  /\ run = "reading"
  /\ readFailures < MaxReadFailures
  /\ readFailures' = readFailures + 1
  /\ RunEnds(FALSE, config)
  /\ UNCHANGED <<host, config, read, kind, edits, entries,
                 events, cloudFailures>>

CloudFails ==
  /\ run = "asking"
  /\ cloudFailures < MaxCloudFailures
  /\ cloudFailures' = cloudFailures + 1
  /\ RunEnds(FALSE, config)
  /\ UNCHANGED <<host, config, read, kind, edits, entries,
                 events, readFailures>>

(* SmartManager.describe: a client is built only when none is kept.        *)
Describe ==
  /\ run = "asking"
  /\ run' = "describing"
  /\ smartConfig' = config
  /\ smart' = IF smart = None THEN config ELSE smart
  /\ UNCHANGED <<host, config, read, queued, calls, watching, startedWith,
                 bounds>>

Published ==
  /\ run = "describing"
  /\ RunEnds(TRUE, config)
  /\ UNCHANGED <<host, config, read, kind, bounds>>

---------------------------------------------------------------------------
(* The clients that keep the credentials they were built with.             *)

(* A round of the SMART manager, one that began before it was stopped      *)
(* included, or a command for one of its devices.                          *)
SmartUsed ==
  /\ smartConfig # None
  /\ smart = None
  /\ smart' = smartConfig
  /\ UNCHANGED <<host, publication, calls, watching, startedWith, smartConfig,
                 bounds>>

Next ==
  \/ Edit
  \/ \E h \in Handlers :
       ConfigUpdated(h) \/ Connected(h) \/ Listed(h) \/ Scan(h) \/ SaveEntry(h)
  \/ ReadConfig
  \/ ReadFails
  \/ CloudFails
  \/ Describe
  \/ Published
  \/ SmartUsed

Spec == Init /\ [][Next]_vars

(* Gladys tells of a saved configuration, and what a handler awaits ends.  *)
FairSpec ==
  /\ Spec
  /\ WF_vars(\E h \in Handlers : ConfigUpdated(h))
  /\ \A h \in Handlers : WF_vars(Listed(h))
  /\ WF_vars(ReadConfig \/ ReadFails)
  /\ WF_vars(CloudFails \/ Describe)
  /\ WF_vars(Published)

---------------------------------------------------------------------------
(* CoalescedPublication: publishDevices is a coalesced operation: "the     *)
(* latest configuration is always the one published" (app.js:429), as a    *)
(* handler is answered by a publication that read the configuration after  *)
(* it asked, and one publication runs at a time.                           *)
OnRun == {h \in Handlers : phase[h] = "onRun"}
OnQueued == {h \in Handlers : phase[h] = "onQueued"}

Waiting == IF run = "reading" THEN OnQueued \cup OnRun ELSE OnQueued
Serving == IF run = "reading" THEN {} ELSE OnRun

Work == INSTANCE CoalescedWork WITH
  Callers <- Handlers,
  input   <- stored,
  waiting <- Waiting,
  serving <- Serving,
  taken   <- read

CoalescedPublication == Work!Spec

(* SmartCurrent: no SMART client is older than the configuration the       *)
(* watchers run with, wherever a round, a command or a publication was     *)
(* when they were restarted (SmartManager.stop: "drop the sessions (the    *)
(* account may have changed)").                                            *)
SmartCurrent == watching # None /\ smart # None => smart >= watching

(* WatchersCatchUp: running watchers end up with the last configuration    *)
(* the user saved, cloud failures included, or stopped by one without an   *)
(* account (app.js onConfigUpdated), as long as every read of it succeeds: *)
(* a publication that could not read it restarts them with the old one.    *)
Behind == watching # None /\ watching < edited
WatchersCatchUp == Behind ~> ~Behind \/ readFailures > 0
=============================================================================
