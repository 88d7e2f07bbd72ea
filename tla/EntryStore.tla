------------------------------- MODULE EntryStore -------------------------------
(***************************************************************************)
(* The two stores the actions of src/app.js keep in the configuration,     *)
(* outside of the form: an address and an account per device.  An entry is *)
(* written by reading the whole store, changing it and writing it back     *)
(* (writeStoreEntry), with nothing that keeps two actions apart.  The      *)
(* account of a device comes from its entry, or else from the form         *)
(* (config.js, resolveRtspAccount), and is kept by its PTZ client.         *)
(***************************************************************************)
EXTENDS Naturals

CONSTANTS
  Devices, Values,
  Calls,         \* actions that may be under way at once
  MaxEntrySaves, \* bound on the actions the user runs
  MaxForms,      \* bound on the forms he saves
  MaxFailures,   \* bound on the calls to Gladys that fail
  None

Stores == {"device_addresses", "camera_account_store"}

EntryAssumption ==
  /\ None \notin Values
  /\ {MaxEntrySaves, MaxForms, MaxFailures} \subseteq Nat

VARIABLES
  store,      \* what Gladys holds: the two stores
  form,       \* and the account of the form
  memory,     \* the configuration of app.js: both, as they were last read
  call,       \* the actions under way
  updating,   \* onConfigUpdated was called and has not read the form yet
  building,   \* devices whose PTZ client waits for the list of devices
  ptz,        \* the account each PTZ client was built with
  entered,    \* history: the entries as they were last written
  raced,      \* history: stores written from two readings at once
  spoiled,    \* history: devices whose client may be older than the store
  entrySaves, forms, entryFailures

held == <<store, form, memory>>
clients == <<building, ptz>>
histories == <<entered, raced, spoiled>>
entryBounds == <<entrySaves, forms, entryFailures>>
vars == <<held, call, updating, clients, histories, entryBounds>>

Entry == Values \cup {None}
Map == [Stores -> [Devices -> Entry]]
Idle == [phase |-> "free"]
Action == [phase : {"reading", "rereading", "publishing"},
           key : Stores, device : Devices, value : Entry]
Writing == [phase : {"writing"}, key : Stores, device : Devices,
            value : Entry, next : [Devices -> Entry]]

TypeOK ==
  /\ {store, entered} \subseteq Map
  /\ form \in Entry
  /\ memory \in [store : Map, form : Entry]
  /\ call \in [Calls -> {Idle} \cup Action \cup Writing]
  /\ updating \in BOOLEAN
  /\ building \subseteq Devices /\ spoiled \subseteq Devices
  /\ ptz \in [Devices -> Entry]
  /\ raced \subseteq Stores

Empty == [k \in Stores |-> [d \in Devices |-> None]]

Init ==
  /\ store = Empty /\ form = None
  /\ memory = [store |-> Empty, form |-> None]
  /\ call = [c \in Calls |-> Idle] /\ updating = FALSE
  /\ building = {} /\ ptz = [d \in Devices |-> None]
  /\ entered = Empty /\ raced = {} /\ spoiled = {}
  /\ entrySaves = 0 /\ forms = 0 /\ entryFailures = 0

(* resolveRtspAccount: the entry of the device wins over the form.         *)
resolveRtspAccount(entries, typed, d) ==
  IF entries["camera_account_store"][d] # None
    THEN entries["camera_account_store"][d]
    ELSE typed

ReadNow == memory' = [store |-> store, form |-> form]
Moves(c, phase) == call' = [call EXCEPT ![c].phase = phase]
Done(c) == call' = [call EXCEPT ![c] = Idle]

Fails ==
  /\ entryFailures < MaxFailures
  /\ entryFailures' = entryFailures + 1
  /\ UNCHANGED <<entrySaves, forms>>

---------------------------------------------------------------------------
(* An action of the user: set_device_address or set_camera_account, whose  *)
(* empty fields remove the entry.                                          *)
Saves(c, k, d, v) ==
  /\ entrySaves < MaxEntrySaves
  /\ entrySaves' = entrySaves + 1
  /\ call[c] = Idle
  /\ call' = [call EXCEPT ![c] =
                [phase |-> "reading", key |-> k, device |-> d, value |-> v]]
  /\ UNCHANGED <<held, updating, clients, histories, forms, entryFailures>>

ReadsMemory(c) ==
  /\ call[c].phase = "reading"
  /\ LET a == call[c]
     IN  call' = [call EXCEPT ![c] =
                    [phase |-> "writing", key |-> a.key, device |-> a.device,
                     value |-> a.value,
                     next |-> [memory.store[a.key] EXCEPT ![a.device] = a.value]]]
  /\ UNCHANGED <<held, updating, clients, histories, entryBounds>>

(* writeStoreEntry: the store is read anew, and changed in memory.         *)
Reads(c) ==
  /\ call[c].phase = "reading"
  /\ LET a == call[c]
     IN  call' = [call EXCEPT ![c] =
                    [phase |-> "writing", key |-> a.key, device |-> a.device,
                     value |-> a.value,
                     next |-> [store[a.key] EXCEPT ![a.device] = a.value]]]
  /\ UNCHANGED <<held, updating, clients, histories, entryBounds>>

ReadFails(c) ==
  /\ call[c].phase = "reading"
  /\ Fails
  /\ Done(c)
  /\ UNCHANGED <<held, updating, clients, histories>>

(* The store is written back whole.                                        *)
Stored(c) ==
  LET a == call[c]
  IN  /\ store' = [store EXCEPT ![a.key] = a.next]
      /\ entered' = [entered EXCEPT ![a.key][a.device] = a.value]
      /\ raced' = IF \E o \in Calls \ {c} :
                        call[o].phase = "writing" /\ call[o].key = a.key
                    THEN raced \cup {a.key}
                    ELSE raced

Writes(c) ==
  /\ call[c].phase = "writing"
  /\ Stored(c)
  /\ call' = [call EXCEPT ![c] =
                [phase |-> "rereading", key |-> call[c].key,
                 device |-> call[c].device, value |-> call[c].value]]
  /\ UNCHANGED <<form, memory, updating, clients, spoiled, entryBounds>>

WriteRefused(c) ==
  /\ call[c].phase = "writing"
  /\ Fails
  /\ Done(c)
  /\ UNCHANGED <<held, updating, clients, histories>>

(* Stored, with the answer lost, or read back in vain: the action ends     *)
(* there, and the clients are left as they are.                            *)
WriteUnanswered(c) ==
  /\ call[c].phase = "writing"
  /\ Fails
  /\ Stored(c)
  /\ Done(c)
  /\ spoiled' = spoiled \cup {call[c].device}
  /\ UNCHANGED <<form, memory, updating, clients>>

RereadFails(c) ==
  /\ call[c].phase = "rereading"
  /\ Fails
  /\ Done(c)
  /\ spoiled' = spoiled \cup {call[c].device}
  /\ UNCHANGED <<held, updating, clients, entered, raced>>

(* The configuration is read back; an account saved makes its PTZ client   *)
(* be forgotten, an address does not.                                      *)
RereadsKeepingClient(c) ==
  /\ call[c].phase = "rereading"
  /\ ReadNow
  /\ UNCHANGED ptz
  /\ Moves(c, "publishing")
  /\ UNCHANGED <<store, form, updating, building, histories, entryBounds>>

Rereads(c) ==
  /\ call[c].phase = "rereading"
  /\ ReadNow
  /\ ptz' = IF call[c].key = "camera_account_store"
              THEN [ptz EXCEPT ![call[c].device] = None]
              ELSE ptz
  /\ Moves(c, "publishing")
  /\ UNCHANGED <<store, form, updating, building, histories, entryBounds>>

(* publishDevices, whose failure the actions ignore, reads it once more.   *)
Publishes(c) ==
  /\ call[c].phase = "publishing"
  /\ ReadNow
  /\ Done(c)
  /\ UNCHANGED <<store, form, updating, clients, histories, entryBounds>>

PublishingFails(c) ==
  /\ call[c].phase = "publishing"
  /\ Fails
  /\ Done(c)
  /\ UNCHANGED <<held, updating, clients, histories>>

---------------------------------------------------------------------------
(* The form: onConfigUpdated forgets every PTZ client, then publishes.     *)
SavesForm(v) ==
  /\ forms < MaxForms
  /\ forms' = forms + 1
  /\ ~updating
  /\ form' = v
  /\ updating' = TRUE
  /\ ptz' = [d \in Devices |-> None]
  /\ UNCHANGED <<store, memory, call, building, histories, entrySaves,
                 entryFailures>>

FormRead ==
  /\ updating
  /\ updating' = FALSE
  /\ ReadNow
  /\ UNCHANGED <<store, form, call, clients, histories, entryBounds>>

(* getPtzClient: the first movement lists the devices, then builds the     *)
(* client with the configuration of that moment.                           *)
AsksClient(d) ==
  /\ ptz[d] = None
  /\ d \notin building
  /\ building' = building \cup {d}
  /\ UNCHANGED <<held, call, updating, ptz, histories, entryBounds>>

Behind == memory # [store |-> store, form |-> form]

Builds(d) ==
  /\ d \in building
  /\ building' = building \ {d}
  /\ LET account == resolveRtspAccount(memory.store, memory.form, d)
     IN  ptz' = IF account = None THEN ptz ELSE [ptz EXCEPT ![d] = account]
  /\ spoiled' = IF Behind THEN spoiled \cup {d} ELSE spoiled
  /\ UNCHANGED <<held, call, updating, entered, raced, entryBounds>>

Next ==
  \/ \E c \in Calls :
       \/ \E k \in Stores, d \in Devices, v \in Entry : Saves(c, k, d, v)
       \/ Reads(c) \/ ReadFails(c)
       \/ Writes(c) \/ WriteRefused(c) \/ WriteUnanswered(c)
       \/ Rereads(c) \/ RereadFails(c)
       \/ Publishes(c) \/ PublishingFails(c)
  \/ \E v \in Entry : SavesForm(v)
  \/ FormRead
  \/ \E d \in Devices : AsksClient(d) \/ Builds(d)

Spec == Init /\ [][Next]_vars

---------------------------------------------------------------------------
(* EntriesKept: every entry written is there, whatever was saved, removed  *)
(* or failed since, as long as no two actions held a reading of the store  *)
(* at once (app.js, writeStoreEntry).                                      *)
EntriesKept == \A k \in Stores \ raced : store[k] = entered[k]

(* SavedAccountUsed: with nothing under way, the PTZ client of a camera    *)
(* uses the account saved for it, as "a client still holding the previous  *)
(* credentials would otherwise keep failing until the next restart"        *)
(* (app.js:1049), but one built before the configuration was read back,    *)
(* after a call to Gladys that failed half-way, or when two actions wrote  *)
(* the accounts from one reading.                                          *)
AtRest == ~updating /\ \A c \in Calls : call[c] = Idle
SavedAccountUsed ==
  AtRest /\ "camera_account_store" \notin raced
    => \A d \in Devices \ spoiled :
         ptz[d] = None \/ ptz[d] = resolveRtspAccount(store, form, d)
===============================================================================
