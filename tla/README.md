# Verification of gladys-tapo

TLA+ models of the Tapo integration for Gladys Assistant, checked with TLC on
small instances and, for the parts that argue by an invariant, proved with
TLAPS for every value of the constants. Line numbers refer to the repository
(`src/app.js:434` is line 434 of that file); module comments name files without
their directory. PROJECT.json maps every definition to the lines it models.

The integration is one Node.js process. Nothing runs in parallel, but every
`await` lets another handler in: timers, the requests of Gladys, the answers of
cameras, the events they push. The models are therefore built at the grain of
`await`: **one action is what runs between two awaits**, and the state that
survives the await is the state a second handler can change.

## 1. Inventory

### Components

| component | state it keeps | operations | talks to |
|---|---|---|---|
| Event watcher, motion sensor (`tapo/events.js` 470-560, 845-935) | accepted state per camera (`motionStates`), state in flight (`motionPending`), fall and reset timers | rising edge (ONVIF or poll), falling edge, fall, reset, publish, restart | the Gladys host |
| Event watcher, detections (`events.js` 735-842, 1075-1120) | watermark, last look per camera | tick, poll of Gladys, created device, full or low-power look | local API, ONVIF |
| Event watcher, subscriptions (`events.js` 266-432, 575-735) | ONVIF clients by address, coverage by cloud id, setups in flight, generation | start, stop, tick, retry, setup, drop | ONVIF client, `app.js` |
| ONVIF client (`tapo/onvif.js`) | subscription URL, running flag, quiet count, backoff | open, start, renew, pull, dispatch, stop | the camera, which keeps few subscriptions |
| Battery guard (`tapo/batteryGuard.js`) | thresholds, the two bands (blocked, recovering), levels with their age | apply thresholds, record a reading, policy | event watcher feeds it, captures ask it |
| Captures and private mode (`app.js` 60-610) | last capture, capture in flight, override of the last command | capture, schedule, enable/disable | guard, discovery, local API, host |
| Configuration and publications (`app.js`) | configuration, publication in flight and queued one, the stores of addresses and of accounts | connect, configuration saved, action, scan, publish, save an entry | cloud, watchers, SMART manager |
| Local camera API (`tapo/localApi.js`) | session token, queue, backoff | call, log in, retry, close | the camera, which keeps few sessions |
| SMART client and transports (`smart/client.js`, `klap.js`, `aes.js`, `tpap.js`) | transport, session, announced protocol, backoff | call, handshake, fall back, reset | plugs, bulbs, hubs |
| SMART manager (`smart/manager.js`) | clients, published values and badges, marks of button logs, energy | tick, poll, command, publish, stop | SMART clients, host |
| Image capture (`tapo/snapshot.js`, `tapo/stream/mediaSession.js`) | socket, handshake, window, ffmpeg, timers | start, feed, stop, kill, re-encode | camera, ffmpeg |
| PTZ (`tapo/ptz.js`, `app.js` 130-160) | clients by camera; service, profile, discovery in flight | move, preset, stop | camera |
| Cloud (`tapo/cloud.js`) | token and its age | log in, list devices, renew once | TP-Link cloud |
| Discovery and publication of cameras (`tapo/discovery.js`, `devices.js`) | last scan, lens masks seen, refused logins | scan, resolve an address, probe, build, publish | LAN, host, camera |
| Scene trigger (`sceneEvents.js`) | the last event of each kind | detection, by a notification or a look | event watcher feeds it, host |
| SMART device mapping, configuration parsing, report, constants, encryption | little or none | conversions | |

### How they interact, and what is hard

* **Calls overlap.** A rising edge, a held-back fall and a reset publish the
  same feature; a tick, a poll and a created device look at the same camera;
  two callers want the same capture; commands share one PTZ discovery.
* **State is read before an await and used after it.** The pace of captures,
  the private mode, the device list a setup was decided on, the configuration a
  publication read, the token a login will store.
* **Cameras fail in the middle.** They sleep, reboot (and forget subscriptions
  and sessions), refuse logins and then lock the account out, let answers get
  lost, hang up in the middle of a stream, change address.
* **The host refuses or does not answer**, and the integration deduplicates
  what it publishes: a wrong record means a state nobody repairs.
* **Restarts.** Every saved configuration stops and starts the watchers while
  their requests are in flight. Nothing but the devices Gladys holds survives
  the process.
* **Long protocol sequences.** Two bands with hysteresis under changing
  settings, three transports falling back on each other.

What makes each component correct is stated as the properties of section 3;
the hazards they answer, each at its line, are listed in PROJECT.json. Other
hazards seen and not covered yet: a PTZ client that keeps an address since
corrected (`app.js:967`), a start-up that fails half-way and is not retried
(`app.js:1163`), a camera reclassified by its battery reading
(`events.js:1120`).

## 2. Modules and plan

Each component is one module: constants with a named assumption, variables,
one action per handler segment, `Next`, `Spec`, and `FairSpec` where it
promises progress. Proofs live in `<Module>Proofs`, which extends the module
and TLAPS. `MC*` modules only give TLC a symmetry, sets of records as values,
or a sum of modules.

Order in which they were built, the most important first:

1. `MotionSensor`: the one feature scenes are written on, and the densest
   interleaving of the code.
2. `DetectionFeed`: where motions come from: two sources that must neither
   repeat nor lose.
3. `OnvifSubscriptions` and `OnvifClient`: which source runs, and one client
   of it.
4. `BatteryGuard`, `CameraCapture`: when a camera is woken.
5. `ConfigLifecycle`: what a saved configuration does to all of these.
6. `SmartStates`, `SmartClient`, `LocalApi`: the devices and the sessions.
7. `Ptz`, `StreamCapture`, `CloudAccount`, `Discovery`: what Gladys requests,
   composed by `MCRequests`.
8. `EntryStore` (added to `MCRequests`), `ButtonLog`, `EnergyIndex`,
   `SceneTrigger` (composed with `MotionSensor`, `OnvifClient`, `SmartStates`
   and `SmartClient` by `MCReports`), `StreamParser` (added to `MCRequests`): what
   one camera or one device keeps of its own.
9. `CoalescedWork` and `MemoizedWork`: what `publishDevices` and the discovery
   of a PTZ client promise their callers, the abstract specifications
   `ConfigLifecycle` and `Ptz` are shown to implement.

Composition. `MCRequests` instantiates the six modules of what Gladys requests,
`MCReports` the seven of what devices report and how they are reached. In each
sum the handlers share no state, so a behaviour follows one component, chosen
initially (`serving`, `reporting`), and the number of states is the sum of
theirs, not their product. The constant `Followed` of `MCReports` names the
components a run is about, all seven of them in `Reports`. Elsewhere one module stands for what another does by the actions
it exposes:
`DetectionFeed`'s `Cover`/`Uncover` are the installation and the drop of
`OnvifSubscriptions`; the lifetime of one of its `clients` is `OnvifClient`;
what `DetectionFeed` reports is what `SceneTrigger` is `Notified` of and
`Looked` at; `CameraCapture`'s `policy` is the outcome of `BatteryGuard`; the
restart in `MotionSensor` and the starts of `OnvifSubscriptions` are the
restarts of `ConfigLifecycle`; the saved entry in `ConfigLifecycle` is
`EntryStore`; the parts `StreamCapture` counts are those of `StreamParser`.

Still planned:

* **models**: PTZ clients across `set_device_address`, the description of SMART
  devices and the grouping of the devices of a hub (`smart/model.js`,
  `manager.js`);
* **abstract specifications** and their refinements: a sensor as a register
  the host sees (MotionSensor, SmartStates), a server with a bounded number
  of sessions (LocalApi, OnvifClient), a subscription as covered/polled
  (OnvifSubscriptions);
* **proofs**: those refinements; every safety property of the passing runs is
  proved.

## 3. What each run checks

Every run is exhaustive within its bounds. Bounds are constants named `Max...`
and appear in the guards of the actions they limit. The notation "1 failure"
below means at most that many in a behaviour, at any of its steps.

TypeOK of the modules that have proofs is a theorem (section 5), and no run
repeats it. Where `CHECK_DEADLOCK FALSE` appears, a behaviour really ends: once the bounded inputs are used up
and every call answered, nothing is left to do.

### DetectionFeed (11 million states)

Models `fetchDeviceEvents` and the watermark of one camera: windows that
start at the cursor, looks in flight by two callers, the first look, low-power
looks, failures, and the ONVIF path that covers and uncovers the camera.

* `AtMostOnce`: no detection fires twice, but one pushed over ONVIF before the
  camera went back to the poll.
* `ReportsSinceStart`: nothing older than the start fires, but when the first
  look to end read nothing or overtook another one; and once looks are
  answered, every detection recorded between the first look and the last was
  reported, except in the gaps the model names (`missed`).

Bounds: a clock of 4 seconds with a window of 1, so that windows slide and
overlap, and a low-power look ends before the first full one starts (divergence
24); 2 detections of 2 kinds, 2 lookers, 1 failure, 1 cover, 1 uncover.
Callers and kinds are interchangeable and the run checks invariants only, so
the symmetry is sound.

### FeedCursor (expected violation)

The same module, one looker, no subscription. `events.js:1104` says of the
cursor that it is "only advanced when the detections are actually read"; the
assignment at `events.js:1108` precedes the read. `ReadIsAdvanced` fails: a
read that fails loses its window.

### BatteryGuard (41 thousand states)

Models thresholds as saved and clamped, both bands, the age of the last reading,
the slow-down of the poll under the thresholds and the policy. Time is in
rounds; ages saturate where the code tells them apart no more.

* `LevelStaysFresh`: the level of a camera that answers is never stale.
* `DrainNeverIgnored`: a trusted level under a threshold restricts captures.
* `EarnedRelease` (action property): leaving a band is earned by the level
  that band asks for, whatever is saved in between.
* `BackInService` (liveness): a camera that stays charged is captured again.

Bounds: levels on both sides of each threshold and of the hysteresis; three
settings: the defaults, thresholds in the wrong order, thresholds out of
range; 3 silences (long enough for a reading to go stale), 2 saves.

### OnvifSubscriptions (669 thousand states)

Models `start`, `stop`, the listing, `setupOnvif`/`openOnvif`, the retries of
the tick, `dropOnvif`, and the two actions of `app.js` that save an account or
an address. Clients are kept by address and coverage by camera, as in the code.

* `AccountsCurrent`: no client pulls with the account of a configuration the
  watcher was not started with.
* `CoveredIsWatched`: covered cameras and clients agree, both ways.
* `SubscribedAgain` (liveness): a camera that should be subscribed ends up so.

Bounds: 2 cameras and 2 addresses (enough for a swap), 2 starts, 1 save,
1 move, 1 failure.

### CameraCapture (1.1 million states)

Models the private mode (mask of the camera, mode the watcher remembers, gate
of Gladys, override of the last command) and the capture shared by its callers.
The readings of the watcher and the commands each publish the gate: the mode is
remembered first, then the publication is on its way, and the host takes the
publications of the two in any order, or refuses them, which neither caller
looks at. A camera the battery guard holds back (`policy` is not "all") is not
asked for its mask (`events.js:1088-1096`, `:1139`).

* `ScheduledAtPace` (action property): a scheduled capture never wakes a
  camera before its interval.
* `GateSettles` (liveness): if the guard ends up leaving the camera alone, gate
  and remembered mode end up telling the truth. While it holds the camera back
  nothing is promised: a mask moved in the Tapo app, or a publication refused,
  stays unseen until it is released.

Bounds: two scheduled callers and one on demand, 3 captures, 2 commands,
1 toggle in the Tapo app, 2 failures (a reading or a publication of each of the
two callers), one reading and one command of the private mode at a time.

### ConfigLifecycle (1.1 million states)

Models `onConfigUpdated`, connections, scans and actions up to each await,
`publishDevices` with its coalescing, and the SMART clients built meanwhile. A
configuration is its version.

* `CoalescedPublication`: the module implements `CoalescedWork`. A handler
  waits while its publication has not read the configuration (`Waiting`), and
  is served once it has (`Serving`); a batch is read for after all its callers
  asked, and one batch is served at a time. A handler therefore never awaits a
  publication that read a configuration older than its call.
* `SmartCurrent`: no SMART client is older than the configuration of the
  running watchers.
* `WatchersCatchUp` (liveness): running watchers reach the last saved
  configuration, unless a read of it fails.

Bounds: 3 handlers (one served, one queued, one that joins it), 3 saves of
which some without an account, 1 entry, 2 events, 1 failing read, 1 failing
cloud.

### LocalApi (58 thousand states)

Models the queue, login, request, the one retry, the pauses, `close`, against
a camera that counts sessions.

* `SessionsAccounted`: the camera holds no unknown session, but one per lost
  answer and one for a failed log out.
* `Quiet` (action property): no call logs in during a pause.
* `SurvivesDrop` (action property): one dropped session fails no call.
* `QueueDrains` (liveness): the queue empties again and again.

Bounds: 3 calls, two of each fault (a retry that fails too needs two).

### Requests (1.7 million states)

`MCRequests`: one of six components per behaviour.

* `Ptz`: `DiscoveryMemoized`, the module implements `MemoizedWork`. What a client
  knows of its camera is nothing, that it moves (`able`: the service and the
  profile, both) or that it does not (`unable`); who awaits the discovery waits,
  who sent a call acts. Those who wait are told the same at once, a failed
  attempt keeps nothing, not even the service it had learnt, and a client is
  forgotten only when nobody uses it. `Recovers` (liveness), an outage leaves no
  client unable to move. 2 commands, 3 clients: one per command and one built
  after a save.
* `StreamCapture`: `CleansUp` (liveness), every capture ends and leaves no
  socket or process. A picture takes 5 parts of at most 7, windows are of 2,
  so that acknowledgements, an early end and a full picture all occur.
* `StreamParser`: `onData` and `handleStreamChunk` over the bytes of a multipart
  stream. A token stands for some bytes; a boundary and a separator are two
  tokens, so that they too arrive in two pieces, and a packet holds what looks
  like a boundary or like its sync byte. The camera sends one part after
  another, of any size: a slice of the video, which may start in the middle of a
  packet (`skew`), a message, a body that cannot be deciphered, or headers
  without a length. The network hands over any number of tokens at once.
  `StreamReassembled`: wherever it cuts the stream and the camera cuts the
  packets, a part is handled as soon as it is complete, ffmpeg gets every whole
  packet once and in order, and the session ends at a part that cannot be
  deciphered or for a stream of another boundary, and for nothing else.
  3 packets, of which the second holds a lookalike, 3 parts, of 1, 4 or 5 tokens
  of video or 0 or 4 of the rest, chunks of up to 6, a buffer of 16: a chunk
  holds less than a part, or more than one.
* `CloudAccount`: `AccountListed` (action property), a publication lists the
  devices of the account it read, unless a login overlapped a save. 2 edits, one
  refused password, 2 revoked tokens.
* `Discovery`: `NoGhost`, a typed and removed address does not come back;
  `OutageKeeps` (action property), what could not be asked is not taken away:
  the motion sensor, the address and the lens mask. One LAN and one typed
  address, 1 restart.
* `EntryStore`: `EntriesKept`, a saved entry stays as it was last written,
  whatever fails around it; `SavedAccountUsed`, at rest a PTZ client has the
  account saved for its camera. Two actions that hold a reading of the same
  store at once lose an entry (divergence 23): the store is then `raced` and let
  off, as are the devices whose client was built behind a half-failed call
  (`spoiled`). 2 devices, 2 stores, 1 value and its removal, 2 actions at once,
  1 form, 1 failure.

### Reports (457 thousand states)

`MCReports`: one of seven components per behaviour, the first three of a
camera, the others of a SMART device.

* `OnvifClient`: one client and its camera as exchanges, the request on its
  way, the camera acting on it, the answer back. The camera has 2 slots, may
  reboot, go away, let subscriptions expire. `NoLeak`: it holds no subscription
  the client does not know, is not being handed or is not releasing, but one
  per lost message. `WatchesAgain` (liveness): a running client comes back to a
  pull on a living subscription. 4 identities, quiet limit 2 (the code's rule
  is "at the limit", so 2 tells one silence from the limit), 1 lost message, 1
  reboot.
* `MotionSensor`: `handleOnvifEvent`, the polled motion, `publishMotion`, fall
  and reset timers and the restart. A publication is a call in flight of one of
  four handlers (a rise, a polled motion, a fall, a reset): on its way to the
  host (`sent`), which takes or refuses it, then with its answer on the way back
  (`taken`), which arrives or is lost. The calls in flight are a bag: any of them
  is taken next, any of their answers comes next, and what a handler does after
  its `await` is part of the answer. `shown` (`motion` in the sum) is what the
  host shows, `motionStates` what the watcher believes. Four histories name what
  a property excepts: `raised` (this watcher published something), `dropped` (a
  restart, or a reset the host did not acknowledge, took the safety net away),
  `late` (so did the answer to a fall that came after a later motion) and
  `overtaken` (the last acknowledged state is not known to be the last the host
  took). The next motion that arms the reset clears `dropped` and `late`.
  * `SafetyNet`: a motion shown has its reset armed, or a call in flight that is
    the reset or will arm it, unless `dropped` or `late`. A fall does not count:
    it may have been taken before the motion.
  * `NeverDeaf`: the deduplication swallows a motion only while the safety net
    stands to lower the record, unless it was dropped; and once nothing is in
    flight, only while the host shows one, unless `overtaken`. A fall answered
    before an earlier rise does leave the record at 1 with 0 shown: the reset
    that rise arms then bounds how long the sensor is deaf.
  * `MotionComesDown` (liveness): a raised sensor comes down, unless `dropped`
    or `late`.

  4 notices and 1 restart: a rise, a fall and a second rise already have their
  three calls in flight at once, with a reset armed by any of them; the fourth
  notice is the motion that is or is not swallowed afterwards.
* `SceneTrigger`: the notifications and looks of one camera. `AtPace`: no kind
  fires twice within the cooldown, and a motion never follows what the camera
  recognised, with events still unanswered or refused. Cooldown 2 on a clock of
  2, 1 restart: a kind is quiet at 0 and 1 and free at 2.

* `SmartStates`: a round, a command and the publications of one value of one
  device, the record `published` with its refresh, and the badge. The flush of a
  round and that of a command are separate calls: the host takes them in any
  order, refuses them or not, and their answers come in any order or are lost.
  `RoundShows` (action property): a round nothing interfered with leaves the
  true value shown, unless the record is `misled`, left by an answer that
  another call had overtaken or not corrected by one that was lost. `Settles`
  (liveness): value and badge end up true, the refresh repairing a misled
  record. 2 values, 1 command beside the round, one of each fault.
* `ButtonLog`: the rounds that read the log of one button, and the calls that
  publish its presses. `PressesTold`: presses are told in order and once, and
  each of those seen since the first look, but for the ones the host refused or
  the hub forgot. 4 presses for a log of 3, so that one is forgotten; one of
  each fault, 1 restart.
* `EnergyIndex`: the counter of a plug, which midnight resets, and the index
  built from it. `IndexTrue` (action property): the index Gladys shows never
  goes back, and energy is counted once, less the evenings nothing read.
  3 Wh and 2 midnights, so that a counter can be back at its last reading
  the next day; one of each fault, 1 restart.
* `SmartClient`: `getTransport`, the fallbacks and the pauses for every
  announced protocol against every mode of the device; a handshake is one
  exchange with the outcomes of all its messages. `TransportAgrees`: transport
  and announced protocol agree. `FindsProtocol` (liveness): the client is
  answered, whatever the device becomes. All announced values and modes; 2
  changes of mode, 2 dropped sessions, 2 refusals, 1 outage. Changes lead to
  TPAP only: from TPAP to another mode the client does not settle (divergence
  17).

### MotionStuck (expected violation)

`MotionSensor` alone. `events.js:526-528` disarms the reset after a fall "only
once the 0 actually LANDED", as otherwise there would be "nothing at all to
bring the sensor back down". `NetKept`: only a reset not acknowledged or a
restart leaves a motion with nothing behind it. It fails in a few steps: a fall
and the motion after it are in flight together, the host takes the fall, then
the motion; the answer to the motion arms the reset, and the answer to the fall,
which comes last, disarms it and records 0, so that the end of the motion is
ignored too (divergence 26).

### ButtonReplay (expected violation)

`ButtonLog` alone. `manager.js:482` says that "starting the integration must not
replay presses made before it"; at `manager.js:499` a log that cannot be read
passes for an empty one and sets the mark to 0, so that the next look queues
every event the hub still has. `NoReplay` fails with one failed reading.

### StreamSkew (expected violation)

`PacketsWhole`: what ffmpeg is given are whole packets. The first packet holds a
byte like its sync byte and the video starts in the middle of it: the session
takes that byte for the start of a packet, and what it gives ends within the
next one (divergence 25).

## 4. Fairness

Weak fairness is given to what the process or its timers will do: an armed
timer fires (`MotionSensor`), the loop's rounds come (`BatteryGuard`,
`OnvifSubscriptions`, `SmartStates`), a request ends by its answer or by its
timeout, which every HTTP request, socket and child process of the code has
(`LocalApi`, `SmartClient`, `OnvifClient`, `StreamCapture`, `Ptz`), a handler that was called
goes on, a pause ends. Where several ends are possible (answer, refusal,
timeout), fairness is on their disjunction, never on success. Success follows
only from the bounds on faults. The fairness of the sums is that of their
components, each under its component's guard: for the sensor and the switch, the
calls of one handler are taken or refused, and their answers come or are lost,
but no order between handlers is assumed. `ButtonLog`, `EnergyIndex`, `SceneTrigger`,
`EntryStore` and `StreamParser` promise nothing that needs any.

From the environment three things are assumed, in the liveness runs alone: a
device that went away comes back, a subscription nobody pulls expires, the host
ends its calls. No fairness is put on users, cameras' events or saved
configurations. `GateSettles` has the end of the battery guard's restrictions as
its hypothesis, not as a fairness: only while the policy is "all" do the
readings of the mask come round.

Publications to the host. Two handlers that publish await independent promises
(`events.js:866-887`, `manager.js:525-541`, `app.js:616-625`), so in
`MotionSensor`, `SmartStates` and `CameraCapture` nothing is assumed of their
order: the host takes calls in any order, and in the first two, where the caller
acts on the answer, answers come in any order too. What is assumed of the host
is that it takes or refuses each call once, and that it takes a call before its
caller is told the end of it, or never: a call whose answer was lost has been
taken. The events of `SceneTrigger`, one per kind, end in any order too. Only the
calls of a round, which `flush` awaits one after the other, are in the order it
makes them (`ButtonLog`, `EnergyIndex`).

## 5. What is proved

`tlapm` checks every proof below for all values of the constants, under the
`ASSUME` of each module: naturals for bounds, absent values distinct from
present ones, finite sets where counted, a cooldown of at least one
(`SceneTrigger`) and room for at least one press (`ButtonLog`). TLC evaluates
those assumptions in the runs. Unless said otherwise a property is not
inductive, and what is proved inductive is its conjunction with the invariants
named here.

* **`TypeCorrect`** in the eight proof modules (in `ReportsProofs` for seven
  components, in `RequestsProofs` for six): types, and the shape facts the
  types carry (in `BatteryGuard` the thresholds are percentages in order
  whatever is saved; in `CameraCapture` someone waits exactly while a capture
  is in flight; in `DetectionFeed` the watermark is set exactly once the first
  look is remembered; in `ConfigLifecycle` someone awaits the publication in
  flight, and the queued one, exactly while there is one).
* **DetectionFeed** `AtMostOnceHolds`, for any number of concurrent looks, by
  `SeenByThePoll` (what the poll reported is at or below the watermark) and
  `PushedWhileCovered`. `ReportsSinceStartHolds`: a detection that is neither
  reported nor let off is above the watermark (`Ahead`) and, once the cursor
  passed it, in the window of a look in flight (`Pending`), so that nothing is
  left when looks are answered; looks that read the whole window follow each
  other (`OneAfterAnother`), and after a sound start none of them reaches back
  into the history (`SoundStart`). The proof found divergence 24.
* **BatteryGuard** `FreshnessHolds`, **assuming `PollInterval <= MaxAge + 1`**
  (the poll interval is no longer than the age a reading is trusted for), by
  `ReadingsFit`, which bounds the three ages against each other.
  `DrainNeverIgnoredHolds` by `BandsFollow` (the bands agree with the last
  reading). `EarnedReleaseHolds` by `HeldWasRead` (a camera in a band runs on a
  battery whose level was read once), without which the policy could pass to
  "full" for want of a level.
* **OnvifSubscriptions** `AccountsCurrentHolds`, by `SetupsFit`: a setup of the
  current generation carries the current account, and one of an older
  generation is never installed. `CoveredIsWatchedHolds` by `CoverageInv`: only a
  move gives two cameras one address, and marks both (`AddressesApart`); a setup
  of the running watcher, and a client, are at the address of their camera unless
  a move marked it (`SetupsPlaced`, `ClientsPlaced`).
* **CameraCapture** `ScheduledAtPaceHolds`, by `OneCapture` and `LocatingIsDue`:
  while a scheduled capture locates the camera, no other capture can stamp it.
* **ConfigLifecycle** `PublicationsCoalesce`: `Spec => CoalescedPublication`, for
  any number of handlers. The refinement mapping is the one the run checks;
  the initial states map to initial states, and each action maps to one of
  `CoalescedWork` or to a stutter: an action that asks for a publication is
  `Ask`, the reading of the configuration is `Take`, or `AnswerAtOnce` when it
  fails or there is nothing to do, the end is `Answer`. It needs the shape facts
  of `TypeCorrect`: a batch is never empty, and nobody is served when no
  publication runs. `SmartCurrentHolds` by `InOrder`: the configurations of
  app.js, of the SMART manager and of its client are each at least the one the
  watchers were started with.
* **LocalApi** `SessionsAccountedHolds` by `QueueInv` (the log out is last and
  unique), `SessionInv` and `Budget`; `QuietHolds` by `PauseInv`.
  `SurvivesDropHolds` by `Excused`: a session renewed during a call owes to one
  fault, and one the camera does not know to one more, so that a second
  renewal needs two.
* **Reports**. The components of `MCReports` share no state: a step of the sum
  is a step of one and a stutter of the others (`ComponentSteps`), and each has
  its own invariant.
  * `SafetyNetHolds` by `Netted`, which is stronger: of the resets in flight only
    those the host has not taken count, as one taken before the motion brings
    nothing down. A motion taken and not yet answered will arm the reset, and one
    answered has armed it; only the answer to a fall, the reset itself and a
    restart disarm it, and each sets `late` or `dropped` unless the host shows 0
    or will.
  * `NeverDeafHolds` by `PendingOwned` (a pending value is that of a call still in
    flight), `RecordFalls` (a record of 1 has the safety net behind it, unless it
    was dropped) and `RecordFollows` (a record that is not what the host shows
    has an answer on its way that will correct it, unless `overtaken`); NeverDeaf
    alone is not inductive, as its second part says nothing while a call is in
    flight.
  * `TransportAgreesHolds`: while TPAP is tried on a refusal, what was
    announced before still stands for a KLAP transport (`LinkInv`), as only
    KLAP is told that third parties are refused (`RefusedByKlap`).
  * `AtPaceHolds`: each of the last events of a kind was recorded, and none
    since is older (`Recorded`).
  * `PressesToldHolds`: what is queued comes in order after all that was told,
    up to the mark (`Ordered`), and each press between the first look and the
    mark is told, queued, refused or forgotten (`AllAccounted`).
  * `RoundShowsHolds` by `Queue` (a round publishes once, in its turn),
    `Undisturbed` (what an undisturbed round knows of the device is true) and
    `Trusted` (a record that is not what Gladys shows has an answer on its way
    that will correct it, unless `misled`).
  * `IndexTrueHolds`: the counter of the plug is the last reading plus what came
    since, or that alone after midnight (`Metered`), and what a round lists or
    publishes is never behind what Gladys holds (`Forward`).
  * `NoLeakHolds`: a client has a subscription in at most one place
    (`HoldsOne`), and the camera holds at most one unknown subscription per lost
    message, a count over finite sets that needs no bound on identities or slots.

* **Requests**. The components of `MCRequests` share no state either.
  * `AccountListedHolds` by `Current`: unless a login overlapped a save, the token
    held is of the account stored, a publication that read its configuration
    read that one, and its request carries the token of it. The property is
    about one step and says nothing of the token kept between publications.
  * `NoGhostHolds` by `Truthful`: wherever a device is held (being built, read
    from Gladys, created, published), an automatic address is one of the
    camera. NoGhost alone is not inductive: the address comes back through the
    device Gladys was given earlier.
  * `OutageKeepsHolds` by `Probed` (a device about to be published has the
    sensor and the address that were known) and `Remembered` (until a restart, a
    mask published or built is one the process remembers, and the other way
    round once built).
  * `StreamReassembledHolds`, for any packets, sizes of parts and cuts, **assuming
    `Fits`**: a part, its headers and one chunk fit in the buffer
    (`constants.js:363` "A part is at most a few hundred kilobytes", the bound is
    4 MiB); without it a session could end for want of room, and nothing else is
    assumed. That a session is closed only by a part that cannot be deciphered
    is `Open`. `VideoInv` follows the bytes: the wire is laid out in parts of
    the four kinds (`Laid`), the buffer is the piece of it after the part last handled (`Kept`),
    the part that is waited for is not all there (`Waiting`), and what is kept of
    a packet starts where the last one given ended (`Aligned`). The lemmas
    underneath say where the first occurrence of a pattern in a buffer is
    (`Scanned`: the boundary of the next part and no lookalike before it, as its
    body is stepped over), and what cutting into packets gives (`Cut`,
    `Flushed`, `SyncedSkewed`). Cutting is a function of the data, by sets of
    positions and not by recursion, which is what brings it within the provers'
    reach.
  * `EntriesKeptHolds` by `StoreInv`: what an action is about to write is the
    store of this moment and its own entry (`ReadAnew`), unless the store is
    raced. `SavedAccountUsedHolds` by `ClientInv`: a client that no longer uses
    the account saved for its camera is about to be forgotten, by an action
    that has written and not yet read back (`Forgotten`). Both for any number of
    actions at once.
  * `TypeCorrect` needs, for `Ptz`, that a command awaiting a discovery has a
    client (`PtzInv`).
  * `DiscoveryMemoizedHolds`: `Spec => DiscoveryMemoized`, for any number of
    commands and clients. A command that takes its client is `Ask`, the end of a
    discovery `Learn` or `Fail`, that of a call `Finish`, a client dropped
    `Forget`; the exchange that finds the service, and what the other components
    do, are stutters. It needs `Shared`: a client knows all or nothing, and a
    discovery in flight is awaited (`Fail` would otherwise tell nobody).

Only model-checked: all liveness properties (fairness and ENABLED are out of the
prover's reach): `BackInService`, `SubscribedAgain`, `GateSettles`,
`WatchersCatchUp`, `QueueDrains`, `Recovers`, `CleansUp`, `WatchesAgain`,
`MotionComesDown`, `FindsProtocol`, `Settles`. Every safety property of the
passing runs is a theorem.

## 6. Divergences met while modelling

Places where the code, as modelled, does not do what a comment or a document
says. The properties above except them by name; `FeedCursor` shows the first,
`ButtonReplay` number 21, `StreamSkew` number 25 and `MotionStuck` number 26.

1. `tapo/events.js:1108`: the cursor moves before the read; `:1104` "only
   advanced when the detections are actually read" (run FeedCursor).
2. `tapo/events.js:654`: stop() drops reset and fall timers and publishes no 0,
   so a motion shown at a restart stays; `:15` "or the scene never re-arms".
3. `tapo/events.js:884`: the pending entry is released by comparing values, so
   with 1, 0, 1 the first answer releases the last one's; `:882` "a later
   publish that overtook this one owns the entry now". The record is written by
   each answer in turn (`:876`): a rise answered after the fall that followed it
   leaves 1 on record while 0 is shown, and motions are swallowed until the
   reset. Likewise `smart/manager.js:533-538`: the answer that comes last writes
   the record, and a value may be skipped as published until
   REFRESH_UNCHANGED_MS.
4. `tapo/events.js:926`: a refused reset leaves the record at 1, and the next
   edge is deduplicated; the comment there says the next edge is published.
5. `tapo/events.js:433`: a camera put back on the poll keeps its old watermark,
   so what ONVIF pushed fires again; `:206-209` "and fires the scene again".
6. `tapo/events.js:786`: a first look that read nothing sets the watermark to 0
   and the second one fires the history, as does a first look overtaken by
   another (`:1091`); `:14` "a first tick never fires anything".
7. `tapo/events.js:404`: what was recorded between the last look and the opening of a
   subscription is reported by neither; `:419-420` "so nothing is lost in between".
8. `tapo/constants.js:63`: a battery poll interval above half an hour makes the
   level stale; `:66` "two readings still fit inside the freshness window".
   This is the hypothesis of `FreshnessHolds`.
9. `tapo/batteryGuard.js:319`: with resume saved equal to stopAll, captures are
   refused up to five points above the resume level, against
   `gladys-assistant-integration.json:495`; `:320`: a blocked camera that goes
   silent becomes available on demand, against `:328`.
10. `tapo/onvif.js:908`: a pull answered after stop() is dispatched, against
    `:1011-1012`.
11. `tapo/events.js:628`: a camera found at another address stays covered by
    the client of the old one, against `:704-705`; `:428`: dropOnvif looks for
    the client at the new address, against `:415`.
12. `app.js:1058`: the setup that follows a saved account uses the account the
    watcher was started with, against `:1051`.
13. `tapo/events.js:602`: a device list answered after stop() still sets up
    clients, against `:658-660`.
14. `app.js:568`: the last command wins over the state of the device for good,
    against `docs/en.md:179` "works both ways"; `:270`: the gate is read before
    the camera is located and not again, against `docs/en.md:183`.
15. `app.js:149`: a PTZ client built while its device list is awaited may be
    cached after the clear with the old account, against `:1138-1139`;
    `:1141`: the publication of a saved configuration still uses the SMART
    clients of the old one, and nothing calls `reset()` (`smart/client.js:330`).
16. `smart/manager.js:333`: a refused badge is recorded as shown, against
    `README.md:178`. `tapo/localApi.js:641`: close() during a login queues no
    log out, against `events.js:664`; `:642`: the log out logs in during a
    pause, against `localApi.js:52`.
17. `smart/tpap.js:781`: the discover answer is kept, and a device that leaves
    TPAP is never detected again, against `smart/client.js:180-182`.
18. `tapo/snapshot.js:173`: an image truncated by the kill of ffmpeg is taken,
    as `:171-172` trusts the bytes over the exit code.
19. `devices.js:343`: movements disappear with an outage, and `:796` the motion
    sensor with a failing device list, against `:836-839` "only an answer from
    the camera should take a feature away"; `tapo/discovery.js:252`: a scan in
    flight answers the test that asked for a fresh one, against `app.js:792-794`.
20. `tapo/ptz.js:435`: stop() before the discovery sends nothing, against
    `:430-432`; `tapo/cloud.js:190`: a login in flight stores the token of the
    account just replaced, against `app.js:1132`.
21. `smart/manager.js:499`: a first look whose log could not be read sets the
    mark to 0, and the next one replays the log; `:482` "starting the
    integration must not replay presses made before it" (run ButtonReplay).
22. `sceneEvents.js:55-58`: a motion followed by the person of the same scene
    fires both, as only the other order is filtered, against `docs/en.md:214`
    "the plain motion that comes with it starts nothing more".
23. `app.js:850`: two entries saved at once are each written over the same
    reading of the store, and the first is lost; `:967`: a corrected address
    leaves the PTZ client of the camera on the old one, against `:965-966`
    "right away".
24. `tapo/events.js:1103`: the first full look after low-power ones reads one
    window back from now, so what the camera recorded before is never reported,
    against `:1104-1106`, which keeps the cursor during a low-power pulse because
    moving it "would skip the whole window it stayed quiet for once the camera
    comes back". `ReportsSinceStart` excepts it (`Skipped`).
25. `tapo/stream/mediaSession.js:548`: the first byte equal to the sync byte is
    taken for one, so that a video that starts within a packet which holds such
    a byte is cut in the wrong place; `:538` "Re-align the MPEG-TS byte stream
    and emit whole 188-byte packets" (run StreamSkew). `StreamReassembled` claims
    nothing of the packets then (`Recognizable`).
26. `tapo/events.js:532`: the answer to a fall disarms the reset armed when it
    comes, be it that of a later motion answered before it; `:526-528` "Only
    once the 0 actually LANDED" (run MotionStuck). `SafetyNet` and
    `MotionComesDown` except it (`late`).

## 7. What is not modelled, and why

* Conversions with no state: `smart/model.js` (but buttonValueOf), `config.js`
  (but isConfigured and resolveRtspAccount), `report.js`, XML and message
  classification in `onvif.js`, vectors and presets in `ptz.js`, names and
  filters in `cloud.js`.
* Cryptography: KLAP, securePassthrough, SPAKE2+, the stream's AES. A handshake
  is its exchanges and their outcomes.
* Real time: timers fire at any moment after they are armed, except where an
  interval matters (the battery rounds and ages, the seconds of the detection
  windows).
* More than one camera, where cameras share nothing (`MotionSensor`,
  `DetectionFeed`, `BatteryGuard`, `CameraCapture`, `LocalApi`, `SmartClient`,
  `SceneTrigger`, and one button or plug in `ButtonLog` and `EnergyIndex`).
* In a publication: the probe of the movements, the capture mode, the live view,
  the doorbell probe, models without local access.
* The description of SMART devices and the grouping of the devices of a hub.
* Start-up, which is not retried when it fails half-way (`app.js:1163`).
* The entry point, scripts and the tests.

## 8. Running it

    tlc -workers 2 -config LocalApi.cfg LocalApi.tla
    tlc -workers 2 -config Requests.cfg MCRequests.tla
    tlapm RequestsProofs.tla

`MCDetectionFeed`, `MCBatteryGuard` and `MCRequests` are run with
`DetectionFeed.cfg` (or `FeedCursor.cfg`), `BatteryGuard.cfg` and `Requests.cfg`;
`MCReports` with `Reports.cfg`; `MotionSensor` with `MotionStuck.cfg`; `ButtonLog`
with `ButtonReplay.cfg`; `StreamParser` with `StreamSkew.cfg`; the others with the cfg
of their own name. Each run takes from seconds to three and a half minutes on two
cores.
