# TuxDMX: formal model of the DMX controller

TLA+ specifications of [TuxDMX](../src/README.md), TLC configurations that
check them on small instances, and TLAPS proofs of the properties that hold for
every instance. Paths below are relative to the repository; line numbers refer
to the commit the models were written from.

    tlc -workers 4 -config DmxTransport_link.cfg MCDmxTransport
    for m in DmxTransport_proofs ReconnectBackoff LiveState_proofs \
             FixturePatch_proofs MidiDispatch_proofs MidiControl_proofs \
             AudioInput_proofs Service_proofs; do tlapm $m.tla; done

## 1. Inventory

TuxDMX is one process: an HTTP server whose handlers edit a rig of fixtures in
SQLite and set channels of DMX universes in memory, an engine whose worker
sends one universe about thirty times a second to an ENTTEC USB Pro interface,
an audio engine that drives fixtures from music and a MIDI engine that maps
controllers to channels.

| Component | State | Operations | Talks to |
|---|---|---|---|
| `EnttecDmxPro` (`src/dmx/enttec_dmx_pro.cpp`) | `status_`, `fd_`, `devices_`, preference, last known device, failure count; `mutex_`, `discoveryMutex_` | `discoverAndConnect`, `refreshDevices`, `disconnect`, `sendUniverse` with an inline reopen, setters, `status` | serial ports; called by the engine's worker, by HTTP threads and by `stop()` |
| `DmxEngine` (`src/dmx/dmx_engine.cpp`) | `running_`; reconnect fields under `transportMutex_`; `universes_`, `outputUniverse_` under `mutex_` | `start`, `stop`, `workerLoop`, `forceReconnect`, `setChannel`, `replaceUniverse`, `clearUniverse`, `setOutputUniverse` | backend; called by every handler, scene threads, audio and MIDI callbacks |
| `AppController` (`src/app/app_controller.cpp`) | scene token, reactive states, MIDI mappings and learning, input mode | `initialize`, `shutdown`, the API handlers, scene transitions, `onAudioMetrics`, `onMidiMessage` | database, engine, audio, MIDI |
| `Database` (`src/db/database.cpp`) | tables of templates, fixtures, channel values, groups, scenes, mappings, settings; one mutex | create, update, reorder, delete, capture, load; each atomic under the mutex | SQLite |
| `AudioEngine` (`src/audio/audio_engine.cpp`) | stream, device lists, pending switch, metrics, reactive flag | `start`, `stop`, `selectInputDevice`, the loop | PortAudio; ticks into `AppController` |
| `MidiEngine` (`src/midi/midi_engine.cpp`) | open inputs, callback | `start`, `stop`, dispatch | RtMidi; messages into `AppController` |
| `HttpServer` (`src/http/http_server.cpp`) | listening socket, accept thread | `start`, `stop`, one detached thread per connection | `AppController::handleRequest` |
| `Logger` (`src/logger/logger.cpp`) | file, recent lines; one mutex | open, append, list, clear, close | every thread |
| `main` (`src/main.cpp`) | stop flag | start, wait for a signal, stop | `AppController`, `HttpServer`, `Logger` |
| Null backend and factory, `utils.hpp` | none | | |
| Web UI (`web/`) | browser side | | HTTP API |

What is hard in it, and what makes each part correct:

* **Transport.** Four kinds of threads share the backend. A discovery is a long
  sequence of short critical sections with unlocked port I/O between them, so
  everything read in one section may be stale in the next. Correct means: a
  live link is never scanned over, the handle neither leaks nor points
  elsewhere than the status says, errors and retry counts tell the truth, the
  link returns after faults, a selection ends on the selected device, and
  stopping leaves the fixtures dark.
* **Live state.** Values live twice, in the database and in universe frames,
  and are written by handlers, scene threads, audio ticks, MIDI and shutdown
  with no common lock. Correct means: the two agree at rest, a blackout stays
  black, the last scene wins, a restart finds zeros.
* **Store.** Fixtures of one universe must not overlap unless that was asked
  for, sort order is a permutation, deletion and template resets cascade, and a
  failed transaction leaves nothing behind.
* **MIDI.** A message must be decoded, mapped and applied once; memory and store
  must hold the same mappings and mode although nothing is locked across both,
  and the duplicate filter must not swallow a message that matters.
* **Audio.** A selection that arrives during a switch must not be lost, the name
  of the source must be right in every tick, and no stream may leak.
* **Lifecycle.** A request arrives in any pieces and must be handled whole and
  answered; `stop()` must end the accept thread, although connections keep
  arriving, and the log must tell one story.

`PROJECT.json` lists every hazard with its line and the properties that cover
it, or why none does yet.

## 2. Plan

| Order | Module | Contents | Status |
|---|---|---|---|
| 1 | `DmxTransport` | backend, worker, device handlers, start and stop, hot-plug | done, checked and proved |
| 2 | `DmxSession` | abstract transport: sessions, retry limit, stop | done; `DmxTransport` is checked and proved to implement it |
| 3 | `ReconnectBackoff` | the arithmetic of `computeReconnectBackoffMs` | done and proved |
| 4 | `LiveState` | channel values against universe frames, scenes, blackout, reactive ticks, shutdown | done, checked and proved |
| 5 | `FixturePatch` | templates, fixtures, overlap, sort order, groups, scenes, crashes | done, checked and proved |
| 6 | `MidiDispatch`, `MidiControl` | the MIDI worker and the decoding of messages; learning, mapping, duplicate filter, restart | done, checked and proved |
| 7 | `AudioInput` | device switching, stream errors, source name, stop | done, checked and proved |
| 8 | `Service`, `Logger` | main, accept loop, connection threads, over the bounded log | done, checked and proved, `Logger` within `Service` |

`Service` is composed with `Logger` (an instance over the same variables);
`DmxTransport` implements `DmxSession`. The other modules are kept apart where
the code couples components by one call: the frame `DmxTransport` sends is any
frame, the moment `LiveState` ticks is any moment, and the controls `MidiControl`
moves are those `SetRequest` of `LiveState` moves. Every invariant and every
action property of a passing run is proved for all values of the constants. Worth doing next:
abstract specifications of the live state and of the store, proved to be
implemented as `DmxSession` is.

## 3. DmxTransport

### Correspondence

| Model | Code |
|---|---|
| `link` | `status_.connected`, `status_.endpoint`, `status_.activeDeviceId`, `status_.lastErrorStage`, `fd_`, `consecutiveWriteFailures_`; `live` says that the interface the handle was opened on is still there |
| `config` | `preferredDeviceId_`, `strictPreferredDevice_`, `writeRetryLimit_` |
| `devices`, `lastKnown` | `devices_`; `lastKnownDeviceId_`, `lastKnownEndpoint_` |
| `holder`, `disc` | owner of `discoveryMutex_` and its locals in `discoverAndConnect()` or `refreshDevices()` |
| `engine` | `running_`, `transportState_`, `reconnectAttempt_`, `nextReconnectAt_` |
| `pc`, `loc`, `job` | program counters and locals of the worker, the HTTP threads and main |
| `savedId` | setting `dmx.preferred_device_id` |
| `plugged`, `glow` | environment: the interface at each port and the frame it keeps transmitting |
| `lost`, `stopId`, `spent` | history variables and the bounds of the environment |

Each section under `mutex_`, `transportMutex_` or the database's mutex is one
action. `discoverAndConnect()` is `DiscoverBegin`, `ChooseCached`, the steps of
`ProbeStep`, `ChooseRefreshed`/`NothingToConnect`/`RefreshedProbeFailed` and
`CommitConnected`; `refreshDevices()` is `RefreshBegin`, the same `ProbeStep` and
`RefreshEnd`. `sendUniverse()` holds `mutex_` throughout, with its reopen and
second write, and is one action with four outcomes. `workerLoop()` is
`WorkerStep`; reading the status and deciding to probe are one action, because
only the worker ever sets `connected` and a `forceReconnect()` between the two
reads has the same effect as one before them. `stop()` is `StopBegin`,
`StopJoin`, up to three `StopBlackout`, `StopDisconnect`, `StopReset`.

The accept loop ends when the shutdown begins, but connection threads are
detached: a request may start its handler as long as `stop()` has not returned,
and one in progress goes on.

### Abstractions

* The bytes of frames, error texts, codes and hints, and timeouts are left out;
  an error is its stage. `transportState` of the backend's own status is left
  out, since the engine overwrites it in what it reports.
* A backoff has no length: `nextAt` is not set, in the future or past. That
  covers every base interval and every jitter. How long it may be is
  `ReconnectBackoff`.
* The frame the worker sends is any frame.
* Serial numbers are not empty and are the device ids, so the lower-casing and
  the alternative spellings `deviceIdMatches` accepts are not distinguished.
  Each interface has one port name.
* Reading and writing `fd_` without `mutex_` in `probePort()` is a data race;
  the outcomes taken are an answer from the interface behind the current handle
  and a failed probe. The reuse of the descriptor number by another file is
  left out.
* `writeBytes()` and every port operation return. `writeBytes()` retries
  `EAGAIN` without limit under `mutex_`, so a port that never drains would
  block; that is assumed not to happen.
* The `connected` flags inside `devices_` are left out: `devices()` recomputes
  them. A failing write of the setting is left out.
* Failures of a healthy port cost one of `MaxFaults`; failures of an absent
  interface are free.

### Runs

| Run | Instance | Shows |
|---|---|---|
| `link` | 2 ports, 2 interfaces, 1 HTTP thread, limits 1 and 2, 1 request, 2 hot-plugs, 1 fault; symmetry of serials | the safety properties, the proofs' invariant `IInv` (which contains `TypeOK` and implies `ConnectedHasNoBackoff`) and `ImplementsSession`, 1.8 million states |
| `liveness` | 1 port, 1 interface, lit and dark frames, 1 request, 2 hot-plugs, 1 fault | `ReturnsToService`, `StopCompletes`, `RequestsComplete`, `CleanStopGoesDark` |
| `select_race` | 2 interfaces on 2 ports | `SelectionTakesEffect` fails |

Two ports and two interfaces are what selection, swapping and scanning tell
apart: a preferred candidate and another one, before and after it in the
order of names. Two hot-plugs swap an interface. A retry limit of 2 has one
frame lost without and one with giving the link up, and both limits together
allow the limit to be lowered below the count. One fault reaches every error
path once, and failures of an unplugged interface are not counted. The proofs
make the safety properties independent of these bounds. The run `liveness` uses
one port, where a link that returns must pass through the cached candidate, a
scan, and the backoff, and one HTTP thread, which contends with the worker and
with main for `discoveryMutex_` but not with another HTTP thread; `AttemptCap` only keeps the counter finite.

### The abstract transport

`DmxSession` says what the rest of the program may rely on, in four variables:
the phase of the engine, the retry limit in force, the session (a device at an
endpoint, or none) and the frames lost since the last delivered one. A session
begins only while the engine serves, keeps its device and endpoint, ends at the
retry limit or by a disconnect, none begins once `stop()` has joined the worker,
and `stop()` leaves none.

`DmxTransport!Session` is the refinement mapping: the phase comes from where
main is, the session is `activeDeviceId` and `endpoint` while `connected`, since
a link that was given up keeps its endpoint in the status. Discoveries, scans,
hot-plugs and bookkeeping are stutters; `CommitConnected` is `Establish`, the
four outcomes of `sendUniverse()` are `Deliver`, `Lose`, `GiveUp` or a stutter.
The session keeps the *reported* device: what is behind the endpoint after an
inline reopen may be another interface (section 8).

### The backoff

`ReconnectBackoff` is `clampReconnectBaseMs()` and
`computeReconnectBackoffMs()` as functions on integers; a draw of the jitter is
any factor from 0.88 to 1.14. Nothing in it has state, so it has no run.

### Fairness

`WF` of the worker, of main and of each HTTP thread: they are threads of one
process, and no section waits for anything but a mutex that is released.
`WF` of `BackoffElapses`: time passes. `SF` of `RefreshBegin(r)`: an HTTP thread
waiting for `discoveryMutex_` gets it although the worker takes it again and
again, because the worker sleeps one frame interval (5 to 1000 ms) without it
between two probes. The accept of a request, the stop signal, faults and
hot-plugs are not fair. `ReturnsToService` asks for a link only under the
condition that a selectable interface stays plugged.

### Proofs

`DmxTransport_proofs` holds lemmas about the operators, one per action, then the
theorems that follow and the refinement, proved from the same invariant. All of
them assume only the named assumptions on the constants: ports are positive
numbers, the empty id is no serial number, thread names differ, retry limits are
positive, the dark frame is a frame, bounds are natural numbers.

The invariant `IInv` is the conjunction of

* `TypeOK`;
* `ThreadsInv`: a thread is in discovery code exactly when it owns
  `discoveryMutex_`, the worker is not running before `start()` nor after the
  join;
* `PortInv`: the port a discovery works on is a port, and a live handle is on a
  plugged one;
* `HandleInv`: with the link up nobody owns `discoveryMutex_` and the handle is
  on the endpoint; with the link down an open handle belongs to the owner and is
  on the port it works on. This is what makes the check of `connected` at the
  start of a scan stay true: only `CommitConnected` sets it, and that step needs
  `discoveryMutex_`;
* `ErrorInv`: the reported error matches the failure count, which is at most the
  number of frames lost;
* `BackoffInv`: what the worker has recorded or is about to record after a
  successful probe. Without the part about its locals `ConnectedHasNoBackoff`
  is not inductive, because bookkeeping comes after the locks are released;
* `StopInv`: from the join on, the interface remembered in `stopId` is the one
  behind the handle, and dark once the first blackout frame is out;
* `BlackoutInv`: `stop()` sends at most three frames.

| Theorem | Property |
|---|---|
| `Inductive` | `IInv` |
| `TypeCorrect` | `TypeOK` |
| `ScansOnlyWithoutLink` | `ScanLeavesLinkAlone` |
| `HandleNeverLeaks` | `NoHandleLeak` |
| `FramesGoToReportedEndpoint` | `HandleIsOnEndpoint` |
| `ErrorsMatchLosses` | `NoStaleError` |
| `BackoffOnlyWithoutLink` | `ConnectedHasNoBackoff` |
| `RetriesBeforeGiveUp` | `GivenUpOnlyAfterRetries`, an action property |
| `StopDarkens` | `CleanStopGoesDark` |
| `TransportImplementsSession` | `ImplementsSession`, the refinement |
| `BackoffFits` | no step of the backoff's computation overflows |
| `BackoffBounded` | it lasts at least the base and at most a minute |
| `BackoffGrows` | no draw of the jitter makes it shorter than the one before, up to the ceiling |

The refinement needs the invariant in three places: a discovery runs only
without a link (`HandleInv`), so its disconnects end no session; a worker at work
means that main is in the running phase (`ThreadsInv`), so `Establish` and the
worker's frames fall into it; and the failure count is at most the number of
frames lost (`ErrorInv`), so a link is not given up too early.
`TypeCorrect` and `BackoffOnlyWithoutLink` are parts of `IInv`, which the run
`link` checks as a whole.

Liveness (`ReturnsToService`, `StopCompletes`, `RequestsComplete`) is checked by
TLC only: the prover has no rule for fairness.

## 4. LiveState

### Correspondence

| Model | Code |
|---|---|
| `stored`, `enabled`, `scenes` | tables `fixture_channel_values`, `fixtures`, `scene_values` |
| `frame` | `universes_` of the engine, by channel |
| `reactive`, `token` | `reactiveMode_`, `sceneTransitionToken_` |
| `pc`, `work` | where an HTTP thread, a transition thread, the audio thread or main is in its job, and its locals |
| `want`, `contested`, `clean`, `latest` | history variables |

Every call of the database and of the engine holds their mutex for its whole
length and is one action; nothing spans two calls. A handler is a request
action followed by the loops it is made of: `StoreChannel` and `SetChannel` take
turns for each channel in `SetRequest`, `GroupRequest`,
`persistBlackoutToDatabase()` and the end of a transition; `WriteChannel` is the
loop of raw patches and the first loop of an instant recall, whose second loop
is `StoreChannel` alone; `LoadUniverse` and `ReplaceUniverse` are
`rebuildAllUniversesFromDatabase()`, which also ends enabling a fixture and
switching reactive mode off. A transition is `FadeCheck`, a pass of
`FadeChannel`, and so on until the point of time is the last one. The audio
loop is `AudioLoop`, `AudioTick` (the check of reactive mode), `TickSense` (the
lock and the snapshot), then for each fixture `TickStore` for its changed
channels and `TickSend` for the same.

The shutdown happens twice: `main()` calls `shutdown()`, and `~AppController()`
calls it again (`ShutdownAgain`). The second one looks at the values once more
and so also stores zeros over what a late request left lit after the first.

`contested` holds the channels on which two jobs overlapped, whose transition
was superseded or which were patched raw; a job that starts with a channel to
itself takes it out again. `want` is the value of the latest job on a channel.

### Abstractions

* Fixtures exist before the start and are neither created, moved nor deleted;
  they do not overlap. All their universes are known to the engine, so
  `knownUniverses()` is all of them, and the output universe is one of them.
  Changing it ends in the same rebuild as enabling a fixture.
* The values a tick chooses, and which channels it leaves alone, are arbitrary.
  The minimal interval between ticks is left out: any tick may be skipped.
* A transition is seen at `FadeSteps + 1` points of time, of which it may skip
  any but the last. A transition of length zero is `instant`.
* Calls of the database do not fail. Messages of MIDI controllers, which would
  take the same steps as requests, do not arrive (section 8) and are left out.
* A transition thread must be free for `RecallStart`: there are as many as
  requests, except in `live_play`, where a second one waits for the first.

### Runs

| Run | Instance | Shows |
|---|---|---|
| `live_edit` | 2 fixtures on 2 universes, 2 HTTP threads, 2 requests of any kind but reactive mode, any initial values | `TypeOK`, `StoreAndOutputAgree`, `LatestJobWins`, `BlackoutIsTotal`; 2.7 million states |
| `live_play` | 1 fixture of 2 channels, 1 HTTP thread, 1 transition thread, 2 requests to set, black out, enable, recall or switch reactive mode, ticks | `StoreAndOutputAgree`, `CleanShutdownSavesZeros`, `FadesEnd`, `RequestsAnswered`; 240 thousand states |
| `live_blackout` | 1 HTTP thread, 2 requests | `BlackoutStaysBlack` fails |

Two channels are what tells a loop from a single write, and one fixture each or
both on one is what tells the order of ticks. Values 0 and 1 tell dark from lit
and old from new. In `live_edit` two requests with two transition threads give
every pair of overlapping jobs; `live_play` leaves the second HTTP thread out and
overlaps a request and a transition with the audio thread and the shutdown; a third job, of the shutdown
or of a tick, takes a contested channel over again.

Fairness is `WF` of each thread, which only waits for mutexes that are released,
and `SF` of `Calm`: the audio thread reads or sleeps for a frame of sound between
two ticks, so a blackout gets `reactiveMutex_`. Requests, the stop signal and
the choice to tick are not fair.

### Proofs

`LiveState_proofs` proves the safety properties for any number of channels,
fixtures, universes, scenes, threads and requests. It assumes that channels are
numbers (the loops go through them in order) and each has a fixture and a
universe, that the names of threads differ, that the largest value and the number
of requests are natural numbers and that a transition has at least one step.

`StoreAndOutputAgree` speaks of channels nobody is writing, so it says nothing
about a job in progress. The invariant does:

* `ControlInv`: what a thread can be doing at each point of its code, and that the
  channels it still has to write are among its own;
* `ValuesInv`: a channel that is not contested is written by one job at most;
  `Progress` says, from the job's kind and place, whether the channel is stored
  (`StoredBy`) and sent (`SentBy`) already; when no job is on it, store and output
  hold the value that was wanted. For a rebuild, which is after no value, it says
  that what was loaded is still what is stored, which is why a write to the same
  channel makes it contested;
* `ShutdownInv`: once `clean` is set, requests are over, transitions are superseded
  and before their last pass, and the zeros the main thread has stored stay.

| Theorem | Property |
|---|---|
| `Inductive` | the inductive invariant |
| `TypeCorrect` | `TypeOK`; the blend of a transition stays between its ends (`BlendInRange`) |
| `Agreement` | `StoreAndOutputAgree` |
| `LatestWins` | `LatestJobWins` |
| `BlackoutReachesAll` | `BlackoutIsTotal` |
| `CleanShutdown` | `CleanShutdownSavesZeros` |

`FadesEnd` and `RequestsAnswered` are liveness and stay with TLC.
`BlackoutStaysBlack` does not hold (section 8).

## 5. FixturePatch and MidiDispatch

### The store

| Model | Code |
|---|---|
| `templates` | `fixture_templates`, `template_channels` |
| `fixtures` | `fixtures`, `fixture_channel_values` |
| `groups`, `scenes` | `fixture_groups` with its members, `scenes` with `scene_values` |
| `created` | SQLite's `AUTOINCREMENT` counter of fixtures |
| `pc`, `work` | the HTTP threads in handlers of several calls |
| `births`, `born`, `tolerated`, `torn` | history variables |

Every call of `Database` is one action, with its checks as guards: it holds
`mutex_` and either has one statement that changes the store or a transaction
around them, so that one that fails leaves the tables as they were.
`addTemplateChannel()` has two statements and no transaction:
`CrashInAddTemplateChannel` is a crash between them, `AddTemplateChannelFails` a
failure of the second, which returns 0 and leaves the channel without its
footprint. A crash elsewhere falls between two calls. `Restart` is `initialize()`
with its normalisation of the sort order and the repair of the Mira Dye template.

Numbers in requests are any int (`Ints`), negative ones too: nothing limits the
index of a channel or the channel count of a fixture. SQLite computes with 64 bits
and cannot overflow (`Last` in the overlap query), but `createFixture()` computes the
end address in an `int`, which overflows for a huge count. `EndOf` says what it
may then be: the sum wrapped around, or the sum itself, since signed overflow is
undefined and a compiler may compare without it. A wrapped end passes the check
against 512 and the overlap query alike, and the fixture is stored.

Setting a kind of channel in a group is `GroupRequest`, `GroupFixtures`,
`GroupTemplates` and a `WriteValue` for each channel; an instant recall is
`RecallRequest`, `RecallLoad` and `WriteValue`. Both work from copies that
other threads make stale, and the writes go by fixture id.

Abstractions: names stand for the ids of templates, groups and scenes, and
renaming is left out. A scene deleted and created again under its name between
the two calls of a recall is recalled in the model; the code finds nothing.
Value ranges, descriptions, transition times, MIDI mappings and settings are left
out. A failed statement rolls its transaction back, which SQLite promises, and
so is no step. A statement that only reads is taken to succeed: those of
`createFixture()` for the sort order and the overlap go on without an answer when
they fail while they run. A channel count so large that its values
do not fit in memory ends the process with an uncaught exception, which is
`CrashBetweenCalls`. What the calls do to the output is in `LiveState`.

### The MIDI worker

`MidiDispatch` is the loop of the RtMidi build: `Refresh` opens the inputs when
they have changed and drops what the old handles received, `Read` drains them
under `stateMutex_`, `Dispatch` decodes what was read for the callback. `queue`
is what RtMidi keeps of an open input. `Message` is `dispatchRawMessage()` with
the bytes as numbers, since its clamping of them is what decides.

### Runs

| Run | Instance | Shows |
|---|---|---|
| `patch` | 3 templates with channels of indices 0 to 2 and of one kind, universes 0 to 2 of 3 addresses, an int of up to 4, up to 3 fixtures, 1 group, 1 scene, 1 thread with handlers of several calls, 4 calls or crashes | `TypeOK`, `SortOrderIsNumbering`, `OthersKeepTheirOrder`, `OverlapsAreTolerated`, `ReferencesExist`, `WritesReachTheirFixture`, `FootprintIsLastChannel`; 2.6 million states |
| `midi` | 1 input, a control change, a note on and a note off, 2 messages, 1 hot-plug | `MessagesAreHeard` fails |

Four calls start both from an empty rig and from one with two fixtures that are
grouped and captured: enough to create, reorder, delete and create again, or
to request a recall, delete the fixture and create another before its writes.
Three addresses hold two fixtures side by side, on top of each other, and one
that would pass the end. With ints up to 4, a fixture of 3 channels at address 3
has an end that is no int. Index 0 is a channel that no fixture has. One kind of channel makes a handler
write all the channels of a group, the most it can get wrong. Universe 0 is one that is refused. One thread with a
handler in progress is enough for stale lists, since all other requests are
single actions.

* `SortOrderIsNumbering`, `OthersKeepTheirOrder`: the sort order stays a numbering
  from 1, and creating, deleting and restarting keep the order of the rest.
* `OverlapsAreTolerated`: two enabled fixtures share an address only if the client
  asked for it or one of them was disabled when the other was created. Enabling
  does not look at overlaps, so the second case is real; no document rules it out.
  The exception is a later fixture whose end overflows: it does get past both
  checks (section 8). Without the exception TLC finds the overlap.
* `ReferencesExist`: deletions leave nothing behind in groups and scenes.
* `WritesReachTheirFixture`: a stale list never leads to a write to another
  fixture, because ids are not given twice.
* `FootprintIsLastChannel`: only a crash inside `addTemplateChannel()`, or a failure
  of its second statement, leaves a template whose footprint is too small, and
  startup repairs only Mira Dye.

### Proofs

`FixturePatch_proofs` proves the properties for any number of templates, channels,
fixtures, groups, scenes and threads, any size of a universe and any number of
crashes. It assumes that the indices, counts and universes of requests are ints of
any sign, that an int holds the last address of a universe, that the bounds are
natural numbers, and that the two seeded templates differ.

The properties are the parts of the invariant, with what they need of each other:

* `TemplatesInv`: a footprint is at most the last channel, and equal to it unless
  the template is in `torn`; the first half is needed for a channel added after a
  crash;
* `FixturesInv`: ids come from the counter, addresses end inside the universe or
  beyond any int, and there is a value for each channel;
* `OrderInv`: the sort orders are different numbers from 1 to the number of
  fixtures. That they are *all* of those is `NumberingIsOnto`, and that renumbering
  gives such numbers in the same order is `NormalizedNumbers`;
* `OverlapInv`: any two fixtures that overlap are in `tolerated`, enabled or not,
  since enabling checks nothing, or the later one ends beyond any int; the overlap
  query is right for an end that did not overflow;
* `ReferencesInv`: groups and scenes name rows that exist;
* `CountersInv`, `HandlersInv`: an id is given once, so what a handler listed, and
  every write it still has to do, names the fixture that was listed.

| Theorem | Property |
|---|---|
| `Inductive` | the inductive invariant |
| `TypeCorrect` | `TypeOK` |
| `Numbering` | `SortOrderIsNumbering` |
| `Overlaps` | `OverlapsAreTolerated` |
| `References` | `ReferencesExist` |
| `WritesReach` | `WritesReachTheirFixture` |
| `Footprint` | `FootprintIsLastChannel` |
| `OrderIsKept` | `OthersKeepTheirOrder`, an action property |

That a finite set of numbers has a largest element (`LargestExists`) is induction
over data, which the prover does not do with the library's theorems; it is proved
by a smallest set without one, from the well-foundedness of a relation.

`MidiDispatch_proofs` says how far the failure of `MessagesAreHeard` goes. The
theorems assume that messages are sequences of bytes, of any length, and nothing
else. `NothingLostBeforeDecoding`: what is pending is always the end of what was
read, so up to the decoder nothing is lost or reordered, also across hot-plugs and
`stop()`. `NothingIsHeard`: the list of messages given to the callback stays empty,
for any messages at all, because no status byte up to 127 has a command
(`NothingDecoded`). Both are parts of one inductive invariant, with the types of the
queues.

## 6. AudioInput and MidiControl

### Audio input

| Model | Code |
|---|---|
| `known`, `selected`, `pending`, `stream` | `inputDevices_` with the default id, `selectedInputDeviceId_`, `deviceSwitchPending_`, `stream_` with `activeInputDeviceId_`, all under `audioDeviceMutex_` |
| `backend` | `backendName_` under `backendMutex_`: what the ticks take for the source |
| `pc`, `loc` | where the worker and `stop()` are; the stream being closed or opened, why, and `hadAudioInput` |
| `streams`, `present` | PortAudio: open streams; the devices it can open |

`InitPortAudio` to `InitNamed` are `initPortAudio()`;
`openPortAudioStreamForSelectedDevice()` is `Detach`, `CloseStream`,
`ChooseDevice`, `OpenStream` and `CommitStream`, or a failure; `NameDevice` and
`NameFailure` are the names its callers set afterwards, under the other mutex.
`Loop`, `TakeSwitch`, `ReadInput`, `ReadFails`, `Tick` and `Callback` are one
iteration of `loop()`; `SelectInputDevice` and `SetReactiveMode` are requests,
which are detached and may come after `stop()`.

The samples and their analysis are left out: a tick had input or it had not. The
periodic refresh of the device list may happen in any iteration.

### MIDI mapping

| Model | Code |
|---|---|
| `mode`, `learning`, `mappings`, `applied` | `midiInputMode_`, `midiLearningControlId_`, `midiMappings_`, `midiLastAppliedValues_` under `midiMutex_` |
| `stored` | table `midi_mappings`, setting of the input mode |
| `level` | value of the fixture channel a control stands for |
| `pc`, `loc`, `job` | the MIDI worker inside `onMidiMessage()`; what each HTTP thread still has to do in memory |
| `raced`, `asked`, `moved` | history variables |

Sections under `midiMutex_` and calls of the store are one action each and
nothing spans the two: learning is `ReceiveLearning`, `StoreMapping`,
`CommitMapping`; clearing is `DeleteMapping`, `EraseMapping`; a change of mode is
`StoreMode`, `SetMode`. A message for mapped controls is `ReceiveMapped` and then
`SkipRepeated`, or `NoteValue` and `MoveControl`, for each. `Restart` is the end
of the process at any point and the `initialize()` of the next one.

Messages are taken as decoded, which is what the CoreMIDI build delivers; in the
RtMidi build none arrives (section 8). A control is one fixture channel; those of
groups, scenes and the reactive mode, which call the handlers of `LiveState`, are
left out. Validation of input modes and control ids is left out: only valid ones
are sent.

### Runs

| Run | Instance | Shows |
|---|---|---|
| `audio` | 2 devices, 3 requests, 1 change of the devices, 2 faults | `TypeOK`, `SelectionApplied`, `TickSourceIsNamed`, `NoStreamLeak`, `SelectionSettles`; 360 thousand states |
| `control` | 2 controls, 2 inputs, 1 kind of message with 2 values, 2 HTTP threads, 4 messages, 4 requests, 2 failing statements or restarts | `TypeOK`, `RestartKeepsMidi`, `MessageMovesControls`; 1.3 million states |

Three requests are two selections that overlap one switch, and reactive mode,
which ticks need. Two faults fail both the open that was selected and the one
before it, or an open and a read. Four messages learn a control, use it, learn it
again and use it again; two controls on one message tell its steps apart, and two
inputs make the mode matter. Four requests are learning twice and clearing or
changing the mode twice, by two threads at once.

* `SelectionApplied`, `SelectionSettles`: the pending flag is cleared *before* the
  selection is read, so a selection during a switch leads to another one.
* `TickSourceIsNamed`: stream and name are set under different mutexes, but by
  the thread that ticks, and each failure names itself before the next tick.
* `RestartKeepsMidi` excepts what the code does not order: a control that is
  cleared while a message is being stored as its mapping may be mapped in memory
  and not in the store, or the reverse, and of two changes of the mode at once
  one may be stored and the other in force. `raced` holds exactly those.
* `MessageMovesControls`: repeated values are skipped, so a control the web
  interface moved in between stays there; `moved` holds those. Otherwise the
  filter swallows nothing, also across learning and clearing.

`SelectionSettles` assumes `WF` of the worker: a blocking read of PortAudio
returns. Selections and faults are not fair. The run `control` has only safety
properties.

### Proofs

`AudioInput_proofs` assumes only that the two constants that stand for no stream and
for the default selection are no devices (-2 and -1 in the code,
`src/audio/audio_engine.cpp:15-16`) and that the bounds are natural numbers.
`NoStreamLeak` needs to know, between any two sections, who has the stream:
`StreamInv` counts the published one, the one being opened and the one being
closed, and says at which places there is none. `ThreadsInv` orders the worker and
`stop()` by the join, `NamesInv` ties the name of the backend to the stream
wherever a tick can read both, and `SelectionInv` keeps what the worker is opening
tied to the selection while the flag is clear.

`MidiControl_proofs` needs no assumption on the constants. `MappingsInv`
says of each control that is not in `raced` what is on its way between store and
memory: not learned and cleared at once, and memory equals the store unless one of
the two is in progress. `ModeInv` is the same for the mode, `ValuesInv` for the last
applied value and the level of each control, with the exception of the one that is
being moved.

| Module | Theorem | Property |
|---|---|---|
| `AudioInput_proofs` | `Inductive`, `TypeCorrect` | the inductive invariant, `TypeOK` |
| | `SelectionIsApplied` | `SelectionApplied` |
| | `TickSource` | `TickSourceIsNamed` |
| | `NoLeak` | `NoStreamLeak` |
| `MidiControl_proofs` | `Inductive`, `TypeCorrect` | the inductive invariant, `TypeOK` |
| | `RestartKeeps` | `RestartKeepsMidi` |
| | `MessagesMove` | `MessageMovesControls` |

`SelectionSettles` is liveness and stays with TLC.

## 7. Service and Logger

| Model | Code |
|---|---|
| `pcMain` | `main()`, with `HttpServer::start()` and `stop()` step by step |
| `pcAccept`, `running`, `socket` | `acceptLoop()`, `running_`, `listenSocket_` |
| `conn` | the detached thread of each connection and what it has received |
| `wire` | the client: what its header declares, what it sends, whether it left |
| `killed` | the process ended by `SIGPIPE` |
| `fileOpen`, `file`, `recent` | `gLogFile`, `gRecentLogs` under `gLogMutex` |
| `late`, `written`, `cleared` | history variables |

`Logger` is an instance over the variables of `Service`: whoever logs takes a step
`Log!LogMessage`. A request is counted in units; the run gives the header,
the bodies, the buffer and the limit small sizes. `Receive` takes any piece that
has arrived, `AfterReceive` is the test at the end of `receiveHttpRequest()`'s
loop. A header may turn out malformed in any request. `declares` is a
`Content-Length` after its conversion to a `size_t`, apart from what the client
really sends; `Expected` adds it to the header modulo the number of `size_t` values,
and `Wraps` says that the sum does not fit. What was received is discarded with the
locals that hold it (`Discarding`).

The operating system is the environment: connections queue until accepted,
`close()` of a listening socket does not end an `accept()` that waits on it, as on
Linux, and a `send()` to a client that left may raise `SIGPIPE`, which nothing
handles.

| Run | Instance | Shows |
|---|---|---|
| `service` | 2 connections, a header of 1 unit, a `size_t` of 8 values, lengths of 2 and of 7, bodies of 0 and of 3, a limit of 2, a buffer of 2, 2 recent lines, 1 fault | `TypeOK`, `BodyIsWhole`, `OneLateConnection`, `RecentIsTailOfLog`, `RequestsAnswered`, `StopsWhenContacted`; 733 thousand states |
| `stop` | 1 connection | `StopReturns` fails |

The sizes make a header arrive alone or with a part of the body, a request end
beyond the limit with its last piece, be cut off by the limit, or never be completed, a
client send more than it declared or leave in the middle, and the buffer overshoot the
limit. A length of 7 and a header of 1 wrap to a total of 0: the handler runs with what came
with the header, as it does for `Content-Length: -1`. Two
connections are one that is served while the other arrives during `stop()`. With
up to four lines logged, a list of two is trimmed, and trimmed again after a
clear. One fault is a failing start, a failing accept or a fatal `send()`.

Fairness is `WF` of the main thread's steps after the stop signal, of the accept
thread and of each connection thread. Nobody has to connect, to send or to
leave: `RequestsAnswered` is about requests that are complete or whose client
left, since a client that sends half a request and stays keeps its thread for
good. `StopsWhenContacted` says when the shutdown does go on: once somebody
connects. Both configurations have `CHECK_DEADLOCK FALSE`, because the system
really stops: `stop()` waits for the accept thread, which waits for a connection
that may never come.

### Proofs

`Service_proofs` assumes that a header, the limit and the buffer are at least one
unit, that a `size_t` holds the header and any request below the limit with a buffer
more, that lengths are values of a `size_t`, and that bodies and bounds are natural
numbers.

`ConnInv` says that a connection that goes on receiving is below the limit, so that
one more piece exceeds it by less than the buffer, and that a connection handled
has a complete header and, below the limit, all that is expected; unless the sum
wraps (`SmallRemainder` is the arithmetic), that is all that was declared.
`AcceptInv` adds to `OneLateConnection`
that an accept thread that took a late connection is about to look at `running_`.
`LogInv` states the list of recent lines as an equation: it is the newest
`MaxRecent` lines of those logged since the last clear. `RecentIsTailOfLog`
then rests on lemmas about the newest lines of a sequence, of the newest lines
(`NewestOfNewest`) and after an append (`NewestAppend`).

| Theorem | Property |
|---|---|
| `Inductive` | the inductive invariant |
| `TypeCorrect` | `TypeOK` |
| `BodyWhole` | `BodyIsWhole` |
| `OneLate` | `OneLateConnection` |
| `RecentIsTail` | `RecentIsTailOfLog`, a property of `Logger` within `Service` |

`RequestsAnswered` and `StopsWhenContacted` are liveness and stay with TLC;
`StopReturns` does not hold (section 8).

## 8. Where code and documentation disagree

Shown by runs:

* A selection during a discovery is overtaken (`select_race`): the discovery
  connects by the preference it read before and nothing selects again while the
  link is up. `tests/test_dmx_engine.cpp:283-290` expects the selected device.
* A panic blackout does not stop a scene transition in progress
  (`live_blackout`), against `README.md:279`. The same property fails for a tick
  that has passed the check of reactive mode before the blackout.
* The MIDI decoder clamps the status byte to 127, takes the command 0x70 from it
  and drops every message (`midi`), against `README.md:307`. With the status byte
  left as it is, the property holds.
* `stop()` hangs until the next connection (`stop`), against `main.cpp:111`; the
  fixtures are blacked out only after that. An open web interface, which polls,
  hides it.

Known limits of the properties above, which they or the history variables except:

* The inline reopen keeps the id of the interface that was there before, so after
  a swap on one port the status names a device that is gone
  (`docs/development/dmx-backends.md:38`). `HandleIsOnEndpoint` and
  `ImplementsSession` speak of the reported device.
* Shutdown leaves an interface on its last frame when the link is down at that
  moment, or cut off by a late request: `CleanStopGoesDark` excepts it.
* A superseded transition finishes its pass, and after its last pass stores its
  values, over those of the newer scene (`README.md:292`): `contested` excepts it.
* Two requests that set one channel may leave the store and the output apart, a
  channel set during a rebuild may be lost from the output, and one that was set
  while a blackout took its snapshot may stay lit: these are jobs that overlap on a
  channel, which `contested` excepts. What `StoreAndOutputAgree`, `LatestJobWins` and
  `BlackoutIsTotal` show is that no *other* channel suffers from them.
* A recall or a transition that lands during shutdown may leave lit values in the
  database (`README.md:80`), although the second shutdown by the destructor
  catches those that end before it: `CleanShutdownSavesZeros` excepts them.
* A learning that was cancelled or moved to another control while its message was
  being stored takes effect all the same, in memory and in the store alike
  (`app_controller.cpp:1728`); no property is about it.
* A fixture created with a channel count near the largest int has an end address
  that overflows (`database.cpp:747`): it is stored although it ends beyond the
  universe and overlaps others. `TypeOK` and `OverlapsAreTolerated` except it; it is
  then found by the overlap query, which computes with 64 bits, for later fixtures.
* A channel with an index of 0 or less is stored in a template but is in no fixture,
  and does not count for the footprint.
* A `Content-Length` near the largest `size_t`, which is what a negative one becomes,
  wraps the expected total (`http_server.cpp:166`), and the handler gets a body that
  is not complete: `BodyIsWhole` excepts it.

## 9. Not modelled

* The Windows, FTDI and CoreMIDI builds: other code behind the same interfaces,
  which the POSIX and RtMidi builds stand for.
* The bytes of the ENTTEC protocol, static files, routing and JSON: data without
  state.
* The analysis of samples and the choice of values by the music: floating-point
  code that neither tool evaluates; their results are arbitrary values.
* The persistence of the transport settings, whose handler puts the values in
  force before it stores them, and a failure of that statement.
* MIDI controls of groups, scenes and the reactive mode.
* The null backend, the web interface and the scripts.
* A `writeBytes()` that never returns: an interface that stops draining would
  block its mutex and everything behind it; the models take every write to end.

## 10. What is proved and what is only checked

Every invariant and every action property of a passing run is a theorem, for all
values of the constants that satisfy the named assumptions; so is the refinement
of `DmxSession`. Each inductive invariant was checked by TLC on the instance of its
component's run, or a smaller one where its quantifiers are expensive, before it was
first proved.

Only model-checked, on the instances of the runs:

* the eight liveness properties: `ReturnsToService`, `StopCompletes`,
  `RequestsComplete`, `FadesEnd`, `RequestsAnswered` of `LiveState` and of `Service`,
  `SelectionSettles`, `StopsWhenContacted`. They follow from fairness, and the prover
  has neither a rule for it nor `ENABLED`;
* the four violations of section 8, which are single behaviours.

The proofs asked little of the models. `Rows` and `Matching` of `FixturePatch` filter
pairs instead of binding their parts, and `AudioInput` and `Service` state as
assumptions that the bounds are natural numbers and that the absence of a device is
not a device.
