---------------------------- MODULE DmxTransport ----------------------------
(***************************************************************************)
(* The DMX output transport of TuxDMX: the ENTTEC USB Pro backend          *)
(* (src/dmx/enttec_dmx_pro.cpp, POSIX build), the engine's worker thread   *)
(* that drives it (src/dmx/dmx_engine.cpp), the HTTP connection threads    *)
(* that reconfigure it (handlers /api/dmx/... of app_controller.cpp) and   *)
(* the main thread that starts it and shuts it down.                       *)
(*                                                                         *)
(* Two mutexes order the threads.  discoveryMutex_ is held for a whole     *)
(* discovery or scan: it is the variable holder.  mutex_ is held only for  *)
(* short sections: each of them is one action, as is each section under    *)
(* the engine's transportMutex_.  Port I/O is done between the sections.   *)
(*                                                                         *)
(* The environment plugs and unplugs interfaces and makes port operations  *)
(* fail; MaxPlugs, MaxFaults and MaxRequests bound how often.              *)
(***************************************************************************)
EXTENDS Integers, Sequences, FiniteSets

CONSTANTS
  Ports,        \* candidate serial ports, numbered in the order of their names
  Serials,      \* serial numbers of the interfaces; also their device ids
  NoId,         \* the empty device id: no device, or automatic selection
  Requesters,   \* HTTP connection threads
  RetryLimits,  \* values of the write retry limit
  Frames,       \* contents of a universe frame
  Dark,         \* the all-zero frame
  AttemptCap,   \* reconnect attempts are counted up to here
  MaxRequests,  \* bound on the requests of the HTTP threads
  MaxPlugs,     \* bound on hot-plug events
  MaxFaults     \* bound on failed operations of a healthy port

Worker == "worker"
Main   == "main"
Nobody == "nobody"

ASSUME PortsAssumption == Ports \subseteq Nat \ {0}
ASSUME NoIdAssumption == NoId \notin Serials
ASSUME ThreadsAssumption == Requesters \cap {Worker, Main, Nobody} = {}
ASSUME RetryLimitsAssumption == RetryLimits \subseteq Nat \ {0}
ASSUME FramesAssumption == Dark \in Frames
ASSUME BoundsAssumption ==
  /\ AttemptCap \in Nat \ {0}
  /\ MaxRequests \in Nat
  /\ MaxPlugs \in Nat
  /\ MaxFaults \in Nat

NoPort == 0
Ids == Serials \cup {NoId}
Ends == Ports \cup {NoPort}
Threads == Requesters \cup {Worker, Main}
BlackoutFrames == 3

VARIABLES
  link,      \* backend under mutex_: status_, fd_, consecutiveWriteFailures_
  config,    \* backend under mutex_: preferredDeviceId_, strictPreferredDevice_, writeRetryLimit_
  devices,   \* backend under mutex_: devices_, the cached candidate list
  lastKnown, \* backend under mutex_: lastKnownDeviceId_ and lastKnownEndpoint_
  holder,    \* the thread that holds discoveryMutex_
  disc,      \* locals of the discovery in progress
  engine,    \* engine: running_ and the fields under transportMutex_
  pc,        \* where each thread is
  loc,       \* worker locals: result of the backend call, status() after it
  job,       \* per HTTP thread: the device id its request still has to save
  blackouts, \* stop(): blackout frames sent so far
  savedId,   \* setting dmx.preferred_device_id in the database
  plugged,   \* environment: interface behind each port
  glow,      \* environment: frame each interface keeps transmitting
  spent,     \* environment: requests, hot-plugs and faults so far
  lost,      \* history: frames lost since the last delivered one or connect
  stopId     \* history: interface that was being driven when stop() took over

vars == <<link, config, devices, lastKnown, holder, disc, engine, pc, loc, job,
          blackouts, savedId, plugged, glow, spent, lost, stopId>>

-----------------------------------------------------------------------------
(***************************************************************************)
(* Types                                                                   *)
(***************************************************************************)

Device == [serial : Serials, port : Ports]

Link == [connected : BOOLEAN, fd : Ends, live : BOOLEAN, endpoint : Ends,
         active : Ids, failures : Nat,
         stage : {"", "scan", "selection", "probe", "write"}]

Disc == [mode : {"connect", "refresh"}, phase : {"cached", "scan", "refreshed"},
         port : Ends, serial : Ids, preferred : Ids, strict : BOOLEAN,
         todo : SUBSET Ports, found : Seq(Device)]

Engine == [running : BOOLEAN, attempt : 0..AttemptCap,
           state : {"disconnected", "probing", "connected", "degraded"},
           nextAt : {"none", "future", "past"}]

WorkerPc == {"off", "loop", "probing", "probeStatus", "probeNote",
             "send", "sendStatus", "sendNote", "exited"}

\* Steps of discoverAndConnect() and refreshDevices() with discoveryMutex_ held.
DiscoveryPc == {"choose", "scan", "next", "open", "query", "drop", "found",
                "failed", "scanned", "commit"}

RequesterPc == {"idle", "disconnect", "reset", "refresh", "persist"}

MainPc == {"refresh", "start", "running", "join", "blackout", "close", "final",
           "done"}

-----------------------------------------------------------------------------
(***************************************************************************)
(* Helpers                                                                 *)
(***************************************************************************)

Goto(t, from, to) == pc[t] = from /\ pc' = [pc EXCEPT ![t] = to]

LinkDown == [connected |-> FALSE, fd |-> NoPort, live |-> FALSE,
             endpoint |-> NoPort, active |-> NoId, failures |-> 0, stage |-> ""]

\* The handle is open and the interface behind it is still the one it was
\* opened on: writes to it reach an interface.
Writable == link.fd # NoPort /\ link.live

\* disconnect(): closes the handle and clears the status, but not the last
\* error nor the candidate list.  Safe to call at any time.
Disconnect == link' = [LinkDown EXCEPT !.stage = link.stage]

\* The fields start(), stop() and forceReconnect() reset under transportMutex_.
EngineReset(e) == [e EXCEPT !.state = "disconnected", !.attempt = 0, !.nextAt = "none"]

\* ++reconnectAttempt_ and the backoff until the next probe.
Backoff(e) ==
  [e EXCEPT !.attempt = IF @ < AttemptCap THEN @ + 1 ELSE @, !.nextAt = "future"]

Faulty(n) ==
  /\ spent.faults + n <= MaxFaults
  /\ spent' = [spent EXCEPT !.faults = @ + n]

-----------------------------------------------------------------------------
(***************************************************************************)
(* Device selection: indices into the candidate list, at most one          *)
(***************************************************************************)

First(I) == {i \in I : \A j \in I : i <= j}

WithSerial(devs, s) == {i \in DOMAIN devs : devs[i].serial = s}

AtPort(devs, p) == {i \in DOMAIN devs : devs[i].port = p}

\* selectDevice: the preferred device; failing that nothing in strict mode;
\* otherwise the last known device, whatever is at the last known endpoint,
\* or the first candidate.
Select(devs, preferred, strict) ==
  LET fallback == IF WithSerial(devs, lastKnown.serial) # {}
                  THEN WithSerial(devs, lastKnown.serial)
                  ELSE IF AtPort(devs, lastKnown.port) # {}
                  THEN AtPort(devs, lastKnown.port)
                  ELSE DOMAIN devs
  IN  First(IF preferred = NoId THEN fallback
            ELSE IF WithSerial(devs, preferred) # {} THEN WithSerial(devs, preferred)
            ELSE IF strict THEN {} ELSE fallback)

-----------------------------------------------------------------------------
(***************************************************************************)
(* Discovery: the thread t holds discoveryMutex_                           *)
(***************************************************************************)

NoDisc == [mode |-> "refresh", phase |-> "scan", port |-> NoPort, serial |-> NoId,
           preferred |-> NoId, strict |-> FALSE, todo |-> {}, found |-> <<>>]

\* discoverAndConnect() takes discoveryMutex_ and returns at once when the link
\* is up already.
DiscoverBegin ==
  /\ holder = Nobody
  /\ Goto(Worker, "probing", IF link.connected THEN "probeStatus" ELSE "choose")
  /\ holder' = IF link.connected THEN Nobody ELSE Worker
  /\ loc' = [loc EXCEPT !.ok = link.connected]
  /\ UNCHANGED <<link, config, devices, lastKnown, disc, engine, job, blackouts,
                 savedId, plugged, glow, spent, lost, stopId>>

\* Snapshot of the preference, then selection among the cached candidates: a
\* match is probed first, without a match the ports are scanned.
ChooseCached ==
  LET chosen == Select(devices, config.preferred, config.strict)
  IN  /\ Goto(Worker, "choose", IF chosen = {} THEN "scan" ELSE "open")
      /\ disc' \in {[NoDisc EXCEPT !.mode = "connect", !.preferred = config.preferred,
                                   !.strict = config.strict,
                                   !.phase = IF chosen = {} THEN "scan" ELSE "cached",
                                   !.port = p] :
                      p \in IF chosen = {} THEN {NoPort}
                            ELSE {devices[i].port : i \in chosen}}
      /\ UNCHANGED <<link, config, devices, lastKnown, holder, engine, loc, job, blackouts,
                     savedId, plugged, glow, spent, lost, stopId>>

\* Where the caller of refreshDevices() goes on.
AfterRefresh(t) == IF t = Main THEN "start" ELSE "persist"

\* Mutants of refreshDevices(): it does not wait for discoveryMutex_, it scans
\* without looking at the link.
RefreshBeginUnlocked(t) ==
  /\ Goto(t, "refresh", IF link.connected THEN AfterRefresh(t) ELSE "scan")
  /\ holder' = IF link.connected THEN holder ELSE t
  /\ disc' = NoDisc
  /\ UNCHANGED <<link, config, devices, lastKnown, engine, loc, job, blackouts,
                 savedId, plugged, glow, spent, lost, stopId>>

RefreshBeginBlindly(t) ==
  /\ holder = Nobody
  /\ Goto(t, "refresh", "scan")
  /\ holder' = t
  /\ disc' = NoDisc
  /\ UNCHANGED <<link, config, devices, lastKnown, engine, loc, job, blackouts,
                 savedId, plugged, glow, spent, lost, stopId>>

\* refreshDevices() takes discoveryMutex_ and leaves a live link alone.
RefreshBegin(t) ==
  /\ holder = Nobody
  /\ Goto(t, "refresh", IF link.connected THEN AfterRefresh(t) ELSE "scan")
  /\ holder' = IF link.connected THEN Nobody ELSE t
  /\ disc' = NoDisc
  /\ UNCHANGED <<link, config, devices, lastKnown, engine, loc, job, blackouts,
                 savedId, plugged, glow, spent, lost, stopId>>

\* refreshDevicesUnlocked(): enumerate the candidate ports.  Without any the
\* candidate list is emptied at once.
ScanBegin(t) ==
  LET ports == {p \in Ports : plugged[p] # NoId}
  IN  /\ Goto(t, "scan", IF ports = {} THEN "scanned" ELSE "next")
      /\ devices' = IF ports = {} THEN <<>> ELSE devices
      /\ disc' = [disc EXCEPT !.phase = "scan", !.todo = ports, !.found = <<>>]
      /\ UNCHANGED <<link, config, lastKnown, holder, engine, loc, job, blackouts,
                     savedId, plugged, glow, spent, lost, stopId>>

\* The candidate ports are probed in the order of their names.
ScanNext(t) ==
  /\ Goto(t, "next", "open")
  /\ \E p \in First(disc.todo) : disc' = [disc EXCEPT !.port = p]
  /\ UNCHANGED <<link, config, devices, lastKnown, holder, engine, loc, job, blackouts,
                 savedId, plugged, glow, spent, lost, stopId>>

ScanEnd(t) ==
  /\ disc.todo = {}
  /\ Goto(t, "next", "scanned")
  /\ devices' = disc.found
  /\ UNCHANGED <<link, config, lastKnown, holder, disc, engine, loc, job, blackouts,
                 savedId, plugged, glow, spent, lost, stopId>>

\* probePort(): a port opens when an interface is there and no handle of ours
\* holds it exclusively; the handle then replaces fd_ under mutex_.
Openable(p) == plugged[p] # NoId /\ ~(link.fd = p /\ link.live)

OpenPort(t) ==
  /\ Goto(t, "open", "query")
  /\ Openable(disc.port)
  /\ link' = [link EXCEPT !.fd = disc.port, !.live = TRUE]
  /\ UNCHANGED <<config, devices, lastKnown, holder, disc, engine, loc, job, blackouts,
                 savedId, plugged, glow, spent, lost, stopId>>

OpenFails(t) ==
  /\ Goto(t, "open", "failed")
  /\ Faulty(IF Openable(disc.port) THEN 1 ELSE 0)
  /\ UNCHANGED <<link, config, devices, lastKnown, holder, disc, engine, loc, job,
                 blackouts, savedId, plugged, glow, lost, stopId>>

\* The serial request, written and answered without mutex_ on whatever fd_ is
\* at that time.
QueryAnswered(t) ==
  /\ Writable
  /\ Goto(t, "query", IF disc.phase = "scan" THEN "found" ELSE "commit")
  /\ disc' = [disc EXCEPT !.serial = plugged[link.fd]]
  /\ UNCHANGED <<link, config, devices, lastKnown, holder, engine, loc, job, blackouts,
                 savedId, plugged, glow, spent, lost, stopId>>

QueryFails(t) ==
  /\ Faulty(IF Writable THEN 1 ELSE 0)
  /\ Goto(t, "query", "drop")
  /\ UNCHANGED <<link, config, devices, lastKnown, holder, disc, engine, loc, job,
                 blackouts, savedId, plugged, glow, lost, stopId>>

\* Mutant: the failed probe does not disconnect().
QueryDropKeepsHandle(t) ==
  /\ Goto(t, "drop", "failed")
  /\ UNCHANGED <<link, config, devices, lastKnown, holder, disc, engine, loc, job,
                 blackouts, savedId, plugged, glow, spent, lost, stopId>>

QueryDrop(t) ==
  /\ Goto(t, "drop", "failed")
  /\ Disconnect
  /\ lost' = 0
  /\ UNCHANGED <<config, devices, lastKnown, holder, disc, engine, loc, job, blackouts,
                 savedId, plugged, glow, spent, stopId>>

\* A scanned port answered: remember the device (equal ids on neighbouring
\* ports are kept once) and disconnect() before the next port.
ScanFound(t) ==
  LET n == Len(disc.found)
      repeated == n > 0 /\ disc.found[n].serial = disc.serial
      device == [serial |-> disc.serial, port |-> disc.port]
  IN  /\ Goto(t, "found", "next")
      /\ disc' = [disc EXCEPT !.todo = @ \ {disc.port},
                              !.found = IF repeated THEN @ ELSE Append(@, device)]
      /\ Disconnect
      /\ lost' = 0
      /\ UNCHANGED <<config, devices, lastKnown, holder, engine, loc, job, blackouts,
                     savedId, plugged, glow, spent, stopId>>

\* A probe failed: the scan goes on with the next port, a cached candidate
\* leads to a scan.
ProbeFailed(t) ==
  /\ disc.phase # "refreshed"
  /\ Goto(t, "failed", IF disc.phase = "cached" THEN "scan" ELSE "next")
  /\ disc' = [disc EXCEPT !.todo = @ \ {disc.port}]
  /\ UNCHANGED <<link, config, devices, lastKnown, holder, engine, loc, job, blackouts,
                 savedId, plugged, glow, spent, lost, stopId>>

\* Mutant: discoveryMutex_ is not released on failure.
GiveUpDiscoveryKeepsMutex(from, stage, port) ==
  /\ Goto(Worker, from, "probeStatus")
  /\ link' = [link EXCEPT !.connected = FALSE, !.active = NoId, !.stage = stage,
                          !.endpoint = IF port = NoPort THEN @ ELSE port]
  /\ disc' = NoDisc
  /\ loc' = [loc EXCEPT !.ok = FALSE]
  /\ UNCHANGED <<config, devices, lastKnown, holder, engine, job, blackouts,
                 savedId, plugged, glow, spent, lost, stopId>>

\* discoverAndConnect() gives up: markDisconnected() and return false.
GiveUpDiscovery(from, stage, port) ==
  /\ Goto(Worker, from, "probeStatus")
  /\ link' = [link EXCEPT !.connected = FALSE, !.active = NoId, !.stage = stage,
                          !.endpoint = IF port = NoPort THEN @ ELSE port]
  /\ holder' = Nobody
  /\ disc' = NoDisc
  /\ loc' = [loc EXCEPT !.ok = FALSE]
  /\ UNCHANGED <<config, devices, lastKnown, engine, job, blackouts,
                 savedId, plugged, glow, spent, lost, stopId>>

RefreshedProbeFailed ==
  /\ disc.phase = "refreshed"
  /\ GiveUpDiscovery("failed", "probe", disc.port)

\* Selection after the scan, still by the preference read before it.
Rescanned == Select(devices, disc.preferred, disc.strict)

ChooseRefreshed ==
  /\ disc.mode = "connect"
  /\ Goto(Worker, "scanned", "open")
  /\ \E i \in Rescanned :
       disc' = [disc EXCEPT !.phase = "refreshed", !.port = devices[i].port]
  /\ UNCHANGED <<link, config, devices, lastKnown, holder, engine, loc, job, blackouts,
                 savedId, plugged, glow, spent, lost, stopId>>

NothingToConnect ==
  /\ disc.mode = "connect"
  /\ Rescanned = {}
  /\ GiveUpDiscovery("scanned", IF devices = <<>> THEN "scan" ELSE "selection", NoPort)

\* Mutant: an endpoint left in the status by a link given up is kept.
CommitConnectedKeepsEndpoint ==
  LET device == [serial |-> disc.serial, port |-> disc.port]
  IN  /\ Goto(Worker, "commit", "probeStatus")
      /\ link' = [link EXCEPT !.connected = TRUE, !.active = disc.serial, !.failures = 0,
                              !.endpoint = IF @ = NoPort THEN disc.port ELSE @,
                              !.stage = ""]
      /\ lastKnown' = device
      /\ devices' = IF WithSerial(devices, disc.serial) = {}
                    THEN Append(devices, device)
                    ELSE [i \in DOMAIN devices |->
                            IF devices[i].serial = disc.serial THEN device ELSE devices[i]]
      /\ holder' = Nobody
      /\ disc' = NoDisc
      /\ loc' = [loc EXCEPT !.ok = TRUE]
      /\ lost' = 0
      /\ UNCHANGED <<config, engine, job, blackouts,
                     savedId, plugged, glow, spent, stopId>>

\* commitConnected() and return true.
CommitConnected ==
  LET device == [serial |-> disc.serial, port |-> disc.port]
  IN  /\ Goto(Worker, "commit", "probeStatus")
      /\ link' = [link EXCEPT !.connected = TRUE, !.endpoint = disc.port,
                              !.active = disc.serial, !.failures = 0, !.stage = ""]
      /\ lastKnown' = device
      /\ devices' = IF WithSerial(devices, disc.serial) = {}
                    THEN Append(devices, device)
                    ELSE [i \in DOMAIN devices |->
                            IF devices[i].serial = disc.serial THEN device ELSE devices[i]]
      /\ holder' = Nobody
      /\ disc' = NoDisc
      /\ loc' = [loc EXCEPT !.ok = TRUE]
      /\ lost' = 0
      /\ UNCHANGED <<config, engine, job, blackouts,
                     savedId, plugged, glow, spent, stopId>>

\* Mutant: a scan that found nothing returns without releasing discoveryMutex_.
RefreshEndKeepsMutex(t) ==
  /\ disc.mode = "refresh"
  /\ Goto(t, "scanned", AfterRefresh(t))
  /\ link' = [link EXCEPT !.stage = IF devices = <<>> /\ ~link.connected THEN "scan" ELSE @]
  /\ holder' = IF devices = <<>> THEN t ELSE Nobody
  /\ disc' = NoDisc
  /\ UNCHANGED <<config, devices, lastKnown, engine, loc, job, blackouts,
                 savedId, plugged, glow, spent, lost, stopId>>

\* refreshDevices() returns; a scan that found nothing is reported unless the
\* link is up.
RefreshEnd(t) ==
  /\ disc.mode = "refresh"
  /\ Goto(t, "scanned", AfterRefresh(t))
  /\ link' = [link EXCEPT !.stage = IF devices = <<>> /\ ~link.connected THEN "scan" ELSE @]
  /\ holder' = Nobody
  /\ disc' = NoDisc
  /\ UNCHANGED <<config, devices, lastKnown, engine, loc, job, blackouts,
                 savedId, plugged, glow, spent, lost, stopId>>

ProbeStep(t) ==
  \/ ScanBegin(t) \/ ScanNext(t) \/ ScanEnd(t)
  \/ OpenPort(t) \/ OpenFails(t)
  \/ QueryAnswered(t) \/ QueryFails(t) \/ QueryDrop(t)
  \/ ScanFound(t) \/ ProbeFailed(t)

-----------------------------------------------------------------------------
(***************************************************************************)
(* sendUniverse(): one section under mutex_.  ok is its result.  It        *)
(* constrains link, glow, spent and lost.                                  *)
(***************************************************************************)

\* Mutants of a delivered frame: the write error stays, or the failure count.
DeliveredKeepsError(l, f) ==
  /\ link' = [l EXCEPT !.failures = 0]
  /\ glow' = [glow EXCEPT ![plugged[l.fd]] = f]
  /\ lost' = 0

DeliveredKeepsCount(l, f) ==
  /\ link' = [l EXCEPT !.stage = IF @ = "write" THEN "" ELSE @]
  /\ glow' = [glow EXCEPT ![plugged[l.fd]] = f]
  /\ lost' = 0

\* A frame went out: the interface behind the handle shows it, the failure
\* count starts again and a write error is forgotten.
Delivered(l, f) ==
  /\ link' = [l EXCEPT !.failures = 0, !.stage = IF @ = "write" THEN "" ELSE @]
  /\ glow' = [glow EXCEPT ![plugged[l.fd]] = f]
  /\ lost' = 0

SendWithoutLink(ok) ==
  /\ ~link.connected
  /\ ~ok
  /\ UNCHANGED <<link, glow, spent, lost>>

SendDelivers(f, ok) ==
  /\ link.connected
  /\ Writable
  /\ ok
  /\ Delivered(link, f)
  /\ UNCHANGED spent

\* reopenCurrentEndpointLocked(): closes the handle and opens the endpoint of
\* the status again, if it still exists, whatever is plugged there now.
ReopenTarget == IF link.endpoint # NoPort THEN link.endpoint ELSE lastKnown.port

ReopenExists == ReopenTarget # NoPort /\ plugged[ReopenTarget] # NoId

Reopened == [link EXCEPT !.fd = ReopenTarget, !.live = TRUE, !.endpoint = ReopenTarget]

\* Faults it takes to make the first write fail.
FirstWriteFault == IF Writable THEN 1 ELSE 0

\* The write failed, the endpoint was reopened and the same frame written again.
SendRecovers(f, ok) ==
  /\ link.connected
  /\ ReopenExists
  /\ Faulty(FirstWriteFault)
  /\ ok
  /\ Delivered(Reopened, f)

\* The frame is lost: the endpoint is gone, or it does not open, or the second
\* write fails too.
LinkAfterFailedReopen ==
  IF ReopenExists
  THEN {[l |-> [link EXCEPT !.fd = NoPort, !.live = FALSE], cost |-> FirstWriteFault + 1],
        [l |-> Reopened, cost |-> FirstWriteFault + 1]}
  ELSE {[l |-> link, cost |-> FirstWriteFault]}

\* Mutant: the link is given up with its handle open.
CountLostFrameKeepsHandle(l) ==
  IF l.failures + 1 < config.retryLimit
  THEN [l EXCEPT !.failures = @ + 1, !.stage = "write"]
  ELSE [l EXCEPT !.connected = FALSE, !.active = NoId, !.failures = 0, !.stage = "write"]

\* A lost frame is counted; at the retry limit the link is given up, which
\* keeps the endpoint in the status.
CountLostFrame(l) ==
  IF l.failures + 1 < config.retryLimit
  THEN [l EXCEPT !.failures = @ + 1, !.stage = "write"]
  ELSE [l EXCEPT !.connected = FALSE, !.active = NoId, !.fd = NoPort, !.live = FALSE,
                 !.failures = 0, !.stage = "write"]

SendLoses(ok) ==
  /\ link.connected
  /\ ~ok
  /\ \E after \in LinkAfterFailedReopen :
       /\ Faulty(after.cost)
       /\ link' = CountLostFrame(after.l)
  /\ lost' = lost + 1
  /\ UNCHANGED glow

SendUniverse(f, ok) ==
  \/ SendWithoutLink(ok)
  \/ SendDelivers(f, ok)
  \/ SendRecovers(f, ok)
  \/ SendLoses(ok)

-----------------------------------------------------------------------------
(***************************************************************************)
(* The worker thread: DmxEngine::workerLoop()                              *)
(***************************************************************************)

WorkerExit ==
  /\ ~engine.running
  /\ Goto(Worker, "loop", "exited")
  /\ UNCHANGED <<link, config, devices, lastKnown, holder, disc, engine, loc, job,
                 blackouts, savedId, plugged, glow, spent, lost, stopId>>

\* Link down and no backoff running: probe.
WorkerProbe ==
  /\ engine.running
  /\ ~link.connected
  /\ engine.nextAt # "future"
  /\ Goto(Worker, "loop", "probing")
  /\ engine' = [engine EXCEPT !.state = "probing", !.nextAt = "none"]
  /\ UNCHANGED <<link, config, devices, lastKnown, holder, disc, loc, job, blackouts,
                 savedId, plugged, glow, spent, lost, stopId>>

WorkerTransmit ==
  /\ engine.running
  /\ link.connected
  /\ Goto(Worker, "loop", "send")
  /\ UNCHANGED <<link, config, devices, lastKnown, holder, disc, engine, loc, job,
                 blackouts, savedId, plugged, glow, spent, lost, stopId>>

\* The snapshot of the output universe may be any frame.
WorkerSend ==
  /\ \E f \in Frames, ok \in BOOLEAN :
       /\ SendUniverse(f, ok)
       /\ loc' = [loc EXCEPT !.ok = ok]
  /\ Goto(Worker, "send", "sendStatus")
  /\ UNCHANGED <<config, devices, lastKnown, holder, disc, engine, job, blackouts,
                 savedId, plugged, stopId>>

\* backend_->status() after the call; the link may have changed since.
WorkerStatus ==
  /\ \/ Goto(Worker, "probeStatus", "probeNote")
     \/ Goto(Worker, "sendStatus", "sendNote")
  /\ loc' = [loc EXCEPT !.up = link.connected]
  /\ UNCHANGED <<link, config, devices, lastKnown, holder, disc, engine, job, blackouts,
                 savedId, plugged, glow, spent, lost, stopId>>

\* Mutant: a successful probe does not reset the reconnect attempts.
WorkerNoteProbeKeepsAttempt ==
  /\ Goto(Worker, "probeNote", "loop")
  /\ engine' = IF loc.ok /\ loc.up
               THEN [engine EXCEPT !.state = "connected"]
               ELSE [Backoff(engine) EXCEPT !.state = "disconnected"]
  /\ loc' = [ok |-> FALSE, up |-> FALSE]
  /\ UNCHANGED <<link, config, devices, lastKnown, holder, disc, job, blackouts,
                 savedId, plugged, glow, spent, lost, stopId>>

\* The section under transportMutex_ that records the outcome of a probe.
WorkerNoteProbe ==
  /\ Goto(Worker, "probeNote", "loop")
  /\ engine' = IF loc.ok /\ loc.up
               THEN [EngineReset(engine) EXCEPT !.state = "connected"]
               ELSE [Backoff(engine) EXCEPT !.state = "disconnected"]
  /\ loc' = [ok |-> FALSE, up |-> FALSE]
  /\ UNCHANGED <<link, config, devices, lastKnown, holder, disc, job, blackouts,
                 savedId, plugged, glow, spent, lost, stopId>>

\* The section under transportMutex_ that records the outcome of a frame.
WorkerNoteSend ==
  /\ Goto(Worker, "sendNote", "loop")
  /\ engine' = IF loc.ok THEN [EngineReset(engine) EXCEPT !.state = "connected"]
               ELSE IF loc.up \/ engine.nextAt = "future"
               THEN [engine EXCEPT !.state = "degraded"]
               ELSE [Backoff(engine) EXCEPT !.state = "degraded"]
  /\ loc' = [ok |-> FALSE, up |-> FALSE]
  /\ UNCHANGED <<link, config, devices, lastKnown, holder, disc, job, blackouts,
                 savedId, plugged, glow, spent, lost, stopId>>

WorkerStep ==
  \/ WorkerExit \/ WorkerProbe \/ WorkerTransmit \/ WorkerSend \/ WorkerStatus
  \/ WorkerNoteProbe \/ WorkerNoteSend
  \/ DiscoverBegin \/ ChooseCached \/ ChooseRefreshed \/ NothingToConnect
  \/ RefreshedProbeFailed \/ CommitConnected
  \/ holder = Worker /\ ProbeStep(Worker)

\* The backoff of nextReconnectAt_ elapses.
BackoffElapses ==
  /\ engine.nextAt = "future"
  /\ engine' = [engine EXCEPT !.nextAt = "past"]
  /\ UNCHANGED <<link, config, devices, lastKnown, holder, disc, pc, loc, job, blackouts,
                 savedId, plugged, glow, spent, lost, stopId>>

-----------------------------------------------------------------------------
(***************************************************************************)
(* The HTTP connection threads.  The server starts after the engine and    *)
(* accepts no connection once the shutdown begins, but its threads are     *)
(* detached: a connection accepted before may be served at any time during *)
(* the shutdown.                                                           *)
(***************************************************************************)

Request(r) ==
  /\ pc[Main] \in {"running", "join", "blackout", "close", "final"}
  /\ pc[r] = "idle"
  /\ spent.requests < MaxRequests
  /\ spent' = [spent EXCEPT !.requests = @ + 1]

\* POST /api/dmx/devices/select: setPreferredDeviceId(), forceReconnect(),
\* refreshDevices(), setSetting().
SelectDevice(r, id) ==
  /\ Request(r)
  /\ Goto(r, "idle", "disconnect")
  /\ config' = [config EXCEPT !.preferred = id]
  /\ job' = [job EXCEPT ![r] = id]
  /\ UNCHANGED <<link, devices, lastKnown, holder, disc, engine, loc, blackouts, savedId,
                 plugged, glow, lost, stopId>>

\* POST /api/dmx/devices/scan: forceReconnect(), refreshDevices().
ScanDevices(r) ==
  /\ Request(r)
  /\ Goto(r, "idle", "disconnect")
  /\ UNCHANGED <<link, config, devices, lastKnown, holder, disc, engine, loc, job,
                 blackouts, savedId, plugged, glow, lost, stopId>>

\* forceReconnect(): disconnect() under mutex_, then the engine's fields under
\* transportMutex_.  It may cut off the interface stop() is darkening.
ForceDisconnect(r) ==
  /\ Goto(r, "disconnect", "reset")
  /\ Disconnect
  /\ lost' = 0
  /\ stopId' = IF pc[Main] = "blackout" THEN NoId ELSE stopId
  /\ UNCHANGED <<config, devices, lastKnown, holder, disc, engine, loc, job, blackouts,
                 savedId, plugged, glow, spent>>

ForceReset(r) ==
  /\ Goto(r, "reset", "refresh")
  /\ engine' = EngineReset(engine)
  /\ UNCHANGED <<link, config, devices, lastKnown, holder, disc, loc, job, blackouts,
                 savedId, plugged, glow, spent, lost, stopId>>

\* The selection handler stores the id it was given.
SaveSelection(r) ==
  /\ Goto(r, "persist", "idle")
  /\ savedId' = IF job[r] = "none" THEN savedId ELSE job[r]
  /\ job' = [job EXCEPT ![r] = "none"]
  /\ UNCHANGED <<link, config, devices, lastKnown, holder, disc, engine, loc, blackouts,
                 plugged, glow, spent, lost, stopId>>

\* POST /api/dmx/write-retry-limit and /api/dmx/transport-settings.
ChangeSettings(r, limit, strict) ==
  /\ Request(r)
  /\ config' = [config EXCEPT !.retryLimit = limit, !.strict = strict]
  /\ UNCHANGED <<link, devices, lastKnown, holder, disc, engine, pc, loc, job, blackouts,
                 savedId, plugged, glow, lost, stopId>>

RequesterStep(r) ==
  \/ ForceDisconnect(r) \/ ForceReset(r) \/ SaveSelection(r)
  \/ RefreshBegin(r) \/ RefreshEnd(r)
  \/ holder = r /\ ProbeStep(r)

NewRequest(r) ==
  \/ \E id \in Ids : SelectDevice(r, id)
  \/ ScanDevices(r)
  \/ \E limit \in RetryLimits, strict \in BOOLEAN : ChangeSettings(r, limit, strict)

-----------------------------------------------------------------------------
(***************************************************************************)
(* The main thread: AppController::initialize() scans and starts the       *)
(* engine; shutdown() stops it: join the worker, send blackout frames      *)
(* until one fails, disconnect, reset.                                     *)
(***************************************************************************)

StartEngine ==
  /\ pc[Main] = "start"
  /\ pc' = [pc EXCEPT ![Main] = "running", ![Worker] = "loop"]
  /\ engine' = [EngineReset(engine) EXCEPT !.running = TRUE]
  /\ UNCHANGED <<link, config, devices, lastKnown, holder, disc, loc, job, blackouts,
                 savedId, plugged, glow, spent, lost, stopId>>

StopBegin ==
  /\ Goto(Main, "running", "join")
  /\ engine' = [engine EXCEPT !.running = FALSE]
  /\ UNCHANGED <<link, config, devices, lastKnown, holder, disc, loc, job, blackouts,
                 savedId, plugged, glow, spent, lost, stopId>>

\* Mutant: stop() goes on without joining the worker.
StopWithoutJoin ==
  /\ Goto(Main, "join", "blackout")
  /\ stopId' = IF link.connected /\ Writable THEN plugged[link.fd] ELSE NoId
  /\ UNCHANGED <<link, config, devices, lastKnown, holder, disc, engine, loc, job,
                 blackouts, savedId, plugged, glow, spent, lost>>

\* The history variable stopId remembers the interface that is being driven,
\* until something fails or cuts it off.
StopJoin ==
  /\ pc[Worker] = "exited"
  /\ Goto(Main, "join", "blackout")
  /\ stopId' = IF link.connected /\ Writable THEN plugged[link.fd] ELSE NoId
  /\ UNCHANGED <<link, config, devices, lastKnown, holder, disc, engine, loc, job,
                 blackouts, savedId, plugged, glow, spent, lost>>

\* Mutant: one blackout frame too many.
StopBlackoutTooMany ==
  /\ \E ok \in BOOLEAN :
       /\ SendUniverse(Dark, ok)
       /\ Goto(Main, "blackout",
               IF ok /\ blackouts < BlackoutFrames THEN "blackout" ELSE "close")
       /\ blackouts' = IF ok THEN blackouts + 1 ELSE blackouts
  /\ stopId' = IF spent'.faults = spent.faults THEN stopId ELSE NoId
  /\ UNCHANGED <<config, devices, lastKnown, holder, disc, engine, loc, job, savedId,
                 plugged>>

StopBlackout ==
  /\ \E ok \in BOOLEAN :
       /\ SendUniverse(Dark, ok)
       /\ Goto(Main, "blackout",
               IF ok /\ blackouts + 1 < BlackoutFrames THEN "blackout" ELSE "close")
       /\ blackouts' = IF ok THEN blackouts + 1 ELSE blackouts
  /\ stopId' = IF spent'.faults = spent.faults THEN stopId ELSE NoId
  /\ UNCHANGED <<config, devices, lastKnown, holder, disc, engine, loc, job, savedId,
                 plugged>>

StopDisconnect ==
  /\ Goto(Main, "close", "final")
  /\ Disconnect
  /\ lost' = 0
  /\ UNCHANGED <<config, devices, lastKnown, holder, disc, engine, loc, job, blackouts,
                 savedId, plugged, glow, spent, stopId>>

StopReset ==
  /\ Goto(Main, "final", "done")
  /\ engine' = EngineReset(engine)
  /\ UNCHANGED <<link, config, devices, lastKnown, holder, disc, loc, job, blackouts,
                 savedId, plugged, glow, spent, lost, stopId>>

MainStep ==
  \/ RefreshBegin(Main) \/ RefreshEnd(Main)
  \/ holder = Main /\ ProbeStep(Main)
  \/ StartEngine \/ StopJoin \/ StopBlackout \/ StopDisconnect \/ StopReset

-----------------------------------------------------------------------------
(***************************************************************************)
(* The environment                                                         *)
(***************************************************************************)

HotPlug ==
  /\ spent.plugs < MaxPlugs
  /\ spent' = [spent EXCEPT !.plugs = @ + 1]

\* An interface disappears; a handle on its port is dead from then on.
Unplug(p) ==
  /\ HotPlug
  /\ plugged[p] # NoId
  /\ plugged' = [plugged EXCEPT ![p] = NoId]
  /\ link' = [link EXCEPT !.live = @ /\ link.fd # p]
  /\ stopId' = IF stopId = plugged[p] THEN NoId ELSE stopId
  /\ UNCHANGED <<config, devices, lastKnown, holder, disc, engine, pc, loc, job,
                 blackouts, savedId, glow, lost>>

\* An interface appears at a free port.
PlugIn(p, s) ==
  /\ HotPlug
  /\ plugged[p] = NoId
  /\ \A q \in Ports : plugged[q] # s
  /\ plugged' = [plugged EXCEPT ![p] = s]
  /\ UNCHANGED <<link, config, devices, lastKnown, holder, disc, engine, pc, loc, job,
                 blackouts, savedId, glow, lost, stopId>>

\* The process has shut down.
Terminated ==
  /\ pc[Main] = "done"
  /\ \A r \in Requesters : pc[r] = "idle"
  /\ UNCHANGED vars

-----------------------------------------------------------------------------
Init ==
  /\ link = LinkDown
  /\ config \in [preferred : Ids, strict : BOOLEAN, retryLimit : RetryLimits]
  /\ devices = <<>>
  /\ lastKnown = [serial |-> NoId, port |-> NoPort]
  /\ holder = Nobody
  /\ disc = NoDisc
  /\ engine = [running |-> FALSE, state |-> "disconnected", attempt |-> 0, nextAt |-> "none"]
  /\ pc = [t \in Threads |-> IF t = Worker THEN "off"
                             ELSE IF t = Main THEN "refresh" ELSE "idle"]
  /\ loc = [ok |-> FALSE, up |-> FALSE]
  /\ job = [r \in Requesters |-> "none"]
  /\ blackouts = 0
  /\ savedId = config.preferred
  /\ plugged \in {f \in [Ports -> Ids] :
                    \A p, q \in Ports : f[p] = f[q] /\ p # q => f[p] = NoId}
  /\ glow = [s \in Serials |-> Dark]
  /\ spent = [requests |-> 0, plugs |-> 0, faults |-> 0]
  /\ lost = 0
  /\ stopId = NoId

Next ==
  \/ WorkerStep
  \/ BackoffElapses
  \/ \E r \in Requesters : RequesterStep(r) \/ NewRequest(r)
  \/ MainStep
  \/ StopBegin
  \/ \E p \in Ports : Unplug(p) \/ \E s \in Serials : PlugIn(p, s)
  \/ Terminated

\* Threads keep running and time passes.  A thread that waits for
\* discoveryMutex_ gets it: the worker leaves it free while it sleeps a frame
\* interval between two probes.  Requests, the stop signal and the environment
\* are not fair.
Fairness ==
  /\ WF_vars(WorkerStep)
  /\ WF_vars(BackoffElapses)
  /\ WF_vars(MainStep)
  /\ \A r \in Requesters : WF_vars(RequesterStep(r)) /\ SF_vars(RefreshBegin(r))

Spec == Init /\ [][Next]_vars

FairSpec == Spec /\ Fairness

-----------------------------------------------------------------------------
(***************************************************************************)
(* Properties                                                              *)
(***************************************************************************)

TypeOK ==
  /\ link \in Link
  /\ config \in [preferred : Ids, strict : BOOLEAN, retryLimit : RetryLimits]
  /\ devices \in Seq(Device)
  /\ lastKnown \in [serial : Ids, port : Ends]
  /\ holder \in Threads \cup {Nobody}
  /\ disc \in Disc
  /\ engine \in Engine
  /\ pc \in [Threads -> WorkerPc \cup DiscoveryPc \cup RequesterPc \cup MainPc]
  /\ loc \in [ok : BOOLEAN, up : BOOLEAN]
  /\ job \in [Requesters -> Ids \cup {"none"}]
  /\ blackouts \in 0..BlackoutFrames
  /\ savedId \in Ids
  /\ plugged \in [Ports -> Ids]
  /\ glow \in [Serials -> Frames]
  /\ spent \in [requests : 0..MaxRequests, plugs : 0..MaxPlugs, faults : 0..MaxFaults]
  /\ lost \in Nat
  /\ stopId \in Ids

\* No scan or probe runs while the link is up: discoverAndConnect() and
\* refreshDevices() look at status_.connected once, under mutex_, and then open
\* and close ports without it; what keeps the answer valid is discoveryMutex_.
ScanLeavesLinkAlone == holder # Nobody => ~link.connected

\* The serial handle is closed unless the link is up or a discovery is between
\* opening a port and giving it back: no path of a probe leaks the handle, which
\* is exclusive (TIOCEXCL) and would make every later probe of that port fail.
NoHandleLeak ==
  link.fd # NoPort =>
    \/ link.connected
    \/ holder # Nobody /\ pc[holder] \in {"query", "drop", "found", "commit"}

\* While the link is up, frames go to the endpoint that status() reports: the
\* handle, whether of the probe or of an inline reopen, is on that endpoint.
HandleIsOnEndpoint ==
  link.connected => link.endpoint # NoPort /\ link.fd \in {NoPort, link.endpoint}

\* A live link reports an error exactly while frames are being lost; errors of
\* earlier scans and probes do not outlive the connect.
NoStaleError ==
  link.connected => link.stage = IF link.failures = 0 THEN "" ELSE "write"

\* With the worker between two iterations and the link up there is no reconnect
\* attempt counted and no backoff scheduled, whatever forceReconnect() calls
\* fell between the probe and its bookkeeping.
ConnectedHasNoBackoff ==
  pc[Worker] = "loop" /\ link.connected => engine.attempt = 0 /\ engine.nextAt = "none"

\* The transport gives a link up (keeping its endpoint in the status, unlike
\* disconnect()) only after writeRetryLimit_ lost frames in a row.
GivenUpOnlyAfterRetries ==
  [][link.connected /\ ~link'.connected /\ link'.endpoint # NoPort
       => lost' >= config.retryLimit]_vars

\* stop() darkens the interface it was driving unless a write fails, the
\* interface is unplugged or a late request disconnects it in between: the
\* blackout frames are sent before disconnect(), by the same handle.
CleanStopGoesDark ==
  pc[Main] = "done" /\ stopId # NoId => glow[stopId] = Dark

-----------------------------------------------------------------------------
(***************************************************************************)
(* The abstract specification, and how a state of the transport is read as *)
(* one of its states: the worker may still connect while stop() joins it;  *)
(* a link given up keeps its endpoint in the status, which ends the        *)
(* session all the same.                                                   *)
(***************************************************************************)

Phase ==
  CASE pc[Main] \in {"running", "join"} -> "serving"
    [] pc[Main] \in {"blackout", "close"} -> "stopping"
    [] pc[Main] \in {"final", "done"} -> "stopped"
    [] OTHER -> "starting"

CurrentSession ==
  [device   |-> IF link.connected THEN link.active ELSE NoId,
   endpoint |-> IF link.connected THEN link.endpoint ELSE NoPort]

Session == INSTANCE DmxSession WITH
  Devices <- Serials, Endpoints <- Ports, NoDevice <- NoId, NoEndpoint <- NoPort,
  Limits <- RetryLimits,
  phase <- Phase, limit <- config.retryLimit, session <- CurrentSession,
  lost <- IF link.connected THEN lost ELSE 0

\* The transport, with its threads, mutexes, probes, inline reopens and late
\* requests, behaves as DmxSession says: sessions begin only while the engine
\* serves and never after the worker was joined, keep their device and endpoint
\* through every reopen, and end by a disconnect() or at the retry limit.
ImplementsSession == Session!Spec

-----------------------------------------------------------------------------
\* Some plugged interface satisfies the selection.
Reachable ==
  \E p \in Ports : plugged[p] # NoId
                   /\ (config.strict => config.preferred \in {NoId, plugged[p]})

\* While the engine runs and a selectable interface stays plugged, the link
\* comes up and stays up once faults and requests have ceased.
ReturnsToService ==
  <>[](pc[Main] = "running" /\ Reachable) => <>[](link.connected /\ Writable)

\* dmx.stop() terminates from any state of the worker and of the requests.
StopCompletes == pc[Main] = "join" ~> pc[Main] = "done"

\* Every selection or scan request is answered.
RequestsComplete == \A r \in Requesters : pc[r] = "disconnect" ~> pc[r] = "idle"

-----------------------------------------------------------------------------
(***************************************************************************)
(* What documentation and tests say and the code does not do               *)
(***************************************************************************)

AtRest == pc[Worker] = "loop" /\ \A r \in Requesters : pc[r] = "idle"

\* tests/test_dmx_engine.cpp:283-290: after setPreferredDeviceId("dev-b") and
\* forceReconnect() the link is on dev-b.
SelectionTakesEffect ==
  AtRest /\ link.connected /\ config.strict /\ config.preferred # NoId
    => link.active = config.preferred

-----------------------------------------------------------------------------
(***************************************************************************)
(* The inductive invariant behind the safety properties                    *)
(***************************************************************************)

\* Each thread runs its own code, and the discovery code only with the mutex;
\* the worker runs between start() and the join in stop().
ThreadsInv ==
  /\ pc[Worker] \in WorkerPc \cup DiscoveryPc
  /\ pc[Main] \in MainPc \cup DiscoveryPc
  /\ \A r \in Requesters : pc[r] \in RequesterPc \cup DiscoveryPc
  /\ \A t \in Threads : pc[t] \in DiscoveryPc <=> holder = t
  /\ pc[Main] \in {"refresh", "start"} \cup DiscoveryPc => pc[Worker] = "off"
  /\ pc[Main] \in {"blackout", "close", "final", "done"} => pc[Worker] = "exited"

\* What the holder of discoveryMutex_ knows about the port it works on.
PortInv ==
  /\ \A t \in Threads :
       /\ pc[t] \in {"open", "query", "drop", "found", "failed", "commit"}
            => disc.port \in Ports
       /\ pc[t] \in {"found", "commit"} => disc.serial \in Serials
  /\ link.fd # NoPort /\ link.live => plugged[link.fd] # NoId

\* The link is up or being discovered, never both, and the handle belongs to
\* whichever it is.
HandleInv ==
  /\ link.connected =>
       /\ holder = Nobody
       /\ link.endpoint # NoPort
       /\ link.fd \in {NoPort, link.endpoint}
  /\ ~link.connected /\ link.fd # NoPort =>
       /\ holder # Nobody
       /\ pc[holder] \in {"query", "drop", "found", "commit"}
       /\ link.fd = disc.port

\* Errors and lost frames of a live link.
ErrorInv == NoStaleError /\ link.failures <= lost

\* What the worker has recorded, or is about to, once it has brought the link up.
BackoffInv ==
  link.connected =>
    /\ pc[Worker] # "probing"
    /\ pc[Worker] \in {"probeStatus", "probeNote"} => loc.ok
    /\ pc[Worker] \in {"probeNote", "sendNote"} => loc.up
    /\ pc[Worker] \notin {"probeStatus", "probeNote"}
         => engine.attempt = 0 /\ engine.nextAt = "none"

\* The interface stop() took over is still being driven, by stop() alone.
StopInv ==
  stopId # NoId =>
    /\ pc[Main] \in {"blackout", "close", "final", "done"}
    /\ pc[Main] = "blackout" =>
         link.connected /\ Writable /\ plugged[link.fd] = stopId
    /\ pc[Main] # "blackout" => glow[stopId] = Dark

\* stop() has a blackout frame left to send until it goes on to disconnect().
BlackoutInv == pc[Main] \notin {"close", "final", "done"} => blackouts < BlackoutFrames

IInv == /\ TypeOK
        /\ ThreadsInv /\ PortInv /\ HandleInv
        /\ ErrorInv /\ BackoffInv
        /\ StopInv /\ BlackoutInv
=============================================================================
