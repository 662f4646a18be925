----------------------- MODULE DmxTransport_proofs ------------------------
(***************************************************************************)
(* Theorems about DmxTransport, for any number of ports, interfaces, HTTP  *)
(* threads, requests, hot-plugs and faults: the invariant IInv is          *)
(* inductive, the safety properties follow from it, and the transport      *)
(* implements DmxSession: under IInv every step of a thread or of the      *)
(* environment is a step of the abstract transport or leaves its state as  *)
(* it is.                                                                  *)
(*                                                                         *)
(* There are facts about the operators the actions are built from, then    *)
(* one lemma per action, then what follows from them.                      *)
(***************************************************************************)
EXTENDS DmxTransport, TLAPS

USE DEF Worker, Main, Nobody, NoPort

\* The assumptions on the constants, under one name.
LEMMA Constants ==
  /\ Ports \subseteq Nat \ {0}
  /\ NoId \notin Serials
  /\ Requesters \cap {"worker", "main", "nobody"} = {}
  /\ RetryLimits \subseteq Nat \ {0}
  /\ Dark \in Frames
  /\ AttemptCap \in Nat \ {0}
  /\ MaxRequests \in Nat /\ MaxPlugs \in Nat /\ MaxFaults \in Nat
BY PortsAssumption, NoIdAssumption, ThreadsAssumption, RetryLimitsAssumption,
   FramesAssumption, BoundsAssumption

\* The state AppController::initialize() starts from satisfies the inductive
\* invariant: link down, nobody in a discovery, worker not started.
THEOREM InitEstablishes == Init => IInv
<1> SUFFICES ASSUME Init PROVE IInv
  OBVIOUS
<1>1. link = LinkDown /\ devices = <<>> /\ holder = Nobody /\ disc = NoDisc
      /\ lost = 0 /\ stopId = NoId
  BY DEF Init
<1>2. engine = [running |-> FALSE, state |-> "disconnected", attempt |-> 0, nextAt |-> "none"]
  BY DEF Init
<1>3. pc = [t \in Threads |-> IF t = Worker THEN "off"
                            ELSE IF t = Main THEN "refresh" ELSE "idle"]
  BY DEF Init
<1>4. spent = [requests |-> 0, plugs |-> 0, faults |-> 0]
  BY DEF Init
<1>5. TypeOK
  <2>1. link \in Link
    BY <1>1 DEF LinkDown, Link, Ids, Ends
  <2>2. disc \in Disc
    BY <1>1 DEF NoDisc, Disc, Ids, Ends
  <2>3. engine \in Engine
    BY <1>2, Constants DEF Engine
  <2>4. pc \in [Threads -> WorkerPc \cup DiscoveryPc \cup RequesterPc \cup MainPc]
    BY <1>3, Constants DEF Threads, WorkerPc, MainPc, RequesterPc
  <2>5. spent \in [requests : 0..MaxRequests, plugs : 0..MaxPlugs, faults : 0..MaxFaults]
    BY <1>4, Constants
  <2>6. lastKnown \in [serial : Ids, port : Ends] /\ savedId \in Ids /\ stopId \in Ids
    BY DEF Init, Ids, Ends
  <2>7. plugged \in [Ports -> Ids] /\ glow \in [Serials -> Frames]
    BY Constants DEF Init
  <2>8. config \in [preferred : Ids, strict : BOOLEAN, retryLimit : RetryLimits]
    BY DEF Init
  <2>9. loc \in [ok : BOOLEAN, up : BOOLEAN] /\ job \in [Requesters -> Ids \cup {"none"}]
    BY DEF Init
  <2>10. blackouts \in 0..BlackoutFrames
    BY DEF Init, BlackoutFrames
  <2> QED
    BY <1>1, <2>1, <2>2, <2>3, <2>4, <2>5, <2>6, <2>7, <2>8, <2>9, <2>10 DEF TypeOK
<1>6. ThreadsInv
  BY <1>1, <1>3, Constants DEF ThreadsInv, Threads, WorkerPc, MainPc, RequesterPc,
                               DiscoveryPc
<1>7. PortInv
  BY <1>1, <1>3, Constants DEF PortInv, Threads, LinkDown
<1>8. ~link.connected /\ link.fd = NoPort /\ link.failures = 0 /\ lost = 0
      /\ stopId = NoId
  BY <1>1 DEF LinkDown
<1>9. HandleInv
  BY <1>8 DEF HandleInv
<1>10. ErrorInv
  <2>1. NoStaleError
    BY <1>8 DEF NoStaleError
  <2>2. link.failures <= lost
    BY <1>8
  <2> QED
    BY <2>1, <2>2 DEF ErrorInv
<1>11. BackoffInv /\ StopInv
  BY <1>8 DEF BackoffInv, StopInv
<1>12. BlackoutInv
  BY DEF Init, BlackoutInv, BlackoutFrames
<1> QED
  BY <1>5, <1>6, <1>7, <1>9, <1>10, <1>11, <1>12 DEF IInv

-----------------------------------------------------------------------------
(***************************************************************************)
(* Threads, selection and types                                            *)
(***************************************************************************)

\* The worker, the main thread and the HTTP threads are different threads, and
\* no thread is called Nobody.
LEMMA DistinctThreads ==
  /\ Nobody \notin Threads /\ Worker \notin Requesters /\ Main \notin Requesters
  /\ Worker \in Threads /\ Main \in Threads /\ Requesters \subseteq Threads
BY Constants DEF Threads, Worker, Main, Nobody

\* selectDevice picks among the candidates it was given.
LEMMA SelectRange ==
  ASSUME NEW devs \in Seq(Device), NEW preferred, NEW strict \in BOOLEAN
  PROVE  Select(devs, preferred, strict) \subseteq DOMAIN devs
<1>1. \A I : First(I) \subseteq I
  BY DEF First
<1>2. \A s : WithSerial(devs, s) \subseteq DOMAIN devs
  BY DEF WithSerial
<1>3. \A p : AtPort(devs, p) \subseteq DOMAIN devs
  BY DEF AtPort
<1> DEFINE fallback == IF WithSerial(devs, lastKnown.serial) # {}
                  THEN WithSerial(devs, lastKnown.serial)
                  ELSE IF AtPort(devs, lastKnown.port) # {}
                  THEN AtPort(devs, lastKnown.port)
                  ELSE DOMAIN devs
<1> DEFINE choice == IF preferred = NoId THEN fallback
            ELSE IF WithSerial(devs, preferred) # {} THEN WithSerial(devs, preferred)
            ELSE IF strict THEN {} ELSE fallback
<1>4. fallback \subseteq DOMAIN devs
  BY <1>2, <1>3
<1>5. choice \subseteq DOMAIN devs
  <2> HIDE DEF fallback
  <2> QED
    BY <1>2, <1>4
<1>6. Select(devs, preferred, strict) = First(choice)
  BY DEF Select
<1> HIDE DEF choice
<1> QED
  BY <1>1, <1>5, <1>6

\* The candidate a selection picks is at one of the ports.
LEMMA SelectedPort ==
  ASSUME NEW devs \in Seq(Device), NEW preferred, NEW strict \in BOOLEAN,
         NEW i \in Select(devs, preferred, strict)
  PROVE  i \in DOMAIN devs /\ devs[i].port \in Ports
<1>1. i \in DOMAIN devs
  BY SelectRange
<1>2. devs[i] \in Device
  BY <1>1
<1> QED
  BY <1>1, <1>2 DEF Device

\* Resetting the reconnect fields keeps the engine in its type.
LEMMA EngineResetType ==
  ASSUME NEW e \in Engine
  PROVE  EngineReset(e) \in Engine
<1>1. 0 \in 0..AttemptCap
  BY Constants
<1> QED
  BY <1>1 DEF EngineReset, Engine

\* Counting a reconnect attempt keeps the engine in its type.
LEMMA BackoffType ==
  ASSUME NEW e \in Engine
  PROVE  Backoff(e) \in Engine
<1>1. (IF e.attempt < AttemptCap THEN e.attempt + 1 ELSE e.attempt) \in 0..AttemptCap
  BY Constants DEF Engine
<1> QED
  BY <1>1 DEF Backoff, Engine

\* So does setting the transport state.
LEMMA EngineStateType ==
  ASSUME NEW e \in Engine, NEW s \in {"disconnected", "probing", "connected",
         "degraded"}
  PROVE  [e EXCEPT !.state = s] \in Engine
BY DEF Engine

\* ScanNext keeps the locals of the discovery in their type.
LEMMA ScanNextType ==
  ASSUME TypeOK, NEW t \in Threads, ScanNext(t)
  PROVE  disc' \in Disc
<1>1. PICK p \in First(disc.todo) : disc' = [disc EXCEPT !.port = p]
  BY DEF ScanNext
<1>2. p \in Ports
  BY <1>1 DEF First, TypeOK, Disc
<1> QED
  BY <1>1, <1>2 DEF TypeOK, Disc, Ends

\* So does ScanBegin,
LEMMA ScanBeginType ==
  ASSUME TypeOK, NEW t \in Threads, ScanBegin(t)
  PROVE  disc' \in Disc
<1> DEFINE ports == {p \in Ports : plugged[p] # NoId}
<1>1. disc' = [disc EXCEPT !.phase = "scan", !.todo = ports, !.found = <<>>]
  BY DEF ScanBegin
<1>2. ports \in SUBSET Ports
  OBVIOUS
<1>3. <<>> \in Seq(Device)
  OBVIOUS
<1> HIDE DEF ports
<1> QED
  BY <1>1, <1>2, <1>3 DEF TypeOK, Disc

\* and the selection after a scan.
LEMMA ChooseRefreshedType ==
  ASSUME TypeOK, ChooseRefreshed
  PROVE  disc' \in Disc
<1>1. PICK i \in Rescanned : disc' = [disc EXCEPT !.phase = "refreshed", !.port = devices[i].port]
  BY DEF ChooseRefreshed
<1>2. devices \in Seq(Device) /\ disc \in Disc
  BY DEF TypeOK
<1>3. devices[i].port \in Ports
  BY <1>2, SelectedPort DEF Rescanned, Disc
<1> QED
  BY <1>1, <1>2, <1>3 DEF Disc, Ends

\* The handle probePort() opens is on a port.
LEMMA OpenPortType ==
  ASSUME IInv, NEW t \in Threads, OpenPort(t)
  PROVE  link' \in Link
<1>1. disc.port \in Ports
  BY DEF IInv, PortInv, OpenPort, Goto
<1> QED
  BY <1>1 DEF IInv, TypeOK, OpenPort, Link, Ends

\* The id an interface answers is a device id.
LEMMA QueryAnsweredType ==
  ASSUME IInv, NEW t \in Threads, QueryAnswered(t)
  PROVE  disc' \in Disc
<1>1. plugged[link.fd] \in Ids
  BY DEF IInv, TypeOK, QueryAnswered, Writable, Link, Ends
<1> QED
  BY <1>1 DEF IInv, TypeOK, QueryAnswered, Disc

\* refreshDevicesUnlocked() only remembers devices at ports.
LEMMA ScanFoundType ==
  ASSUME IInv, NEW t \in Threads, ScanFound(t)
  PROVE  disc' \in Disc
<1> DEFINE device == [serial |-> disc.serial, port |-> disc.port]
<1> DEFINE n == Len(disc.found)
<1> DEFINE repeated == n > 0 /\ disc.found[n].serial = disc.serial
<1>1. disc' = [disc EXCEPT !.todo = @ \ {disc.port},
                           !.found = IF repeated THEN @ ELSE Append(@, device)]
  BY DEF ScanFound
<1>2. disc \in Disc
  BY DEF IInv, TypeOK
<1>3. device \in Device
  BY DEF IInv, PortInv, ScanFound, Goto, Device
<1> HIDE DEF device, repeated
<1>4. disc.found \in Seq(Device) /\ Append(disc.found, device) \in Seq(Device)
  BY <1>2, <1>3 DEF Disc
<1>5. (IF repeated THEN disc.found ELSE Append(disc.found, device)) \in Seq(Device)
  BY <1>4
<1>6. (disc.todo \ {disc.port}) \in SUBSET Ports
  BY <1>2 DEF Disc
<1> QED
  BY <1>1, <1>2, <1>5, <1>6 DEF Disc

\* markDisconnected() keeps the status in its type.
LEMMA GiveUpType ==
  ASSUME TypeOK, NEW from, NEW stage \in {"scan", "selection", "probe"},
         NEW port \in Ends,
         GiveUpDiscovery(from, stage, port)
  PROVE  link' \in Link
<1>1. (IF port = NoPort THEN link.endpoint ELSE port) \in Ends
  BY DEF TypeOK, Link
<1>2. NoId \in Ids
  BY DEF Ids
<1> QED
  BY <1>1, <1>2 DEF TypeOK, Link, GiveUpDiscovery

\* commitConnected() keeps the status, the last known device and the candidate
\* list in their types.
LEMMA CommitType ==
  ASSUME IInv, CommitConnected
  PROVE  link' \in Link /\ lastKnown' \in [serial : Ids, port : Ends]
         /\ devices' \in Seq(Device)
<1> DEFINE device == [serial |-> disc.serial, port |-> disc.port]
<1>1. disc.serial \in Serials /\ disc.port \in Ports
  BY DEF IInv, PortInv, CommitConnected, Goto, Threads
<1>2. device \in Device
  BY <1>1 DEF Device
<1>3. link' = [link EXCEPT !.connected = TRUE, !.endpoint = disc.port,
                              !.active = disc.serial, !.failures = 0, !.stage = ""]
  BY DEF CommitConnected
<1>4. link' \in Link
  BY <1>1, <1>3 DEF IInv, TypeOK, Link, Ends, Ids
<1>5. lastKnown' \in [serial : Ids, port : Ends]
  BY <1>1 DEF CommitConnected, Ends, Ids
<1>6. devices' = IF WithSerial(devices, disc.serial) = {}
                    THEN Append(devices, device)
                    ELSE [i \in DOMAIN devices |->
                            IF devices[i].serial = disc.serial THEN device ELSE devices[i]]
  BY DEF CommitConnected
<1> HIDE DEF device
<1>7. devices \in Seq(Device)
  BY DEF IInv, TypeOK
<1>8. Append(devices, device) \in Seq(Device)
  BY <1>2, <1>7
<1>9. [i \in DOMAIN devices |-> IF devices[i].serial = disc.serial THEN device ELSE devices[i]] \in Seq(Device)
  BY <1>2, <1>7
<1> QED
  BY <1>4, <1>5, <1>6, <1>8, <1>9

\* Recording the outcome of a probe keeps the engine in its type,
LEMMA NoteProbeType ==
  ASSUME IInv, WorkerNoteProbe
  PROVE  engine' \in Engine
<1>1. engine \in Engine
  BY DEF IInv, TypeOK
<1>2. [EngineReset(engine) EXCEPT !.state = "connected"] \in Engine
  BY <1>1, EngineResetType, EngineStateType
<1>3. [Backoff(engine) EXCEPT !.state = "disconnected"] \in Engine
  BY <1>1, BackoffType, EngineStateType
<1> QED
  BY <1>2, <1>3 DEF WorkerNoteProbe

\* and so does recording the outcome of a frame
LEMMA NoteSendType ==
  ASSUME IInv, WorkerNoteSend
  PROVE  engine' \in Engine
<1>1. engine \in Engine
  BY DEF IInv, TypeOK
<1>2. [EngineReset(engine) EXCEPT !.state = "connected"] \in Engine
  BY <1>1, EngineResetType, EngineStateType
<1>3. [engine EXCEPT !.state = "degraded"] \in Engine
  BY <1>1, EngineStateType
<1>4. [Backoff(engine) EXCEPT !.state = "degraded"] \in Engine
  BY <1>1, BackoffType, EngineStateType
<1> QED
  BY <1>2, <1>3, <1>4 DEF WorkerNoteSend

\* and start().
LEMMA StartType ==
  ASSUME IInv, StartEngine
  PROVE  engine' \in Engine
<1>1. EngineReset(engine) \in Engine
  BY EngineResetType DEF IInv, TypeOK
<1> HIDE DEF EngineReset
<1>2. engine' = [EngineReset(engine) EXCEPT !.running = TRUE]
  BY DEF StartEngine
<1> QED
  BY <1>1, <1>2 DEF Engine

\* The request, hot-plug and fault counters keep within their bounds.
LEMMA RequestType ==
  ASSUME TypeOK, NEW r \in Requesters, Request(r)
  PROVE  spent' \in [requests : 0..MaxRequests, plugs : 0..MaxPlugs, faults : 0..MaxFaults]
<1>1. spent.requests + 1 \in 0..MaxRequests
  BY Constants DEF TypeOK, Request
<1> QED
  BY <1>1 DEF TypeOK, Request

\* The same for a hot-plug,
LEMMA HotPlugType ==
  ASSUME TypeOK, HotPlug
  PROVE  spent' \in [requests : 0..MaxRequests, plugs : 0..MaxPlugs, faults : 0..MaxFaults]
<1>1. spent.plugs + 1 \in 0..MaxPlugs
  BY Constants DEF TypeOK, HotPlug
<1> QED
  BY <1>1 DEF TypeOK, HotPlug

\* and for a fault.
LEMMA FaultyType ==
  ASSUME TypeOK, NEW n \in Nat, Faulty(n)
  PROVE  spent' \in [requests : 0..MaxRequests, plugs : 0..MaxPlugs, faults : 0..MaxFaults]
<1>1. spent.faults + n \in 0..MaxFaults
  BY Constants DEF TypeOK, Faulty
<1> QED
  BY <1>1 DEF TypeOK, Faulty

\* The interface stop() takes over is a device.
LEMMA StopJoinType ==
  ASSUME IInv, StopJoin
  PROVE  stopId' \in Ids
<1>1. CASE Writable
  <2>1. plugged[link.fd] \in Ids
    BY <1>1 DEF IInv, TypeOK, Writable, Link, Ends
  <2> QED
    BY <2>1 DEF StopJoin, Ids
<1>2. CASE ~Writable
  BY <1>2 DEF StopJoin, Ids
<1> QED
  BY <1>1, <1>2

-----------------------------------------------------------------------------
(***************************************************************************)
(* Moves of one thread                                                     *)
(***************************************************************************)

\* One thread moves to a place in its own code, and holds discoveryMutex_
\* there exactly if that place is in the discovery code.
LEMMA ThreadMove ==
  ASSUME TypeOK, ThreadsInv, NEW t \in Threads, NEW to, 
         to \in DiscoveryPc <=> holder' = t,
         \A u \in Threads \ {t} : holder' = u <=> holder = u,
         t = Worker => to \in WorkerPc \cup DiscoveryPc,
         t = Main => to \in MainPc \cup DiscoveryPc,
         t \in Requesters => to \in RequesterPc \cup DiscoveryPc,
         t = Worker => pc[t] \notin {"off", "exited"},
         t = Main => (to \in {"refresh", "start"} \cup DiscoveryPc => pc[Worker] = "off"),
         t = Main => (to \in {"blackout", "close", "final", "done"} => pc[Worker] = "exited"),
         pc' = [pc EXCEPT ![t] = to]
  PROVE  ThreadsInv'
BY Constants DEF TypeOK, ThreadsInv, Threads

\* One thread moves, and knows the port and the serial number its new place
\* needs, while no other thread is in a discovery.
LEMMA PortMove ==
  ASSUME TypeOK, ThreadsInv, PortInv, NEW t \in Threads, NEW to,
         pc' = [pc EXCEPT ![t] = to],
         holder \in {t, Nobody},
         to \in {"open", "query", "drop", "found", "failed", "commit"} => disc'.port \in Ports,
         to \in {"found", "commit"} => disc'.serial \in Serials,
         link'.fd # NoPort /\ link'.live => plugged'[link'.fd] # NoId
  PROVE  PortInv'
<1>1. \A u \in Threads \ {t} : pc'[u] = pc[u] /\ pc[u] \notin DiscoveryPc
  <2>1. \A u \in Threads \ {t} : holder # u
    BY DistinctThreads
  <2> QED
    BY <2>1 DEF TypeOK, ThreadsInv
<1>2. pc'[t] = to
  BY DEF TypeOK
<1> QED
  BY <1>1, <1>2 DEF PortInv, DiscoveryPc

-----------------------------------------------------------------------------
(***************************************************************************)
(* Discovery                                                               *)
(***************************************************************************)

\* Selection among the cached candidates.
LEMMA ChooseCachedParts ==
  ASSUME IInv, ChooseCached
  PROVE  disc' \in Disc /\ PortInv' /\ ThreadsInv'
<1> DEFINE chosen == Select(devices, config.preferred, config.strict)
<1>1. PICK p :
      /\ disc' = [NoDisc EXCEPT !.mode = "connect", !.preferred = config.preferred,
                                   !.strict = config.strict,
                                   !.phase = IF chosen = {} THEN "scan" ELSE "cached",
                                   !.port = p]
               /\ p \in IF chosen = {} THEN {NoPort} ELSE {devices[i].port : i \in chosen}
  BY DEF ChooseCached
<1>2. devices \in Seq(Device) /\ config.preferred \in Ids /\ config.strict \in BOOLEAN
  BY DEF IInv, TypeOK
<1>3. \A i \in chosen : devices[i].port \in Ports
  BY <1>2, SelectedPort
<1>4. pc' = [pc EXCEPT ![Worker] = IF chosen = {} THEN "scan" ELSE "open"]
      /\ pc[Worker] = "choose"
  BY DEF ChooseCached, Goto
<1>5. holder' = holder /\ link' = link /\ plugged' = plugged
  BY DEF ChooseCached
<1> HIDE DEF chosen
<1>6. p \in Ends /\ (chosen # {} => p \in Ports)
  BY <1>1, <1>3 DEF Ends
<1>7. disc' \in Disc /\ disc'.port = p
  <2>1. <<>> \in Seq(Device) /\ NoId \in Ids
    BY DEF Ids
  <2>2. (IF chosen = {} THEN "scan" ELSE "cached") \in {"scan", "cached"}
    OBVIOUS
  <2> QED
    BY <1>1, <1>2, <1>6, <2>1, <2>2 DEF Disc, NoDisc
<1>8. holder = Worker /\ Worker \in Threads
  BY <1>4 DEF IInv, ThreadsInv, Threads, DiscoveryPc
<1>9. PortInv'
  BY <1>4, <1>5, <1>6, <1>7, <1>8, PortMove DEF IInv, PortInv
<1>10. ThreadsInv'
  <2>1. (IF chosen = {} THEN "scan" ELSE "open") \in DiscoveryPc
    BY DEF DiscoveryPc
  <2> QED
    BY <1>4, <1>5, <1>8, <2>1, DistinctThreads, ThreadMove DEF IInv
<1> QED
  BY <1>7, <1>9, <1>10

\* refreshDevices() takes discoveryMutex_, or finds the link up and returns.
LEMMA RefreshBeginParts ==
  ASSUME IInv, NEW t \in Threads, t # Worker, RefreshBegin(t)
  PROVE  ThreadsInv' /\ PortInv'
<1> DEFINE to == IF link.connected THEN AfterRefresh(t) ELSE "scan"
<1>1. pc[t] = "refresh" /\ pc' = [pc EXCEPT ![t] = to] /\ link' = link
      /\ plugged' = plugged
  BY DEF RefreshBegin, Goto
<1>2. to \in {"start", "persist", "scan"} /\ (t = Main => to # "persist")
      /\ (t # Main => to # "start")
  BY DEF AfterRefresh
<1>3. holder = Nobody /\ holder' = IF link.connected THEN Nobody ELSE t
  BY DEF RefreshBegin
<1>4. to = "scan" <=> ~link.connected
  BY DEF AfterRefresh
<1>5. t \in Requesters \cup {Main}
  BY DEF Threads
<1> HIDE DEF to
<1>6. PortInv'
  BY <1>1, <1>2, <1>3, PortMove DEF IInv, PortInv
<1>7. ThreadsInv'
  <2>1. to \in DiscoveryPc <=> holder' = t
    BY <1>2, <1>3, <1>4, DistinctThreads DEF DiscoveryPc
  <2>2. \A u \in Threads \ {t} : holder' = u <=> holder = u
    BY <1>3, DistinctThreads
  <2>3. /\ t = Main => to \in MainPc \cup DiscoveryPc
        /\ t \in Requesters => to \in RequesterPc \cup DiscoveryPc
        /\ to \notin {"blackout", "close", "final", "done"}
    BY <1>2, DistinctThreads DEF MainPc, RequesterPc, DiscoveryPc
  <2>4. t = Main => pc[Worker] = "off"
    BY <1>1 DEF IInv, ThreadsInv
  <2> QED
    BY <1>1, <2>1, <2>2, <2>3, <2>4, ThreadMove DEF IInv
<1> QED
  BY <1>6, <1>7

\* The next port of a scan is a port.
LEMMA ScanNextParts ==
  ASSUME IInv, NEW t \in Threads, holder = t, ScanNext(t)
  PROVE  PortInv'
<1>1. PICK p \in First(disc.todo) : disc' = [disc EXCEPT !.port = p]
  BY DEF ScanNext
<1>2. p \in Ports
  BY <1>1 DEF First, IInv, TypeOK, Disc
<1>3. disc'.port \in Ports
  BY <1>1, <1>2 DEF IInv, TypeOK, Disc
<1> QED
  BY <1>3, PortMove DEF IInv, PortInv, ScanNext, Goto

\* Opening a port gives the handle to the holder of discoveryMutex_, and
\* cannot happen on the live link of stop().
LEMMA OpenPortParts ==
  ASSUME IInv, NEW t \in Threads, holder = t, OpenPort(t)
  PROVE  HandleInv' /\ StopInv'
<1>1. ~link.connected /\ t # Nobody
  BY DistinctThreads DEF IInv, HandleInv
<1>2. pc'[t] = "query" /\ holder' = t
  BY DEF IInv, TypeOK, OpenPort, Goto
<1>3. link'.connected = link.connected /\ link'.fd = disc'.port /\ disc' = disc
      /\ plugged' = plugged
  BY DEF IInv, TypeOK, Link, OpenPort
<1>4. HandleInv'
  BY <1>1, <1>2, <1>3 DEF HandleInv
<1>5. stopId' = stopId /\ glow' = glow /\ (pc'[Main] = pc[Main] \/ pc'[Main] = "query") 
  BY Constants DEF OpenPort, Goto, IInv, TypeOK, Threads
<1>6. t = Main => pc[Main] = "open"
  BY DEF OpenPort, Goto
<1>7. pc[Main] # "open" => pc'[Main] = pc[Main]
  BY <1>6, Constants DEF OpenPort, Goto, IInv, TypeOK, Threads
<1>8. StopInv'
  BY <1>1, <1>5, <1>7 DEF IInv, StopInv
<1> QED
  BY <1>4, <1>8

\* An answered serial request names an interface, and leaves the handle with
\* the holder of discoveryMutex_.
LEMMA QueryAnsweredParts ==
  ASSUME IInv, NEW t \in Threads, holder = t, QueryAnswered(t)
  PROVE  PortInv' /\ HandleInv'
<1>1. pc[t] = "query"
      /\ pc' = [pc EXCEPT ![t] = IF disc.phase = "scan" THEN "found" ELSE "commit"]
  BY DEF QueryAnswered, Goto
<1>2. link' = link /\ holder' = holder /\ plugged' = plugged
  BY DEF QueryAnswered
<1>3. plugged[link.fd] \in Serials
  <2>1. link.fd \in Ports
    BY DEF IInv, TypeOK, QueryAnswered, Writable, Link, Ends
  <2>2. plugged[link.fd] # NoId
    BY DEF IInv, PortInv, QueryAnswered, Writable
  <2> QED
    BY <2>1, <2>2 DEF IInv, TypeOK, Ids
<1>4. disc'.serial \in Serials /\ disc'.port = disc.port
  BY <1>3 DEF QueryAnswered, IInv, TypeOK, Disc
<1>5. disc.port \in Ports
  BY <1>1 DEF IInv, PortInv
<1>6. PortInv'
  BY <1>1, <1>2, <1>4, <1>5, PortMove DEF IInv, PortInv
<1>7. pc'[t] \in {"found", "commit"}
  BY <1>1 DEF IInv, TypeOK
<1>8. HandleInv'
  BY <1>1, <1>2, <1>4, <1>7 DEF IInv, HandleInv
<1> QED
  BY <1>6, <1>8

\* A step of a thread outside the stop() sequence, with the link down, leaves
\* what stop() relies on alone.
LEMMA StopMove ==
  ASSUME TypeOK, StopInv, ~link.connected, stopId' = stopId, glow' = glow,
         NEW t \in Threads, NEW to, pc' = [pc EXCEPT ![t] = to],
         pc[t] \notin {"blackout", "close", "final", "done"}
  PROVE  StopInv'
<1> SUFFICES ASSUME stopId # NoId
             PROVE  pc[Main] = pc'[Main] /\ pc[Main] # "blackout" /\ glow[stopId] = Dark
                    /\ pc[Main] \in {"blackout", "close", "final", "done"}
  BY DEF StopInv
<1>1. pc[Main] \in {"blackout", "close", "final", "done"}
  BY DEF StopInv
<1>2. pc[Main] # "blackout"
  BY DEF StopInv
<1>3. pc'[Main] = pc[Main]
  BY <1>1, DistinctThreads DEF TypeOK
<1> QED
  BY <1>1, <1>2, <1>3 DEF StopInv

\* disconnect() closes the handle and clears the counters.
LEMMA LinkDownFacts ==
  ASSUME Disconnect
  PROVE  ~link'.connected /\ link'.fd = NoPort /\ link'.failures = 0 /\ ~link'.live
BY DEF Disconnect, LinkDown

\* A failed query, or a port a scan is done with, ends in disconnect(): the
\* handle is closed and the counters are cleared.
LEMMA GiveBackParts ==
  ASSUME IInv, NEW t \in Threads, holder = t, QueryDrop(t) \/ ScanFound(t)
  PROVE  ErrorInv' /\ StopInv' /\ HandleInv' /\ BackoffInv'
<1>1. ~link'.connected /\ link'.fd = NoPort /\ link'.failures = 0 /\ lost' = 0
  BY LinkDownFacts DEF QueryDrop, ScanFound
<1>2. ErrorInv'
  <2>1. NoStaleError'
    BY <1>1 DEF NoStaleError
  <2>2. (link.failures <= lost)'
    BY <1>1
  <2> QED
    BY <2>1, <2>2 DEF ErrorInv
<1>3. HandleInv' /\ BackoffInv'
  BY <1>1 DEF HandleInv, BackoffInv
<1>4. ~link.connected
  BY DistinctThreads DEF IInv, HandleInv
<1>5. stopId' = stopId /\ glow' = glow
  BY DEF QueryDrop, ScanFound
<1>6. PICK to : pc' = [pc EXCEPT ![t] = to]
  BY DEF QueryDrop, ScanFound, Goto
<1>7. pc[t] \in {"drop", "found"}
  BY DEF QueryDrop, ScanFound, Goto
<1>8. StopInv'
  BY <1>4, <1>5, <1>6, <1>7, StopMove DEF IInv
<1> QED
  BY <1>2, <1>3, <1>8

\* discoverAndConnect() gives up: discoveryMutex_ is released with the handle
\* closed.
LEMMA GiveUpParts ==
  ASSUME IInv, NEW from \in {"failed", "scanned"}, NEW stage \in {"scan",
         "selection", "probe"}, NEW port \in Ends,
         GiveUpDiscovery(from, stage, port)
  PROVE  ThreadsInv' /\ PortInv' /\ HandleInv'
<1>1. pc[Worker] = from /\ pc' = [pc EXCEPT ![Worker] = "probeStatus"]
  BY DEF GiveUpDiscovery, Goto
<1>2. holder' = Nobody /\ plugged' = plugged
  BY DEF GiveUpDiscovery
<1>3. ~link'.connected /\ link'.fd = link.fd /\ link'.live = link.live
  BY DEF GiveUpDiscovery, IInv, TypeOK, Link
<1>4. holder = Worker
  BY <1>1, DistinctThreads DEF IInv, ThreadsInv, DiscoveryPc
<1>5. ThreadsInv'
  <2>1. "probeStatus" \in WorkerPc /\ "probeStatus" \notin DiscoveryPc
    BY DEF WorkerPc, DiscoveryPc
  <2>2. \A u \in Threads \ {Worker} : holder' = u <=> holder = u
    BY <1>2, <1>4, DistinctThreads
  <2> QED
    BY <1>1, <1>2, <2>1, <2>2, DistinctThreads, ThreadMove DEF IInv
<1>6. PortInv'
  BY <1>1, <1>2, <1>3, <1>4, DistinctThreads, PortMove DEF IInv, PortInv
<1>7. link.fd = NoPort
  BY <1>1, <1>4 DEF IInv, HandleInv
<1>8. HandleInv'
  BY <1>3, <1>7 DEF HandleInv
<1> QED
  BY <1>5, <1>6, <1>8

\* The port selected after a scan is a port.
LEMMA ChooseRefreshedParts ==
  ASSUME IInv, ChooseRefreshed
  PROVE  PortInv'
<1>1. PICK i \in Rescanned : disc' = [disc EXCEPT !.phase = "refreshed", !.port = devices[i].port]
  BY DEF ChooseRefreshed
<1>2. devices \in Seq(Device) /\ disc \in Disc
  BY DEF IInv, TypeOK
<1>3. devices[i].port \in Ports
  BY <1>2, SelectedPort DEF Rescanned, Disc
<1>4. disc'.port \in Ports
  BY <1>1, <1>2, <1>3 DEF Disc
<1>5. holder = Worker
  BY DistinctThreads DEF ChooseRefreshed, Goto, IInv, ThreadsInv, DiscoveryPc
<1> QED
  BY <1>4, <1>5, DistinctThreads, PortMove DEF IInv, PortInv, ChooseRefreshed, Goto

\* commitConnected() brings the link up with the handle on the port it probed
\* and releases discoveryMutex_.
LEMMA CommitParts ==
  ASSUME IInv, CommitConnected
  PROVE  ThreadsInv' /\ PortInv' /\ HandleInv' /\ ErrorInv'
<1>1. pc[Worker] = "commit" /\ pc' = [pc EXCEPT ![Worker] = "probeStatus"]
  BY DEF CommitConnected, Goto
<1>2. holder' = Nobody /\ plugged' = plugged /\ lost' = 0
  BY DEF CommitConnected
<1>3. /\ link'.connected /\ link'.fd = link.fd /\ link'.live = link.live
      /\ link'.endpoint = disc.port /\ link'.failures = 0 /\ link'.stage = ""
  BY DEF CommitConnected, IInv, TypeOK, Link
<1>4. holder = Worker
  BY <1>1, DistinctThreads DEF IInv, ThreadsInv, DiscoveryPc
<1>5. ThreadsInv'
  <2>1. "probeStatus" \in WorkerPc /\ "probeStatus" \notin DiscoveryPc
    BY DEF WorkerPc, DiscoveryPc
  <2>2. \A u \in Threads \ {Worker} : holder' = u <=> holder = u
    BY <1>2, <1>4, DistinctThreads
  <2> QED
    BY <1>1, <1>2, <2>1, <2>2, DistinctThreads, ThreadMove DEF IInv
<1>6. PortInv'
  BY <1>1, <1>2, <1>3, <1>4, DistinctThreads, PortMove DEF IInv, PortInv
<1>7. ~link.connected
  BY <1>4 DEF IInv, HandleInv
<1>8. disc.port \in Ports
  BY <1>1, DistinctThreads DEF IInv, PortInv
<1>9. link.fd \in {NoPort, disc.port} /\ disc.port # NoPort
  BY <1>7, <1>8, Constants DEF IInv, HandleInv
<1>10. HandleInv'
  BY <1>2, <1>3, <1>9 DEF HandleInv
<1>11. ErrorInv'
  <2>1. NoStaleError'
    BY <1>3 DEF NoStaleError
  <2>2. link'.failures = 0 /\ lost' = 0
    BY <1>2, <1>3
  <2>3. (link.failures <= lost)'
    BY <2>2
  <2> QED
    BY <2>1, <2>3 DEF ErrorInv
<1> QED
  BY <1>5, <1>6, <1>10, <1>11

\* refreshDevices() releases discoveryMutex_ and returns to its caller.
LEMMA RefreshEndParts ==
  ASSUME IInv, NEW t \in Threads, t # Worker, RefreshEnd(t)
  PROVE  ThreadsInv' /\ PortInv'
<1>1. pc[t] = "scanned" /\ pc' = [pc EXCEPT ![t] = AfterRefresh(t)]
  BY DEF RefreshEnd, Goto
<1>2. holder' = Nobody /\ plugged' = plugged
  BY DEF RefreshEnd
<1>3. link'.connected = link.connected /\ link'.fd = link.fd /\ link'.live = link.live
  BY DEF RefreshEnd, IInv, TypeOK, Link
<1>4. holder = t
  BY <1>1 DEF IInv, ThreadsInv, DiscoveryPc
<1>5. ThreadsInv'
  <2>1. /\ AfterRefresh(t) \notin DiscoveryPc
        /\ t = Main => AfterRefresh(t) \in MainPc
        /\ t \in Requesters => AfterRefresh(t) \in RequesterPc
        /\ AfterRefresh(t) \notin {"blackout", "close", "final", "done"}
    BY DistinctThreads DEF MainPc, RequesterPc, DiscoveryPc, AfterRefresh
  <2>2. \A u \in Threads \ {t} : holder' = u <=> holder = u
    BY <1>2, <1>4, DistinctThreads
  <2>3. holder' # t
    BY <1>2, DistinctThreads
  <2>4. t = Main => pc[Worker] = "off"
    BY <1>1 DEF IInv, ThreadsInv, DiscoveryPc
  <2> QED
    BY <1>1, <2>1, <2>2, <2>3, <2>4, ThreadMove DEF IInv
<1>6. AfterRefresh(t) \in {"start", "persist"}
  BY DEF AfterRefresh
<1>7. PortInv'
  BY <1>1, <1>2, <1>3, <1>4, <1>6, PortMove DEF IInv, PortInv
<1> QED
  BY <1>5, <1>7

\* A step of a thread outside the end of stop() sends no blackout frame.
LEMMA BlackoutMove ==
  ASSUME TypeOK, BlackoutInv, blackouts' = blackouts, NEW t \in Threads, NEW to,
         pc' = [pc EXCEPT ![t] = to],
         pc[t] \notin {"close", "final", "done"}
  PROVE  BlackoutInv'
BY DEF TypeOK, BlackoutInv

\* disconnect() leaves no lost frame counted.
LEMMA DisconnectErrors ==
  ASSUME Disconnect, lost' = 0
  PROVE  ErrorInv'
<1>1. NoStaleError'
  BY LinkDownFacts DEF NoStaleError
<1>2. (link.failures <= lost)'
  BY LinkDownFacts
<1> QED
  BY <1>1, <1>2 DEF ErrorInv

\* discoverAndConnect() takes discoveryMutex_, or finds the link up.
LEMMA DiscoverBeginParts ==
  ASSUME IInv, DiscoverBegin
  PROVE  ThreadsInv'
<1> DEFINE to == IF link.connected THEN "probeStatus" ELSE "choose"
<1>1. pc[Worker] = "probing" /\ pc' = [pc EXCEPT ![Worker] = to]
  BY DEF DiscoverBegin, Goto
<1>2. holder = Nobody /\ holder' = IF link.connected THEN Nobody ELSE Worker
  BY DEF DiscoverBegin
<1>3. to \in DiscoveryPc <=> holder' = Worker
  BY <1>2 DEF DiscoveryPc
<1>4. to \in WorkerPc \cup DiscoveryPc
  BY DEF WorkerPc, DiscoveryPc
<1>5. \A u \in Threads \ {Worker} : holder' = u <=> holder = u
  BY <1>2, DistinctThreads
<1> HIDE DEF to
<1> QED
  BY <1>1, <1>3, <1>4, <1>5, DistinctThreads, ThreadMove DEF IInv

\* Reading status() moves the worker to its bookkeeping.
LEMMA StatusParts ==
  ASSUME IInv, WorkerStatus
  PROVE  ThreadsInv'
<1>1. PICK to \in {"probeNote", "sendNote"} :
        pc' = [pc EXCEPT ![Worker] = to] /\ pc[Worker] \in {"probeStatus", "sendStatus"}
  BY DEF WorkerStatus, Goto
<1>2. holder' = holder
  BY DEF WorkerStatus
<1>3. to \in WorkerPc /\ to \notin DiscoveryPc /\ holder # Worker
  BY <1>1, DistinctThreads DEF WorkerPc, DiscoveryPc, IInv, ThreadsInv
<1> QED
  BY <1>1, <1>2, <1>3, DistinctThreads, ThreadMove DEF IInv

\* start() creates the worker thread, outside any discovery of its own.
LEMMA StartParts ==
  ASSUME IInv, StartEngine
  PROVE  ThreadsInv' /\ HandleInv'
<1>1. pc[Main] = "start" /\ pc' = [pc EXCEPT ![Main] = "running", ![Worker] = "loop"]
      /\ holder' = holder /\ link' = link /\ disc' = disc
  BY DEF StartEngine
<1>2. /\ pc'[Main] = "running" /\ pc'[Worker] = "loop"
      /\ \A r \in Requesters : pc'[r] = pc[r]
  BY <1>1, DistinctThreads DEF IInv, TypeOK
<1>3. holder # Main /\ holder # Worker
  BY <1>1, DistinctThreads DEF IInv, ThreadsInv, DiscoveryPc
<1>4. holder \in Requesters \cup {Nobody}
  BY <1>3 DEF IInv, TypeOK, Threads
<1>5. HandleInv'
  BY <1>1, <1>2, <1>4 DEF IInv, HandleInv
<1>6. ThreadsInv'
  BY <1>1, <1>2, <1>3, DistinctThreads DEF IInv, ThreadsInv, Threads, DiscoveryPc,
                                           WorkerPc, MainPc
<1> QED
  BY <1>5, <1>6

\* Unplugging kills the handle on that port, and is not counted against
\* stop() when it hits the interface stop() took over.
LEMMA UnplugParts ==
  ASSUME IInv, NEW p \in Ports, Unplug(p)
  PROVE  PortInv' /\ StopInv'
<1>1. plugged' = [plugged EXCEPT ![p] = NoId] /\ pc' = pc /\ disc' = disc
      /\ glow' = glow
  BY DEF Unplug
<1>2. /\ link'.connected = link.connected /\ link'.fd = link.fd
      /\ link'.live <=> link.live /\ link.fd # p
  BY DEF Unplug, IInv, TypeOK, Link
<1>3. \A q \in Ports \ {p} : plugged'[q] = plugged[q]
  BY <1>1 DEF IInv, TypeOK
<1>4. link.fd \in Ports \cup {NoPort}
  BY DEF IInv, TypeOK, Link, Ends
<1>5. PortInv'
  BY <1>1, <1>2, <1>3, <1>4 DEF IInv, PortInv
<1>6. stopId' = IF stopId = plugged[p] THEN NoId ELSE stopId
  BY DEF Unplug
<1>7. StopInv'
  <2> SUFFICES ASSUME stopId' # NoId PROVE StopInv'
    BY DEF StopInv
  <2>1. stopId' = stopId /\ stopId # plugged[p]
    BY <1>6
  <2>2. pc[Main] = "blackout" => link.fd # p
    BY <2>1 DEF IInv, StopInv
  <2>3. pc[Main] = "blackout" => plugged'[link.fd] = stopId /\ link'.live
    BY <1>2, <1>3, <1>4, <2>1, <2>2 DEF IInv, StopInv, Writable
  <2> QED
    BY <1>1, <1>2, <2>1, <2>3 DEF IInv, StopInv, Writable
<1> QED
  BY <1>5, <1>7

-----------------------------------------------------------------------------
(***************************************************************************)
(* sendUniverse()                                                          *)
(***************************************************************************)

\* A fault is counted.
LEMMA FaultySpends ==
  ASSUME TypeOK, NEW n \in Nat, Faulty(n)
  PROVE  spent'.faults = spent.faults + n
BY DEF TypeOK, Faulty

\* While the link is up, reopenCurrentEndpointLocked() opens the endpoint of
\* the status and changes nothing else.
LEMMA ReopenedFacts ==
  ASSUME IInv, link.connected
  PROVE  /\ ReopenTarget = link.endpoint /\ link.endpoint \in Ports
         /\ Reopened \in Link
         /\ Reopened.fd = link.endpoint /\ Reopened.live /\ Reopened.connected
         /\ Reopened.endpoint = link.endpoint
         /\ Reopened.failures = link.failures /\ Reopened.stage = link.stage
<1>1. link \in Link /\ link.endpoint # NoPort
  BY DEF IInv, TypeOK, HandleInv
<1>2. ReopenTarget = link.endpoint
  BY <1>1 DEF ReopenTarget
<1>3. link.endpoint \in Ports
  BY <1>1 DEF Link, Ends
<1> QED
  BY <1>1, <1>2, <1>3 DEF Reopened, Link, Ends

\* A delivered frame shows on the interface behind the handle and clears the
\* failure count and the write error.
LEMMA DeliveredFacts ==
  ASSUME IInv, NEW l \in Link, NEW f \in Frames, Delivered(l, f),
         l.fd \in Ports, plugged[l.fd] # NoId, l.connected
  PROVE  /\ link' \in Link /\ glow' \in [Serials -> Frames] /\ lost' \in Nat
         /\ link'.connected /\ link'.fd = l.fd /\ link'.live = l.live /\ link'.endpoint = l.endpoint
         /\ glow'[plugged[l.fd]] = f
         /\ link'.failures = 0
         /\ (link.stage = IF link.failures = 0 THEN "" ELSE "write") /\ l.stage = link.stage
              => link'.stage = ""
         /\ lost' = 0
<1>1. plugged[l.fd] \in Serials
  BY DEF IInv, TypeOK, Ids
<1>2. link' = [l EXCEPT !.failures = 0, !.stage = IF @ = "write" THEN "" ELSE @]
      /\ glow' = [glow EXCEPT ![plugged[l.fd]] = f] /\ lost' = 0
  BY DEF Delivered
<1>3. glow' \in [Serials -> Frames] /\ glow'[plugged[l.fd]] = f
  BY <1>1, <1>2 DEF IInv, TypeOK
<1>4. link' \in Link
  BY <1>2 DEF Link
<1> QED
  BY <1>2, <1>3, <1>4 DEF Link

\* No failure is counted and no frame was lost.
LEMMA NoneLost ==
  ASSUME link'.failures = 0, lost' = 0
  PROVE  (link.failures <= lost)'
OBVIOUS

\* A delivered frame leaves the error fields of a healthy link.
LEMMA DeliveredErrors ==
  ASSUME link'.failures = 0, link'.stage = "", lost' = 0
  PROVE  ErrorInv'
<1>1. NoStaleError'
  BY DEF NoStaleError
<1> QED
  BY <1>1, NoneLost DEF ErrorInv

\* The status of a link that was given up is a status.
LEMMA GivenUpType ==
  ASSUME NEW e \in Ends
  PROVE  [connected |-> FALSE, fd |-> NoPort, live |-> FALSE, endpoint |-> e,
          active |-> NoId, failures |-> 0, stage |-> "write"] \in Link
<1>1. NoPort \in Ends /\ NoId \in Ids
  BY DEF Ends, Ids
<1> QED
  BY <1>1 DEF Link

\* Counting a lost frame keeps the link, with one failure more and a write
\* error, unless that reaches the retry limit.
LEMMA CountLostFacts ==
  ASSUME IInv, NEW l \in Link, l.connected, l.failures = link.failures
  PROVE  LET k == CountLostFrame(l)
         IN  /\ k \in Link
             /\ k.connected => k.fd = l.fd /\ k.live = l.live
             /\ ~k.connected => k.fd = NoPort
             /\ k.endpoint = l.endpoint
             /\ k.failures <= link.failures + 1
             /\ k.connected => k.failures = link.failures + 1 /\ k.stage = "write"
             /\ k.connected \/ link.failures + 1 >= config.retryLimit
<1>1. config.retryLimit \in Nat
  BY Constants DEF IInv, TypeOK
<1>2. link.failures \in Nat /\ NoId \in Ids
  BY DEF IInv, TypeOK, Link, Ids
<1>3. CASE l.failures + 1 < config.retryLimit
  <2>1. CountLostFrame(l) = [l EXCEPT !.failures = @ + 1, !.stage = "write"]
    BY <1>3 DEF CountLostFrame
  <2>2. l.failures + 1 \in Nat /\ l.failures + 1 <= link.failures + 1
    BY <1>2
  <2>3. CountLostFrame(l) \in Link
    BY <2>1, <2>2 DEF Link
  <2>4. /\ CountLostFrame(l).connected /\ CountLostFrame(l).fd = l.fd
        /\ CountLostFrame(l).live = l.live /\ CountLostFrame(l).endpoint = l.endpoint
        /\ CountLostFrame(l).failures = l.failures + 1 /\ CountLostFrame(l).stage = "write"
    BY <2>1 DEF Link
  <2> HIDE DEF CountLostFrame
  <2> QED
    BY <2>2, <2>3, <2>4
<1>4. CASE ~(l.failures + 1 < config.retryLimit)
  <2>1. CountLostFrame(l) = [l EXCEPT !.connected = FALSE, !.active = NoId, !.fd = NoPort,
                                      !.live = FALSE, !.failures = 0, !.stage = "write"]
    BY <1>4 DEF CountLostFrame
  <2>2. link.failures + 1 >= config.retryLimit
    BY <1>1, <1>2, <1>4
  <2>3. NoPort \in Ends
    BY DEF Ends
  <2>4. CountLostFrame(l) \in Link
    <3>1. CountLostFrame(l) = [connected |-> FALSE, fd |-> NoPort, live |-> FALSE,
                               endpoint |-> l.endpoint, active |-> NoId, failures |-> 0,
                               stage |-> "write"]
      BY <2>1 DEF Link
    <3>2. l.endpoint \in Ends
      BY DEF Link
    <3> QED
      BY <3>1, <3>2, GivenUpType
  <2>5. /\ ~CountLostFrame(l).connected /\ CountLostFrame(l).fd = NoPort
        /\ CountLostFrame(l).endpoint = l.endpoint /\ CountLostFrame(l).failures = 0
    BY <2>1 DEF Link
  <2>6. 0 <= link.failures + 1
    BY <1>2
  <2> QED
    BY <2>2, <2>4, <2>5, <2>6
<1> QED
  BY <1>3, <1>4

\* What a lost frame leaves of the handle before it is counted: closed,
\* reopened on the same endpoint, or as it was when the endpoint is gone; and
\* losing a frame on a writable handle takes a fault.
LEMMA FailedReopenFacts ==
  ASSUME IInv, link.connected, NEW after \in LinkAfterFailedReopen
  PROVE  /\ after.l \in Link /\ after.l.connected /\ after.l.failures = link.failures
         /\ after.l.endpoint = link.endpoint
         /\ after.l.fd \in {NoPort, link.endpoint}
         /\ after.l.fd # NoPort /\ after.l.live => plugged[after.l.fd] # NoId
         /\ after.cost \in Nat
         /\ Writable => after.cost > 0
<1>1. FirstWriteFault \in {0, 1} /\ (Writable => FirstWriteFault = 1)
  BY DEF FirstWriteFault
<1>2. CASE ReopenExists /\ after = [l |-> [link EXCEPT !.fd = NoPort, !.live = FALSE], cost |-> FirstWriteFault + 1]
  <2>1. after.l = [link EXCEPT !.fd = NoPort, !.live = FALSE] /\ after.cost = FirstWriteFault + 1
    BY <1>2
  <2>2. link \in Link
    BY DEF IInv, TypeOK
  <2>3. /\ after.l \in Link /\ after.l.connected /\ after.l.failures = link.failures
        /\ after.l.endpoint = link.endpoint /\ after.l.fd = NoPort
    BY <2>1, <2>2, ZenonT(30) DEF Link, Ends
  <2>4. after.cost \in Nat /\ after.cost > 0
    BY <1>1, <2>1
  <2> QED
    BY <2>3, <2>4
<1>3. CASE ReopenExists /\ after = [l |-> Reopened, cost |-> FirstWriteFault + 1]
  BY <1>1, <1>3, ReopenedFacts DEF ReopenExists
<1>4. CASE after = [l |-> link, cost |-> FirstWriteFault]
  BY <1>1, <1>4 DEF IInv, TypeOK, HandleInv, PortInv
<1> QED
  BY <1>2, <1>3, <1>4 DEF LinkAfterFailedReopen

\* One call of sendUniverse().  It does nothing without a link; it keeps the
\* handle on the endpoint of the status; and without a fault on a writable
\* handle the frame arrives.
LEMMA SendUniverseFacts ==
  ASSUME IInv, NEW f \in Frames, NEW ok \in BOOLEAN, SendUniverse(f, ok)
  PROVE  /\ link' \in Link /\ glow' \in [Serials -> Frames] /\ lost' \in Nat
         /\ spent' \in [requests : 0..MaxRequests, plugs : 0..MaxPlugs, faults : 0..MaxFaults]
         /\ ErrorInv'
         /\ ~link.connected => link' = link /\ glow' = glow
         /\ link.connected => /\ link'.endpoint = link.endpoint
                              /\ link'.fd \in {NoPort, link.endpoint}
                              /\ ~link'.connected => link'.fd = NoPort
         /\ link'.fd # NoPort /\ link'.live => plugged[link'.fd] # NoId
         /\ link.connected /\ Writable /\ spent'.faults = spent.faults =>
              ok /\ link'.connected /\ link'.fd = link.fd /\ link'.live = link.live
              /\ glow'[plugged[link.fd]] = f
<1>1. link \in Link
      /\ spent \in [requests : 0..MaxRequests, plugs : 0..MaxPlugs, faults : 0..MaxFaults]
      /\ lost \in Nat /\ glow \in [Serials -> Frames]
  BY DEF IInv, TypeOK
<1>2. CASE SendWithoutLink(ok)
  <2>1. ~link.connected /\ link' = link /\ glow' = glow /\ spent' = spent /\ lost' = lost
    BY <1>2 DEF SendWithoutLink
  <2>2. ErrorInv'
    BY <2>1 DEF IInv, ErrorInv, NoStaleError
  <2>3. link'.fd # NoPort /\ link'.live => plugged[link'.fd] # NoId
    BY <2>1 DEF IInv, PortInv
  <2> QED
    BY <1>1, <2>1, <2>2, <2>3
<1>3. CASE SendDelivers(f, ok)
  <2>1. link.connected /\ Writable /\ ok /\ Delivered(link, f) /\ spent' = spent
    BY <1>3 DEF SendDelivers
  <2>2. link.fd \in Ports /\ link.fd = link.endpoint
    BY <1>1, <2>1 DEF IInv, HandleInv, Writable, Link, Ends
  <2>3. plugged[link.fd] # NoId
    BY <2>1 DEF IInv, PortInv, Writable
  <2>4. link.stage = IF link.failures = 0 THEN "" ELSE "write"
    BY <2>1 DEF IInv, ErrorInv, NoStaleError
  <2>5. /\ link' \in Link /\ glow' \in [Serials -> Frames] /\ lost' \in Nat
        /\ link'.connected /\ link'.fd = link.fd /\ link'.live = link.live
        /\ link'.endpoint = link.endpoint
        /\ glow'[plugged[link.fd]] = f /\ link'.failures = 0 /\ link'.stage = "" /\ lost' = 0
    BY <1>1, <2>1, <2>2, <2>3, <2>4, DeliveredFacts
  <2>6. ErrorInv'
    BY <2>5, DeliveredErrors
  <2> QED
    BY <1>1, <2>1, <2>2, <2>3, <2>5, <2>6
<1>4. CASE SendRecovers(f, ok)
  <2>1. link.connected /\ ReopenExists /\ Faulty(FirstWriteFault) /\ Delivered(Reopened, f)
    BY <1>4 DEF SendRecovers
  <2>2. FirstWriteFault \in Nat /\ (Writable => FirstWriteFault = 1)
    BY DEF FirstWriteFault
  <2>3. plugged[link.endpoint] # NoId
    BY <2>1, ReopenedFacts DEF ReopenExists
  <2>4. link.stage = IF link.failures = 0 THEN "" ELSE "write"
    BY <2>1 DEF IInv, ErrorInv, NoStaleError
  <2>5. /\ link' \in Link /\ glow' \in [Serials -> Frames] /\ lost' \in Nat
        /\ link'.connected /\ link'.fd = link.endpoint /\ link'.endpoint = link.endpoint
        /\ link'.failures = 0 /\ link'.stage = "" /\ lost' = 0
    <3> HIDE DEF Reopened
    <3> QED
      BY <2>1, <2>3, <2>4, ReopenedFacts, DeliveredFacts
  <2>6. ErrorInv'
    BY <2>5, DeliveredErrors
  <2>7. spent' \in [requests : 0..MaxRequests, plugs : 0..MaxPlugs, faults : 0..MaxFaults]
        /\ spent'.faults = spent.faults + FirstWriteFault
    BY <2>1, <2>2, FaultyType, FaultySpends DEF IInv
  <2>8. Writable => spent'.faults # spent.faults
    BY <1>1, <2>2, <2>7
  <2> QED
    BY <2>1, <2>3, <2>5, <2>6, <2>7, <2>8
<1>5. CASE SendLoses(ok)
  <2>1. link.connected /\ lost' = lost + 1 /\ glow' = glow
    BY <1>5 DEF SendLoses
  <2>2. PICK after \in LinkAfterFailedReopen :
          Faulty(after.cost) /\ link' = CountLostFrame(after.l)
    BY <1>5 DEF SendLoses
  <2>3. /\ after.l \in Link /\ after.l.connected /\ after.l.failures = link.failures
        /\ after.l.endpoint = link.endpoint
        /\ after.l.fd \in {NoPort, link.endpoint}
        /\ after.l.fd # NoPort /\ after.l.live => plugged[after.l.fd] # NoId
        /\ after.cost \in Nat
        /\ Writable => after.cost > 0
    BY <2>1, FailedReopenFacts
  <2>4. /\ link' \in Link
        /\ link'.connected => link'.fd = after.l.fd /\ link'.live = after.l.live
        /\ ~link'.connected => link'.fd = NoPort
        /\ link'.endpoint = after.l.endpoint
        /\ link'.failures <= link.failures + 1
        /\ link'.connected => link'.failures = link.failures + 1 /\ link'.stage = "write"
    BY <2>2, <2>3, CountLostFacts
  <2>5. spent' \in [requests : 0..MaxRequests, plugs : 0..MaxPlugs, faults : 0..MaxFaults]
        /\ spent'.faults = spent.faults + after.cost
    BY <2>2, <2>3, FaultyType, FaultySpends DEF IInv
  <2>6. Writable => spent'.faults # spent.faults
    BY <1>1, <2>3, <2>5
  <2>7. link.failures \in Nat /\ link'.failures \in Nat /\ link.failures <= lost
    BY <1>1, <2>4 DEF Link, IInv, ErrorInv
  <2>8. lost' \in Nat /\ link'.failures <= lost'
    BY <1>1, <2>1, <2>4, <2>7
  <2>9. link'.connected => link'.failures # 0 /\ link'.stage = "write"
    BY <2>4, <2>7
  <2>10. ErrorInv'
    BY <2>8, <2>9 DEF ErrorInv, NoStaleError
  <2>11. link'.fd \in {NoPort, link.endpoint}
         /\ (link'.fd # NoPort /\ link'.live => plugged[link'.fd] # NoId)
    BY <2>3, <2>4
  <2> QED
    BY <1>1, <2>1, <2>3, <2>4, <2>5, <2>6, <2>8, <2>10, <2>11
<1> QED
  BY <1>2, <1>3, <1>4, <1>5 DEF SendUniverse

-----------------------------------------------------------------------------
(***************************************************************************)
(* The steps that send a frame                                             *)
(***************************************************************************)

\* workerLoop() sends a frame.
LEMMA WorkerSendStep ==
  ASSUME IInv, WorkerSend
  PROVE  IInv'
<1>1. PICK f \in Frames, ok \in BOOLEAN :
        SendUniverse(f, ok) /\ loc' = [loc EXCEPT !.ok = ok]
  BY DEF WorkerSend
<1>2. /\ pc[Worker] = "send" /\ pc' = [pc EXCEPT ![Worker] = "sendStatus"]
      /\ UNCHANGED <<config, devices, lastKnown, holder, disc, engine, job, blackouts,
                     savedId, plugged, stopId>>
  BY DEF WorkerSend, Goto
<1>3. holder # Worker /\ pc[Main] \notin {"blackout", "close", "final", "done"}
  BY <1>2, DistinctThreads DEF IInv, ThreadsInv, DiscoveryPc
<1>4. pc'[Worker] = "sendStatus" /\ \A t \in Threads \ {Worker} : pc'[t] = pc[t]
  BY <1>2, DistinctThreads DEF IInv, TypeOK
<1>5. TypeOK'
  <2>1. pc' \in [Threads -> WorkerPc \cup DiscoveryPc \cup RequesterPc \cup MainPc]
    BY <1>2, DistinctThreads DEF IInv, TypeOK, WorkerPc
  <2>2. loc' \in [ok : BOOLEAN, up : BOOLEAN]
    BY <1>1 DEF IInv, TypeOK
  <2> QED
    BY <1>1, <1>2, <2>1, <2>2, SendUniverseFacts DEF IInv, TypeOK
<1>6. ThreadsInv'
  <2>1. "sendStatus" \in WorkerPc /\ "sendStatus" \notin DiscoveryPc
    BY DEF WorkerPc, DiscoveryPc
  <2> QED
    BY <1>2, <1>3, <2>1, DistinctThreads, ThreadMove DEF IInv
<1>7. PortInv'
  <2>1. link'.fd # NoPort /\ link'.live => plugged'[link'.fd] # NoId
    BY <1>1, <1>2, SendUniverseFacts
  <2> QED
    BY <1>2, <1>4, <2>1 DEF IInv, PortInv
<1>8. HandleInv'
  <2>1. CASE link.connected
    BY <1>1, <1>2, <2>1, SendUniverseFacts DEF IInv, HandleInv
  <2>2. CASE ~link.connected
    <3>1. link' = link
      BY <1>1, <2>2, SendUniverseFacts
    <3>2. holder \in Threads => holder # Worker
      BY <1>3
    <3>3. holder \in Threads \cup {Nobody}
      BY DEF IInv, TypeOK
    <3> QED
      BY <1>2, <1>4, <2>2, <3>1, <3>2, <3>3 DEF IInv, HandleInv
  <2> QED
    BY <2>1, <2>2
<1>9. ErrorInv'
  BY <1>1, SendUniverseFacts
<1>10. BackoffInv'
  <2>1. link'.connected => link.connected
    BY <1>1, SendUniverseFacts
  <2> QED
    BY <1>2, <1>4, <2>1 DEF IInv, BackoffInv
<1>11. StopInv' /\ BlackoutInv'
  <2>1. stopId' = NoId
    BY <1>2, <1>3 DEF IInv, StopInv
  <2>2. pc'[Main] = pc[Main]
    BY <1>4, DistinctThreads
  <2> QED
    BY <1>2, <2>1, <2>2 DEF IInv, StopInv, BlackoutInv
<1> QED
  BY <1>5, <1>6, <1>7, <1>8, <1>9, <1>10, <1>11 DEF IInv

\* stop() sends a blackout frame.
LEMMA StopBlackoutStep ==
  ASSUME IInv, StopBlackout
  PROVE  IInv'
<1>1. PICK ok \in BOOLEAN :
        /\ SendUniverse(Dark, ok)
        /\ pc' = [pc EXCEPT ![Main] = IF ok /\ blackouts + 1 < BlackoutFrames
                                      THEN "blackout" ELSE "close"]
        /\ blackouts' = IF ok THEN blackouts + 1 ELSE blackouts
  BY DEF StopBlackout, Goto
<1>2. /\ pc[Main] = "blackout"
      /\ stopId' = IF spent'.faults = spent.faults THEN stopId ELSE NoId
      /\ UNCHANGED <<config, devices, lastKnown, holder, disc, engine, loc, job, savedId,
                     plugged>>
  BY DEF StopBlackout, Goto
<1>3. Dark \in Frames
  BY Constants
<1>4. holder # Main /\ pc[Worker] = "exited"
  BY <1>2, DistinctThreads DEF IInv, ThreadsInv, DiscoveryPc
<1>5. pc'[Main] = (IF ok /\ blackouts + 1 < BlackoutFrames THEN "blackout" ELSE "close")
      /\ \A t \in Threads \ {Main} : pc'[t] = pc[t]
  BY <1>1, DistinctThreads DEF IInv, TypeOK
<1>6. blackouts < BlackoutFrames /\ blackouts \in 0..BlackoutFrames
  BY <1>2 DEF IInv, TypeOK, BlackoutInv
<1>7. TypeOK' /\ BlackoutInv'
  <2>1. pc' \in [Threads -> WorkerPc \cup DiscoveryPc \cup RequesterPc \cup MainPc]
    BY <1>1, DistinctThreads DEF IInv, TypeOK, MainPc
  <2>2. blackouts' \in 0..BlackoutFrames /\ (pc'[Main] # "close" => blackouts' < BlackoutFrames)
    BY <1>1, <1>5, <1>6 DEF BlackoutFrames
  <2>3. stopId' \in Ids
    BY <1>2 DEF IInv, TypeOK, Ids
  <2>4. TypeOK'
    BY <1>1, <1>2, <1>3, <2>1, <2>2, <2>3, SendUniverseFacts DEF IInv, TypeOK
  <2> QED
    BY <2>2, <2>4 DEF BlackoutInv
<1>8. ThreadsInv'
  <2>1. pc'[Main] \in {"blackout", "close"} /\ pc'[Main] \in MainPc /\ pc'[Main] \notin DiscoveryPc
    BY <1>5 DEF MainPc, DiscoveryPc
  <2>2. pc' = [pc EXCEPT ![Main] = pc'[Main]]
    BY <1>1, <1>5
  <2>3. pc'[Main] \notin {"refresh", "start"} \cup DiscoveryPc
    BY <2>1 DEF DiscoveryPc
  <2> QED
    BY <1>2, <1>4, <2>1, <2>2, <2>3, DistinctThreads, ThreadMove DEF IInv
<1>9. PortInv'
  <2>1. link'.fd # NoPort /\ link'.live => plugged'[link'.fd] # NoId
    BY <1>1, <1>2, <1>3, SendUniverseFacts
  <2>2. pc'[Main] \in {"blackout", "close"}
    BY <1>5
  <2> QED
    BY <1>2, <1>5, <2>1, <2>2 DEF IInv, PortInv
<1>10. HandleInv'
  <2>1. CASE link.connected
    BY <1>1, <1>2, <1>3, <2>1, SendUniverseFacts DEF IInv, HandleInv
  <2>2. CASE ~link.connected
    <3>1. link' = link
      BY <1>1, <1>3, <2>2, SendUniverseFacts
    <3>2. holder \in Threads \cup {Nobody}
      BY DEF IInv, TypeOK
    <3> QED
      BY <1>2, <1>4, <1>5, <2>2, <3>1, <3>2 DEF IInv, HandleInv
  <2> QED
    BY <2>1, <2>2
<1>11. ErrorInv'
  BY <1>1, <1>3, SendUniverseFacts
<1>12. BackoffInv'
  <2>1. link'.connected => link.connected
    BY <1>1, <1>3, SendUniverseFacts
  <2>2. pc'[Worker] = pc[Worker]
    BY <1>5, DistinctThreads
  <2> QED
    BY <1>2, <2>1, <2>2 DEF IInv, BackoffInv
<1>13. StopInv'
  <2> SUFFICES ASSUME stopId' # NoId PROVE StopInv'
    BY DEF StopInv
  <2>1. stopId' = stopId /\ spent'.faults = spent.faults
    BY <1>2
  <2>2. link.connected /\ Writable /\ plugged[link.fd] = stopId
    BY <1>2, <2>1 DEF IInv, StopInv
  <2>3. /\ link'.connected /\ link'.fd = link.fd /\ link'.live = link.live
        /\ glow'[plugged[link.fd]] = Dark
    BY <1>1, <1>3, <2>1, <2>2, SendUniverseFacts
  <2>4. glow'[stopId] = Dark
    BY <2>2, <2>3
  <2>5. pc'[Main] \in {"blackout", "close"}
    BY <1>5
  <2>6. link'.connected /\ Writable' /\ plugged'[link'.fd] = stopId
    BY <1>2, <2>2, <2>3 DEF Writable
  <2> QED
    BY <2>1, <2>4, <2>5, <2>6 DEF StopInv
<1> QED
  BY <1>7, <1>8, <1>9, <1>10, <1>11, <1>12, <1>13 DEF IInv

-----------------------------------------------------------------------------
(***************************************************************************)
(* One lemma per remaining action                                          *)
(***************************************************************************)

\* Step of discoverAndConnect(): lock and early return.
LEMMA DiscoverBeginStep ==
  ASSUME IInv, DiscoverBegin
  PROVE  IInv'
<1> USE DEF IInv, Goto, DiscoverBegin
<1>1. TypeOK'
  <2>1. pc' \in [Threads -> WorkerPc \cup DiscoveryPc \cup RequesterPc \cup MainPc]
    BY Constants DEF TypeOK, Threads, WorkerPc, DiscoveryPc, RequesterPc, MainPc
  <2>2. holder' \in Threads \cup {Nobody}
    BY DEF TypeOK, Threads
  <2>3. loc' \in [ok : BOOLEAN, up : BOOLEAN]
    BY DEF TypeOK, Link
  <2> QED
    BY <2>1, <2>2, <2>3 DEF TypeOK
<1>2. ThreadsInv'
  BY DiscoverBeginParts
<1>3. PortInv' /\ HandleInv' /\ ErrorInv' /\ BackoffInv' /\ StopInv' /\ BlackoutInv'
  BY Constants, DistinctThreads DEF TypeOK, ThreadsInv, Threads, DiscoveryPc, PortInv,
                                    HandleInv, ErrorInv, NoStaleError, BackoffInv,
                                    StopInv, Writable, WorkerPc, BlackoutInv
<1> QED
  BY <1>1, <1>2, <1>3 DEF IInv

\* Step of discoverAndConnect(): selection among the cached candidates.
LEMMA ChooseCachedStep ==
  ASSUME IInv, ChooseCached
  PROVE  IInv'
<1> USE DEF IInv, Goto, ChooseCached
<1>1. TypeOK'
  <2>1. pc' \in [Threads -> WorkerPc \cup DiscoveryPc \cup RequesterPc \cup MainPc]
    BY Constants DEF TypeOK, Threads, WorkerPc, DiscoveryPc, RequesterPc, MainPc
  <2>2. disc' \in Disc
    BY ChooseCachedParts
  <2> QED
    BY <2>1, <2>2 DEF TypeOK
<1>2. ThreadsInv' /\ PortInv'
  BY ChooseCachedParts
<1>3. BlackoutInv'
  BY BlackoutMove, DistinctThreads
<1>4. HandleInv' /\ ErrorInv' /\ BackoffInv' /\ StopInv'
  BY Constants, DistinctThreads DEF TypeOK, ThreadsInv, Threads, DiscoveryPc, PortInv,
                                    HandleInv, ErrorInv, NoStaleError, BackoffInv,
                                    StopInv, Writable, WorkerPc, Select, First,
                                    WithSerial, AtPort, NoDisc
<1> QED
  BY <1>1, <1>2, <1>3, <1>4 DEF IInv

\* Step of refreshDevices(): lock and early return.
LEMMA RefreshBeginStep ==
  ASSUME NEW t \in Threads, t # Worker, IInv, RefreshBegin(t)
  PROVE  IInv'
<1> USE DEF IInv, Goto, RefreshBegin, AfterRefresh
<1>1. TypeOK'
  BY Constants DEF TypeOK, Threads, Ids, Ends, Disc, WorkerPc, DiscoveryPc,
                   RequesterPc, MainPc, NoDisc
<1>2. ThreadsInv' /\ PortInv'
  BY RefreshBeginParts
<1>3. HandleInv' /\ ErrorInv' /\ BackoffInv' /\ StopInv' /\ BlackoutInv'
  BY Constants, DistinctThreads DEF TypeOK, ThreadsInv, Threads, DiscoveryPc, PortInv,
                                    HandleInv, ErrorInv, NoStaleError, BackoffInv,
                                    StopInv, Writable, WorkerPc, BlackoutInv, NoDisc
<1> QED
  BY <1>1, <1>2, <1>3 DEF IInv

\* Step of refreshDevicesUnlocked(): enumeration of the ports.
LEMMA ScanBeginStep ==
  ASSUME NEW t \in Threads, holder = t, IInv, ScanBegin(t)
  PROVE  IInv'
<1> USE DEF IInv, Goto, ScanBegin
<1>1. TypeOK'
  <2>1. pc' \in [Threads -> WorkerPc \cup DiscoveryPc \cup RequesterPc \cup MainPc]
    BY Constants DEF TypeOK, Threads, WorkerPc, DiscoveryPc, RequesterPc, MainPc
  <2>2. devices' \in Seq(Device)
    BY DEF TypeOK, Disc
  <2>3. disc' \in Disc
    BY ScanBeginType
  <2> QED
    BY <2>1, <2>2, <2>3 DEF TypeOK
<1>2. ThreadsInv'
  BY Constants DEF TypeOK, ThreadsInv, Threads, WorkerPc, MainPc, RequesterPc,
                   DiscoveryPc
<1>3. PortInv' /\ HandleInv' /\ ErrorInv' /\ BackoffInv' /\ StopInv' /\ BlackoutInv'
  BY Constants, DistinctThreads, ZenonT(30) DEF TypeOK, ThreadsInv, Threads, DiscoveryPc, PortInv,
                                    HandleInv, ErrorInv, NoStaleError, BackoffInv,
                                    StopInv, Writable, WorkerPc, BlackoutInv
<1> QED
  BY <1>1, <1>2, <1>3 DEF IInv

\* Step of refreshDevicesUnlocked(): on to the next port.
LEMMA ScanNextStep ==
  ASSUME NEW t \in Threads, holder = t, IInv, ScanNext(t)
  PROVE  IInv'
<1> USE DEF IInv, Goto, ScanNext
<1>1. TypeOK'
  <2>1. pc' \in [Threads -> WorkerPc \cup DiscoveryPc \cup RequesterPc \cup MainPc]
    BY Constants DEF TypeOK, Threads, WorkerPc, DiscoveryPc, RequesterPc, MainPc
  <2>2. disc' \in Disc
    BY ScanNextType
  <2> QED
    BY <2>1, <2>2 DEF TypeOK
<1>2. ThreadsInv'
  BY Constants DEF TypeOK, ThreadsInv, Threads, WorkerPc, MainPc, RequesterPc,
                   DiscoveryPc
<1>3. PortInv'
  BY ScanNextParts
<1>4. HandleInv' /\ ErrorInv' /\ BackoffInv' /\ StopInv' /\ BlackoutInv'
  BY Constants, DistinctThreads DEF TypeOK, ThreadsInv, Threads, DiscoveryPc, PortInv,
                                    HandleInv, ErrorInv, NoStaleError, BackoffInv,
                                    StopInv, Writable, WorkerPc, BlackoutInv, First
<1> QED
  BY <1>1, <1>2, <1>3, <1>4 DEF IInv

\* Step of refreshDevicesUnlocked(): the candidate list is replaced.
LEMMA ScanEndStep ==
  ASSUME NEW t \in Threads, holder = t, IInv, ScanEnd(t)
  PROVE  IInv'
<1> USE DEF IInv, Goto, ScanEnd
<1>1. TypeOK'
  BY Constants DEF TypeOK, Threads, Ids, Ends, Disc, WorkerPc, DiscoveryPc,
                   RequesterPc, MainPc
<1>2. ThreadsInv'
  BY Constants DEF TypeOK, ThreadsInv, Threads, WorkerPc, MainPc, RequesterPc,
                   DiscoveryPc
<1>3. PortInv' /\ HandleInv' /\ ErrorInv' /\ BackoffInv' /\ StopInv' /\ BlackoutInv'
  BY Constants, DistinctThreads DEF TypeOK, ThreadsInv, Threads, DiscoveryPc, PortInv,
                                    HandleInv, ErrorInv, NoStaleError, BackoffInv,
                                    StopInv, Writable, WorkerPc, BlackoutInv
<1> QED
  BY <1>1, <1>2, <1>3 DEF IInv

\* Step of probePort(): the port opens.
LEMMA OpenPortStep ==
  ASSUME NEW t \in Threads, holder = t, IInv, OpenPort(t)
  PROVE  IInv'
<1> USE DEF IInv, Goto, OpenPort, Openable
<1>1. TypeOK'
  <2>1. pc' \in [Threads -> WorkerPc \cup DiscoveryPc \cup RequesterPc \cup MainPc]
    BY Constants DEF TypeOK, Threads, WorkerPc, DiscoveryPc, RequesterPc, MainPc
  <2>2. link' \in Link
    BY OpenPortType
  <2> QED
    BY <2>1, <2>2 DEF TypeOK
<1>2. ThreadsInv'
  BY Constants DEF TypeOK, ThreadsInv, Threads, WorkerPc, MainPc, RequesterPc,
                   DiscoveryPc
<1>3. HandleInv' /\ StopInv'
  BY OpenPortParts
<1>4. PortInv' /\ ErrorInv' /\ BackoffInv' /\ BlackoutInv'
  BY Constants, DistinctThreads, ZenonT(30) DEF TypeOK, ThreadsInv, Threads, DiscoveryPc, PortInv,
                                    HandleInv, ErrorInv, NoStaleError, BackoffInv,
                                    BlackoutInv, Link
<1> QED
  BY <1>1, <1>2, <1>3, <1>4 DEF IInv

\* Step of probePort(): the port does not open.
LEMMA OpenFailsStep ==
  ASSUME NEW t \in Threads, holder = t, IInv, OpenFails(t)
  PROVE  IInv'
<1> USE DEF IInv, Goto, OpenFails, Faulty
<1>1. TypeOK'
  BY Constants, SMTT(30) DEF TypeOK, Threads, Ids, Ends, Disc, WorkerPc, DiscoveryPc,
                   RequesterPc, MainPc
<1>2. ThreadsInv'
  BY Constants DEF TypeOK, ThreadsInv, Threads, WorkerPc, MainPc, RequesterPc,
                   DiscoveryPc
<1>3. PortInv' /\ HandleInv' /\ ErrorInv' /\ BackoffInv' /\ StopInv' /\ BlackoutInv'
  BY Constants, DistinctThreads DEF TypeOK, ThreadsInv, Threads, DiscoveryPc, PortInv,
                                    HandleInv, ErrorInv, NoStaleError, BackoffInv,
                                    StopInv, Writable, WorkerPc, BlackoutInv
<1> QED
  BY <1>1, <1>2, <1>3 DEF IInv

\* Step of probePort(): the interface answers the serial request.
LEMMA QueryAnsweredStep ==
  ASSUME NEW t \in Threads, holder = t, IInv, QueryAnswered(t)
  PROVE  IInv'
<1> USE DEF IInv, Goto, QueryAnswered, Writable
<1>1. TypeOK'
  <2>1. pc' \in [Threads -> WorkerPc \cup DiscoveryPc \cup RequesterPc \cup MainPc]
    BY Constants DEF TypeOK, Threads, WorkerPc, DiscoveryPc, RequesterPc, MainPc
  <2>2. disc' \in Disc
    BY QueryAnsweredType
  <2> QED
    BY <2>1, <2>2 DEF TypeOK
<1>2. ThreadsInv'
  BY Constants DEF TypeOK, ThreadsInv, Threads, WorkerPc, MainPc, RequesterPc,
                   DiscoveryPc
<1>3. PortInv' /\ HandleInv'
  BY QueryAnsweredParts
<1>4. ErrorInv' /\ BackoffInv' /\ StopInv' /\ BlackoutInv'
  BY Constants, DistinctThreads DEF TypeOK, ThreadsInv, Threads, DiscoveryPc,
                                    HandleInv, ErrorInv, NoStaleError, BackoffInv,
                                    StopInv, Writable, WorkerPc, BlackoutInv, Link
<1> QED
  BY <1>1, <1>2, <1>3, <1>4 DEF IInv

\* Step of probePort(): it does not.
LEMMA QueryFailsStep ==
  ASSUME NEW t \in Threads, holder = t, IInv, QueryFails(t)
  PROVE  IInv'
<1> USE DEF IInv, Goto, QueryFails, Faulty
<1>1. TypeOK'
  <2>1. pc' \in [Threads -> WorkerPc \cup DiscoveryPc \cup RequesterPc \cup MainPc]
    BY Constants DEF TypeOK, Threads, WorkerPc, DiscoveryPc, RequesterPc, MainPc
  <2>2. spent' \in [requests : 0..MaxRequests, plugs : 0..MaxPlugs, faults : 0..MaxFaults]
    BY Constants DEF TypeOK
  <2> QED
    BY <2>1, <2>2 DEF TypeOK
<1>2. ThreadsInv'
  BY Constants DEF TypeOK, ThreadsInv, Threads, WorkerPc, MainPc, RequesterPc,
                   DiscoveryPc
<1>3. PortInv' /\ HandleInv' /\ ErrorInv' /\ BackoffInv' /\ StopInv' /\ BlackoutInv'
  BY Constants, DistinctThreads, ZenonT(30) DEF TypeOK, ThreadsInv, Threads, DiscoveryPc, PortInv,
                                    HandleInv, ErrorInv, NoStaleError, BackoffInv,
                                    StopInv, Writable, WorkerPc, BlackoutInv
<1> QED
  BY <1>1, <1>2, <1>3 DEF IInv

\* Step of probePort(): disconnect() after a failed request.
LEMMA QueryDropStep ==
  ASSUME NEW t \in Threads, holder = t, IInv, QueryDrop(t)
  PROVE  IInv'
<1> USE DEF IInv, Goto, QueryDrop, Disconnect, LinkDown
<1>1. TypeOK'
  <2>1. pc' \in [Threads -> WorkerPc \cup DiscoveryPc \cup RequesterPc \cup MainPc]
    BY Constants DEF TypeOK, Threads, WorkerPc, DiscoveryPc, RequesterPc, MainPc
  <2>2. link' \in Link
    BY Constants DEF TypeOK, Link, Ids, Ends
  <2>3. lost' \in Nat
    BY DEF TypeOK
  <2> QED
    BY <2>1, <2>2, <2>3 DEF TypeOK
<1>2. ThreadsInv'
  BY Constants DEF TypeOK, ThreadsInv, Threads, WorkerPc, MainPc, RequesterPc,
                   DiscoveryPc
<1>3. HandleInv' /\ ErrorInv' /\ BackoffInv' /\ StopInv'
  BY GiveBackParts
<1>4. BlackoutInv'
  BY BlackoutMove, DistinctThreads
<1>5. PortInv'
  BY Constants, DistinctThreads DEF TypeOK, ThreadsInv, Threads, DiscoveryPc, PortInv,
                                    HandleInv, Link
<1> QED
  BY <1>1, <1>2, <1>3, <1>4, <1>5 DEF IInv

\* Step of refreshDevicesUnlocked(): a device is found and the port closed.
LEMMA ScanFoundStep ==
  ASSUME NEW t \in Threads, holder = t, IInv, ScanFound(t)
  PROVE  IInv'
<1> USE DEF IInv, Goto, ScanFound, Disconnect, LinkDown
<1>1. TypeOK'
  <2>1. pc' \in [Threads -> WorkerPc \cup DiscoveryPc \cup RequesterPc \cup MainPc]
    BY Constants DEF TypeOK, Threads, WorkerPc, DiscoveryPc, RequesterPc, MainPc
  <2>2. disc' \in Disc
    BY ScanFoundType
  <2>3. link' \in Link
    BY Constants DEF TypeOK, Link, Ids, Ends
  <2>4. lost' \in Nat
    BY DEF TypeOK
  <2> QED
    BY <2>1, <2>2, <2>3, <2>4 DEF TypeOK
<1>2. ThreadsInv'
  BY Constants DEF TypeOK, ThreadsInv, Threads, WorkerPc, MainPc, RequesterPc,
                   DiscoveryPc
<1>3. HandleInv' /\ ErrorInv' /\ BackoffInv' /\ StopInv'
  BY GiveBackParts
<1>4. BlackoutInv'
  BY BlackoutMove, DistinctThreads
<1>5. PortInv'
  BY Constants, DistinctThreads, ZenonT(30) DEF TypeOK, ThreadsInv, Threads, DiscoveryPc, PortInv,
                                    HandleInv, Link, Device
<1> QED
  BY <1>1, <1>2, <1>3, <1>4, <1>5 DEF IInv

\* A failed probe leads on to the next port or to a scan.
LEMMA ProbeFailedStep ==
  ASSUME NEW t \in Threads, holder = t, IInv, ProbeFailed(t)
  PROVE  IInv'
<1> USE DEF IInv, Goto, ProbeFailed
<1>1. TypeOK'
  <2>1. pc' \in [Threads -> WorkerPc \cup DiscoveryPc \cup RequesterPc \cup MainPc]
    BY Constants DEF TypeOK, Threads, WorkerPc, DiscoveryPc, RequesterPc, MainPc
  <2>2. disc' \in Disc
    BY Constants DEF TypeOK, Disc, NoDisc, Ids, Ends
  <2> QED
    BY <2>1, <2>2 DEF TypeOK
<1>2. ThreadsInv'
  BY Constants DEF TypeOK, ThreadsInv, Threads, WorkerPc, MainPc, RequesterPc,
                   DiscoveryPc
<1>3. PortInv' /\ HandleInv' /\ ErrorInv' /\ BackoffInv' /\ StopInv' /\ BlackoutInv'
  BY Constants, DistinctThreads, ZenonT(30) DEF TypeOK, ThreadsInv, Threads, DiscoveryPc, PortInv,
                                    HandleInv, ErrorInv, NoStaleError, BackoffInv,
                                    StopInv, Writable, WorkerPc, BlackoutInv
<1> QED
  BY <1>1, <1>2, <1>3 DEF IInv

\* discoverAndConnect() gives up.
LEMMA GiveUpStep ==
  ASSUME NEW from \in {"failed", "scanned"}, NEW stage \in {"scan", "selection",
         "probe"}, NEW port \in Ends, IInv, GiveUpDiscovery(from, stage, port)
  PROVE  IInv'
<1> USE DEF IInv, Goto, GiveUpDiscovery
<1>1. TypeOK'
  <2>1. pc' \in [Threads -> WorkerPc \cup DiscoveryPc \cup RequesterPc \cup MainPc]
    BY Constants DEF TypeOK, Threads, WorkerPc, DiscoveryPc, RequesterPc, MainPc
  <2>2. link' \in Link
    BY GiveUpType
  <2>3. holder' \in Threads \cup {Nobody}
    BY DEF TypeOK, Threads
  <2>4. disc' \in Disc
    BY Constants DEF TypeOK, Disc, NoDisc, Ids, Ends
  <2>5. loc' \in [ok : BOOLEAN, up : BOOLEAN]
    BY DEF TypeOK, Link
  <2> QED
    BY <2>1, <2>2, <2>3, <2>4, <2>5 DEF TypeOK
<1>2. ThreadsInv' /\ PortInv' /\ HandleInv'
  BY GiveUpParts
<1>3. ErrorInv' /\ BackoffInv' /\ StopInv' /\ BlackoutInv'
  BY Constants, DistinctThreads DEF TypeOK, ThreadsInv, Threads, DiscoveryPc,
                                    HandleInv, ErrorInv, NoStaleError, BackoffInv,
                                    StopInv, Writable, WorkerPc, BlackoutInv, NoDisc,
                                    Link
<1> QED
  BY <1>1, <1>2, <1>3 DEF IInv

\* It gives up after probing the selection of a fresh scan,
LEMMA RefreshedProbeFailedStep ==
  ASSUME IInv, RefreshedProbeFailed
  PROVE  IInv'
<1>1. disc.port \in Ends
  BY DEF IInv, TypeOK, Disc
<1> QED
  BY <1>1, GiveUpStep DEF RefreshedProbeFailed

\* or when that scan left nothing to select.
LEMMA NothingToConnectStep ==
  ASSUME IInv, NothingToConnect
  PROVE  IInv'
<1>1. NoPort \in Ends
  BY DEF Ends
<1> QED
  BY <1>1, GiveUpStep DEF NothingToConnect

\* Step of discoverAndConnect(): selection after a scan.
LEMMA ChooseRefreshedStep ==
  ASSUME IInv, ChooseRefreshed
  PROVE  IInv'
<1> USE DEF IInv, Goto, ChooseRefreshed, Rescanned
<1>1. TypeOK'
  <2>1. pc' \in [Threads -> WorkerPc \cup DiscoveryPc \cup RequesterPc \cup MainPc]
    BY Constants DEF TypeOK, Threads, WorkerPc, DiscoveryPc, RequesterPc, MainPc
  <2>2. disc' \in Disc
    BY ChooseRefreshedType
  <2> QED
    BY <2>1, <2>2 DEF TypeOK
<1>2. ThreadsInv'
  BY Constants DEF TypeOK, ThreadsInv, Threads, WorkerPc, MainPc, RequesterPc,
                   DiscoveryPc
<1>3. PortInv'
  BY ChooseRefreshedParts
<1>4. HandleInv' /\ ErrorInv' /\ BackoffInv' /\ StopInv' /\ BlackoutInv'
  BY Constants, DistinctThreads DEF TypeOK, ThreadsInv, Threads, DiscoveryPc, PortInv,
                                    HandleInv, ErrorInv, NoStaleError, BackoffInv,
                                    StopInv, Writable, WorkerPc, BlackoutInv, Select,
                                    First, WithSerial, AtPort
<1> QED
  BY <1>1, <1>2, <1>3, <1>4 DEF IInv

\* Step of discoverAndConnect(): the link comes up.
LEMMA CommitConnectedStep ==
  ASSUME IInv, CommitConnected
  PROVE  IInv'
<1> USE DEF IInv, Goto, CommitConnected
<1>1. TypeOK'
  <2>1. pc' \in [Threads -> WorkerPc \cup DiscoveryPc \cup RequesterPc \cup MainPc]
    BY Constants DEF TypeOK, Threads, WorkerPc, DiscoveryPc, RequesterPc, MainPc
  <2>2. link' \in Link
    BY CommitType
  <2>3. lastKnown' \in [serial : Ids, port : Ends]
    BY CommitType
  <2>4. devices' \in Seq(Device)
    BY CommitType
  <2>5. holder' \in Threads \cup {Nobody}
    BY DEF TypeOK, Threads
  <2>6. disc' \in Disc
    BY Constants DEF TypeOK, Disc, NoDisc, Ids, Ends
  <2>7. loc' \in [ok : BOOLEAN, up : BOOLEAN]
    BY DEF TypeOK, Link
  <2>8. lost' \in Nat
    BY DEF TypeOK
  <2> QED
    BY <2>1, <2>2, <2>3, <2>4, <2>5, <2>6, <2>7, <2>8 DEF TypeOK
<1>2. ThreadsInv' /\ PortInv' /\ HandleInv' /\ ErrorInv'
  BY CommitParts
<1>3. BackoffInv' /\ StopInv' /\ BlackoutInv'
  BY Constants, DistinctThreads DEF TypeOK, ThreadsInv, Threads, DiscoveryPc,
                                    HandleInv, BackoffInv, StopInv, Writable, WorkerPc,
                                    BlackoutInv, NoDisc, Link, Device, WithSerial
<1> QED
  BY <1>1, <1>2, <1>3 DEF IInv

\* Step of refreshDevices(): it returns.
LEMMA RefreshEndStep ==
  ASSUME NEW t \in Threads, t # Worker, IInv, RefreshEnd(t)
  PROVE  IInv'
<1> USE DEF IInv, Goto, RefreshEnd, AfterRefresh
<1>1. TypeOK'
  <2>1. pc' \in [Threads -> WorkerPc \cup DiscoveryPc \cup RequesterPc \cup MainPc]
    BY Constants DEF TypeOK, Threads, WorkerPc, DiscoveryPc, RequesterPc, MainPc
  <2>2. link' \in Link
    BY Constants DEF TypeOK, Link, Ids, Ends
  <2>3. holder' \in Threads \cup {Nobody}
    BY DEF TypeOK, Threads
  <2>4. disc' \in Disc
    BY Constants DEF TypeOK, Disc, NoDisc, Ids, Ends
  <2> QED
    BY <2>1, <2>2, <2>3, <2>4 DEF TypeOK
<1>2. ThreadsInv' /\ PortInv'
  BY RefreshEndParts
<1>3. HandleInv' /\ ErrorInv' /\ BackoffInv' /\ StopInv' /\ BlackoutInv'
  BY Constants, DistinctThreads, ZenonT(30) DEF TypeOK, ThreadsInv, Threads, DiscoveryPc, PortInv,
                                    HandleInv, ErrorInv, NoStaleError, BackoffInv,
                                    StopInv, Writable, WorkerPc, BlackoutInv, NoDisc,
                                    Link
<1> QED
  BY <1>1, <1>2, <1>3 DEF IInv

\* workerLoop() ends.
LEMMA WorkerExitStep ==
  ASSUME IInv, WorkerExit
  PROVE  IInv'
<1> USE DEF IInv, Goto, WorkerExit
<1>1. TypeOK'
  BY Constants DEF TypeOK, Threads, Ids, Ends, Disc, WorkerPc, DiscoveryPc,
                   RequesterPc, MainPc
<1>2. ThreadsInv'
  BY Constants DEF TypeOK, ThreadsInv, Threads, WorkerPc, MainPc, RequesterPc,
                   DiscoveryPc
<1>3. PortInv' /\ HandleInv' /\ ErrorInv' /\ BackoffInv' /\ StopInv' /\ BlackoutInv'
  BY Constants, DistinctThreads DEF TypeOK, ThreadsInv, Threads, DiscoveryPc, PortInv,
                                    HandleInv, ErrorInv, NoStaleError, BackoffInv,
                                    StopInv, Writable, WorkerPc, BlackoutInv
<1> QED
  BY <1>1, <1>2, <1>3 DEF IInv

\* workerLoop() decides to probe.
LEMMA WorkerProbeStep ==
  ASSUME IInv, WorkerProbe
  PROVE  IInv'
<1> USE DEF IInv, Goto, WorkerProbe
<1>1. TypeOK'
  <2>1. pc' \in [Threads -> WorkerPc \cup DiscoveryPc \cup RequesterPc \cup MainPc]
    BY Constants DEF TypeOK, Threads, WorkerPc, DiscoveryPc, RequesterPc, MainPc
  <2>2. engine' \in Engine
    BY Constants DEF TypeOK, Engine
  <2> QED
    BY <2>1, <2>2 DEF TypeOK
<1>2. ThreadsInv'
  BY Constants DEF TypeOK, ThreadsInv, Threads, WorkerPc, MainPc, RequesterPc,
                   DiscoveryPc
<1>3. PortInv' /\ HandleInv' /\ ErrorInv' /\ BackoffInv' /\ StopInv' /\ BlackoutInv'
  BY Constants, DistinctThreads DEF TypeOK, ThreadsInv, Threads, DiscoveryPc, PortInv,
                                    HandleInv, ErrorInv, NoStaleError, BackoffInv,
                                    StopInv, Writable, WorkerPc, BlackoutInv, Engine
<1> QED
  BY <1>1, <1>2, <1>3 DEF IInv

\* workerLoop() reads status() after the backend call.
LEMMA WorkerStatusStep ==
  ASSUME IInv, WorkerStatus
  PROVE  IInv'
<1> USE DEF IInv, Goto, WorkerStatus
<1>1. TypeOK'
  <2>1. pc' \in [Threads -> WorkerPc \cup DiscoveryPc \cup RequesterPc \cup MainPc]
    BY Constants DEF TypeOK, Threads, WorkerPc, DiscoveryPc, RequesterPc, MainPc
  <2>2. loc' \in [ok : BOOLEAN, up : BOOLEAN]
    BY DEF TypeOK, Link
  <2> QED
    BY <2>1, <2>2 DEF TypeOK
<1>2. ThreadsInv'
  BY StatusParts
<1>3. BlackoutInv'
  BY BlackoutMove, DistinctThreads
<1>4. PortInv'
  BY Constants DEF TypeOK, ThreadsInv, PortInv, HandleInv, Threads, DiscoveryPc
<1>5. HandleInv'
  BY Constants DEF TypeOK, ThreadsInv, PortInv, HandleInv, Threads, DiscoveryPc
<1>6. ErrorInv'
  BY Constants DEF TypeOK, ThreadsInv, HandleInv, ErrorInv, NoStaleError, DiscoveryPc
<1>7. BackoffInv'
  BY Constants DEF TypeOK, ThreadsInv, HandleInv, BackoffInv, Threads, DiscoveryPc
<1>8. StopInv'
  BY Constants DEF TypeOK, ThreadsInv, HandleInv, StopInv, Writable, Threads,
                   DiscoveryPc, WorkerPc
<1> QED
  BY <1>1, <1>2, <1>3, <1>4, <1>5, <1>6, <1>7, <1>8 DEF IInv

\* workerLoop() records the outcome of a probe.
LEMMA WorkerNoteProbeStep ==
  ASSUME IInv, WorkerNoteProbe
  PROVE  IInv'
<1> USE DEF IInv, Goto, WorkerNoteProbe, EngineReset, Backoff
<1>1. TypeOK'
  <2>1. pc' \in [Threads -> WorkerPc \cup DiscoveryPc \cup RequesterPc \cup MainPc]
    BY Constants DEF TypeOK, Threads, WorkerPc, DiscoveryPc, RequesterPc, MainPc
  <2>2. engine' \in Engine
    BY NoteProbeType
  <2>3. loc' \in [ok : BOOLEAN, up : BOOLEAN]
    BY DEF TypeOK, Link
  <2> QED
    BY <2>1, <2>2, <2>3 DEF TypeOK
<1>2. ThreadsInv'
  BY Constants DEF TypeOK, ThreadsInv, Threads, WorkerPc, MainPc, RequesterPc,
                   DiscoveryPc
<1>3. PortInv' /\ HandleInv' /\ ErrorInv' /\ BackoffInv' /\ StopInv' /\ BlackoutInv'
  BY Constants, DistinctThreads DEF TypeOK, ThreadsInv, Threads, DiscoveryPc, PortInv,
                                    HandleInv, ErrorInv, NoStaleError, BackoffInv,
                                    StopInv, Writable, WorkerPc, BlackoutInv, Engine
<1> QED
  BY <1>1, <1>2, <1>3 DEF IInv

\* workerLoop() records the outcome of a frame.
LEMMA WorkerNoteSendStep ==
  ASSUME IInv, WorkerNoteSend
  PROVE  IInv'
<1> USE DEF IInv, Goto, WorkerNoteSend, EngineReset, Backoff
<1>1. TypeOK'
  <2>1. pc' \in [Threads -> WorkerPc \cup DiscoveryPc \cup RequesterPc \cup MainPc]
    BY Constants DEF TypeOK, Threads, WorkerPc, DiscoveryPc, RequesterPc, MainPc
  <2>2. engine' \in Engine
    BY NoteSendType
  <2>3. loc' \in [ok : BOOLEAN, up : BOOLEAN]
    BY DEF TypeOK, Link
  <2> QED
    BY <2>1, <2>2, <2>3 DEF TypeOK
<1>2. ThreadsInv'
  BY Constants DEF TypeOK, ThreadsInv, Threads, WorkerPc, MainPc, RequesterPc,
                   DiscoveryPc
<1>3. PortInv' /\ HandleInv' /\ ErrorInv' /\ BackoffInv' /\ StopInv' /\ BlackoutInv'
  BY Constants, DistinctThreads DEF TypeOK, ThreadsInv, Threads, DiscoveryPc, PortInv,
                                    HandleInv, ErrorInv, NoStaleError, BackoffInv,
                                    StopInv, Writable, WorkerPc, BlackoutInv, Engine
<1> QED
  BY <1>1, <1>2, <1>3 DEF IInv

\* The time of the next probe comes.
LEMMA BackoffElapsesStep ==
  ASSUME IInv, BackoffElapses
  PROVE  IInv'
<1> USE DEF IInv, Goto, BackoffElapses
<1>1. TypeOK'
  <2>1. engine' \in Engine
    BY Constants DEF TypeOK, Engine
  <2> QED
    BY <2>1 DEF TypeOK
<1>2. ThreadsInv'
  BY Constants DEF TypeOK, ThreadsInv, Threads, WorkerPc, MainPc, RequesterPc,
                   DiscoveryPc
<1>3. PortInv' /\ HandleInv' /\ ErrorInv' /\ BackoffInv' /\ StopInv' /\ BlackoutInv'
  BY Constants, DistinctThreads DEF TypeOK, ThreadsInv, Threads, DiscoveryPc, PortInv,
                                    HandleInv, ErrorInv, NoStaleError, BackoffInv,
                                    StopInv, Writable, WorkerPc, BlackoutInv, Engine
<1> QED
  BY <1>1, <1>2, <1>3 DEF IInv

\* POST /api/dmx/devices/select sets the preference.
LEMMA SelectDeviceStep ==
  ASSUME NEW r \in Requesters, NEW id \in Ids, IInv, SelectDevice(r, id)
  PROVE  IInv'
<1> USE DEF IInv, Goto, SelectDevice, Request
<1>1. TypeOK'
  <2>1. pc' \in [Threads -> WorkerPc \cup DiscoveryPc \cup RequesterPc \cup MainPc]
    BY Constants DEF TypeOK, Threads, WorkerPc, DiscoveryPc, RequesterPc, MainPc
  <2>2. config' \in [preferred : Ids, strict : BOOLEAN, retryLimit : RetryLimits]
    BY DEF TypeOK
  <2>3. job' \in [Requesters -> Ids \cup {"none"}]
    BY DEF TypeOK
  <2>4. spent' \in [requests : 0..MaxRequests, plugs : 0..MaxPlugs, faults : 0..MaxFaults]
    BY RequestType
  <2> QED
    BY <2>1, <2>2, <2>3, <2>4 DEF TypeOK
<1>2. ThreadsInv'
  BY Constants DEF TypeOK, ThreadsInv, Threads, WorkerPc, MainPc, RequesterPc,
                   DiscoveryPc
<1>3. PortInv' /\ HandleInv' /\ ErrorInv' /\ BackoffInv' /\ StopInv' /\ BlackoutInv'
  BY Constants, DistinctThreads, ZenonT(30) DEF TypeOK, ThreadsInv, Threads, DiscoveryPc, PortInv,
                                    HandleInv, ErrorInv, NoStaleError, BackoffInv,
                                    StopInv, Writable, WorkerPc, BlackoutInv
<1> QED
  BY <1>1, <1>2, <1>3 DEF IInv

\* POST /api/dmx/devices/scan starts.
LEMMA ScanDevicesStep ==
  ASSUME NEW r \in Requesters, IInv, ScanDevices(r)
  PROVE  IInv'
<1> USE DEF IInv, Goto, ScanDevices, Request
<1>1. TypeOK'
  <2>1. pc' \in [Threads -> WorkerPc \cup DiscoveryPc \cup RequesterPc \cup MainPc]
    BY Constants DEF TypeOK, Threads, WorkerPc, DiscoveryPc, RequesterPc, MainPc
  <2>2. spent' \in [requests : 0..MaxRequests, plugs : 0..MaxPlugs, faults : 0..MaxFaults]
    BY RequestType
  <2> QED
    BY <2>1, <2>2 DEF TypeOK
<1>2. ThreadsInv'
  BY Constants DEF TypeOK, ThreadsInv, Threads, WorkerPc, MainPc, RequesterPc,
                   DiscoveryPc
<1>3. PortInv' /\ HandleInv' /\ ErrorInv' /\ BackoffInv' /\ StopInv' /\ BlackoutInv'
  BY Constants, DistinctThreads, ZenonT(30) DEF TypeOK, ThreadsInv, Threads, DiscoveryPc, PortInv,
                                    HandleInv, ErrorInv, NoStaleError, BackoffInv,
                                    StopInv, Writable, WorkerPc, BlackoutInv
<1> QED
  BY <1>1, <1>2, <1>3 DEF IInv

\* forceReconnect() disconnects the backend.
LEMMA ForceDisconnectStep ==
  ASSUME NEW r \in Requesters, IInv, ForceDisconnect(r)
  PROVE  IInv'
<1> USE DEF IInv, Goto, ForceDisconnect, Disconnect, LinkDown
<1>1. TypeOK'
  <2>1. pc' \in [Threads -> WorkerPc \cup DiscoveryPc \cup RequesterPc \cup MainPc]
    BY Constants DEF TypeOK, Threads, WorkerPc, DiscoveryPc, RequesterPc, MainPc
  <2>2. link' \in Link
    BY Constants DEF TypeOK, Link, Ids, Ends
  <2>3. lost' \in Nat
    BY DEF TypeOK
  <2>4. stopId' \in Ids
    BY DEF TypeOK, Ids
  <2> QED
    BY <2>1, <2>2, <2>3, <2>4 DEF TypeOK
<1>2. ThreadsInv'
  BY Constants DEF TypeOK, ThreadsInv, Threads, WorkerPc, MainPc, RequesterPc,
                   DiscoveryPc
<1>3. ErrorInv'
  BY DisconnectErrors DEF ForceDisconnect
<1>4. BlackoutInv'
  BY BlackoutMove, DistinctThreads
<1>5. PortInv' /\ HandleInv' /\ BackoffInv' /\ StopInv'
  BY Constants, DistinctThreads DEF TypeOK, ThreadsInv, Threads, DiscoveryPc, PortInv,
                                    HandleInv, BackoffInv, StopInv, Writable, WorkerPc,
                                    Link
<1> QED
  BY <1>1, <1>2, <1>3, <1>4, <1>5 DEF IInv

\* forceReconnect() resets the reconnect fields.
LEMMA ForceResetStep ==
  ASSUME NEW r \in Requesters, IInv, ForceReset(r)
  PROVE  IInv'
<1> USE DEF IInv, Goto, ForceReset, EngineReset
<1>1. TypeOK'
  <2>1. pc' \in [Threads -> WorkerPc \cup DiscoveryPc \cup RequesterPc \cup MainPc]
    BY Constants DEF TypeOK, Threads, WorkerPc, DiscoveryPc, RequesterPc, MainPc
  <2>2. engine' \in Engine
    BY EngineResetType DEF TypeOK
  <2> QED
    BY <2>1, <2>2 DEF TypeOK
<1>2. ThreadsInv'
  BY Constants DEF TypeOK, ThreadsInv, Threads, WorkerPc, MainPc, RequesterPc,
                   DiscoveryPc
<1>3. PortInv' /\ HandleInv' /\ ErrorInv' /\ BackoffInv' /\ StopInv' /\ BlackoutInv'
  BY Constants, DistinctThreads DEF TypeOK, ThreadsInv, Threads, DiscoveryPc, PortInv,
                                    HandleInv, ErrorInv, NoStaleError, BackoffInv,
                                    StopInv, Writable, WorkerPc, BlackoutInv, Engine
<1> QED
  BY <1>1, <1>2, <1>3 DEF IInv

\* The selection handler stores the preference and returns.
LEMMA SaveSelectionStep ==
  ASSUME NEW r \in Requesters, IInv, SaveSelection(r)
  PROVE  IInv'
<1> USE DEF IInv, Goto, SaveSelection
<1>1. TypeOK'
  BY Constants DEF TypeOK, Threads, Ids, Ends, Disc, WorkerPc, DiscoveryPc,
                   RequesterPc, MainPc
<1>2. ThreadsInv'
  BY Constants DEF TypeOK, ThreadsInv, Threads, WorkerPc, MainPc, RequesterPc,
                   DiscoveryPc
<1>3. PortInv' /\ HandleInv' /\ ErrorInv' /\ BackoffInv' /\ StopInv' /\ BlackoutInv'
  BY Constants, DistinctThreads DEF TypeOK, ThreadsInv, Threads, DiscoveryPc, PortInv,
                                    HandleInv, ErrorInv, NoStaleError, BackoffInv,
                                    StopInv, Writable, WorkerPc, BlackoutInv
<1> QED
  BY <1>1, <1>2, <1>3 DEF IInv

\* A settings handler changes the retry limit or the strict mode.
LEMMA ChangeSettingsStep ==
  ASSUME NEW r \in Requesters, NEW limit \in RetryLimits, NEW strict \in BOOLEAN,
         IInv, ChangeSettings(r, limit, strict)
  PROVE  IInv'
<1> USE DEF IInv, Goto, ChangeSettings, Request
<1>1. TypeOK'
  <2>1. config' \in [preferred : Ids, strict : BOOLEAN, retryLimit : RetryLimits]
    BY DEF TypeOK
  <2>2. spent' \in [requests : 0..MaxRequests, plugs : 0..MaxPlugs, faults : 0..MaxFaults]
    BY RequestType
  <2> QED
    BY <2>1, <2>2 DEF TypeOK
<1>2. ThreadsInv'
  BY Constants DEF TypeOK, ThreadsInv, Threads, WorkerPc, MainPc, RequesterPc,
                   DiscoveryPc
<1>3. PortInv' /\ HandleInv' /\ ErrorInv' /\ BackoffInv' /\ StopInv' /\ BlackoutInv'
  BY Constants, DistinctThreads, ZenonT(30) DEF TypeOK, ThreadsInv, Threads, DiscoveryPc, PortInv,
                                    HandleInv, ErrorInv, NoStaleError, BackoffInv,
                                    StopInv, Writable, WorkerPc, BlackoutInv
<1> QED
  BY <1>1, <1>2, <1>3 DEF IInv

\* start() creates the worker.
LEMMA StartEngineStep ==
  ASSUME IInv, StartEngine
  PROVE  IInv'
<1> USE DEF IInv, Goto, StartEngine, EngineReset
<1>1. TypeOK'
  <2>1. pc' \in [Threads -> WorkerPc \cup DiscoveryPc \cup RequesterPc \cup MainPc]
    BY Constants DEF TypeOK, Threads, WorkerPc, DiscoveryPc, RequesterPc, MainPc
  <2>2. engine' \in Engine
    BY StartType
  <2> QED
    BY <2>1, <2>2 DEF TypeOK
<1>2. ThreadsInv' /\ HandleInv'
  BY StartParts
<1>3. PortInv' /\ ErrorInv' /\ BackoffInv' /\ StopInv' /\ BlackoutInv'
  BY Constants, DistinctThreads DEF TypeOK, ThreadsInv, Threads, DiscoveryPc, PortInv,
                                    HandleInv, ErrorInv, NoStaleError, BackoffInv,
                                    StopInv, Writable, WorkerPc, BlackoutInv, Engine
<1> QED
  BY <1>1, <1>2, <1>3 DEF IInv

\* stop() clears running_.
LEMMA StopBeginStep ==
  ASSUME IInv, StopBegin
  PROVE  IInv'
<1> USE DEF IInv, Goto, StopBegin
<1>1. TypeOK'
  <2>1. pc' \in [Threads -> WorkerPc \cup DiscoveryPc \cup RequesterPc \cup MainPc]
    BY Constants DEF TypeOK, Threads, WorkerPc, DiscoveryPc, RequesterPc, MainPc
  <2>2. engine' \in Engine
    BY Constants DEF TypeOK, Engine
  <2> QED
    BY <2>1, <2>2 DEF TypeOK
<1>2. ThreadsInv'
  BY Constants DEF TypeOK, ThreadsInv, Threads, WorkerPc, MainPc, RequesterPc,
                   DiscoveryPc
<1>3. PortInv' /\ HandleInv' /\ ErrorInv' /\ BackoffInv' /\ StopInv' /\ BlackoutInv'
  BY Constants, DistinctThreads, ZenonT(30) DEF TypeOK, ThreadsInv, Threads, DiscoveryPc, PortInv,
                                    HandleInv, ErrorInv, NoStaleError, BackoffInv,
                                    StopInv, Writable, WorkerPc, BlackoutInv, Engine
<1> QED
  BY <1>1, <1>2, <1>3 DEF IInv

\* stop() joins the worker.
LEMMA StopJoinStep ==
  ASSUME IInv, StopJoin
  PROVE  IInv'
<1> USE DEF IInv, Goto, StopJoin
<1>1. TypeOK'
  <2>1. pc' \in [Threads -> WorkerPc \cup DiscoveryPc \cup RequesterPc \cup MainPc]
    BY Constants DEF TypeOK, Threads, WorkerPc, DiscoveryPc, RequesterPc, MainPc
  <2>2. stopId' \in Ids
    BY StopJoinType
  <2> QED
    BY <2>1, <2>2 DEF TypeOK
<1>2. ThreadsInv'
  BY Constants DEF TypeOK, ThreadsInv, Threads, WorkerPc, MainPc, RequesterPc,
                   DiscoveryPc
<1>3. PortInv' /\ HandleInv' /\ ErrorInv' /\ BackoffInv' /\ StopInv' /\ BlackoutInv'
  BY Constants, DistinctThreads DEF TypeOK, ThreadsInv, Threads, DiscoveryPc, PortInv,
                                    HandleInv, ErrorInv, NoStaleError, BackoffInv,
                                    StopInv, Writable, WorkerPc, BlackoutInv, Link
<1> QED
  BY <1>1, <1>2, <1>3 DEF IInv

\* stop() disconnects the backend.
LEMMA StopDisconnectStep ==
  ASSUME IInv, StopDisconnect
  PROVE  IInv'
<1> USE DEF IInv, Goto, StopDisconnect, Disconnect, LinkDown
<1>1. TypeOK'
  <2>1. pc' \in [Threads -> WorkerPc \cup DiscoveryPc \cup RequesterPc \cup MainPc]
    BY Constants DEF TypeOK, Threads, WorkerPc, DiscoveryPc, RequesterPc, MainPc
  <2>2. link' \in Link
    BY Constants DEF TypeOK, Link, Ids, Ends
  <2>3. lost' \in Nat
    BY DEF TypeOK
  <2> QED
    BY <2>1, <2>2, <2>3 DEF TypeOK
<1>2. ThreadsInv'
  BY Constants DEF TypeOK, ThreadsInv, Threads, WorkerPc, MainPc, RequesterPc,
                   DiscoveryPc
<1>3. ErrorInv'
  BY DisconnectErrors DEF StopDisconnect
<1>4. PortInv' /\ HandleInv' /\ BackoffInv' /\ StopInv' /\ BlackoutInv'
  BY Constants, DistinctThreads DEF TypeOK, ThreadsInv, Threads, DiscoveryPc, PortInv,
                                    HandleInv, BackoffInv, StopInv, Writable, WorkerPc,
                                    BlackoutInv, Link
<1> QED
  BY <1>1, <1>2, <1>3, <1>4 DEF IInv

\* stop() resets the engine's fields.
LEMMA StopResetStep ==
  ASSUME IInv, StopReset
  PROVE  IInv'
<1> USE DEF IInv, Goto, StopReset, EngineReset
<1>1. TypeOK'
  <2>1. pc' \in [Threads -> WorkerPc \cup DiscoveryPc \cup RequesterPc \cup MainPc]
    BY Constants DEF TypeOK, Threads, WorkerPc, DiscoveryPc, RequesterPc, MainPc
  <2>2. engine' \in Engine
    BY EngineResetType DEF TypeOK
  <2> QED
    BY <2>1, <2>2 DEF TypeOK
<1>2. ThreadsInv'
  BY Constants DEF TypeOK, ThreadsInv, Threads, WorkerPc, MainPc, RequesterPc,
                   DiscoveryPc
<1>3. PortInv' /\ HandleInv' /\ ErrorInv' /\ BackoffInv' /\ StopInv' /\ BlackoutInv'
  BY Constants, DistinctThreads DEF TypeOK, ThreadsInv, Threads, DiscoveryPc, PortInv,
                                    HandleInv, ErrorInv, NoStaleError, BackoffInv,
                                    StopInv, Writable, WorkerPc, BlackoutInv, Engine
<1> QED
  BY <1>1, <1>2, <1>3 DEF IInv

\* An interface disappears.
LEMMA UnplugStep ==
  ASSUME NEW p \in Ports, IInv, Unplug(p)
  PROVE  IInv'
<1> USE DEF IInv, Goto, Unplug, HotPlug
<1>1. TypeOK'
  <2>1. link' \in Link
    BY Constants DEF TypeOK, Link, Ids, Ends
  <2>2. plugged' \in [Ports -> Ids]
    BY DEF TypeOK, Ids
  <2>3. spent' \in [requests : 0..MaxRequests, plugs : 0..MaxPlugs, faults : 0..MaxFaults]
    BY HotPlugType
  <2>4. stopId' \in Ids
    BY DEF TypeOK, Ids
  <2> QED
    BY <2>1, <2>2, <2>3, <2>4 DEF TypeOK
<1>2. ThreadsInv'
  BY Constants DEF TypeOK, ThreadsInv, Threads, WorkerPc, MainPc, RequesterPc,
                   DiscoveryPc
<1>3. PortInv' /\ StopInv'
  BY UnplugParts
<1>4. HandleInv' /\ ErrorInv' /\ BackoffInv' /\ BlackoutInv'
  BY Constants, DistinctThreads DEF TypeOK, ThreadsInv, Threads, DiscoveryPc, PortInv,
                                    HandleInv, ErrorInv, NoStaleError, BackoffInv,
                                    BlackoutInv, Link
<1> QED
  BY <1>1, <1>2, <1>3, <1>4 DEF IInv

\* An interface appears.
LEMMA PlugInStep ==
  ASSUME NEW p \in Ports, NEW s \in Serials, IInv, PlugIn(p, s)
  PROVE  IInv'
<1> USE DEF IInv, Goto, PlugIn, HotPlug
<1>1. TypeOK'
  <2>1. plugged' \in [Ports -> Ids]
    BY DEF TypeOK, Ids
  <2>2. spent' \in [requests : 0..MaxRequests, plugs : 0..MaxPlugs, faults : 0..MaxFaults]
    BY HotPlugType
  <2> QED
    BY <2>1, <2>2 DEF TypeOK
<1>2. ThreadsInv'
  BY Constants DEF TypeOK, ThreadsInv, Threads, WorkerPc, MainPc, RequesterPc,
                   DiscoveryPc
<1>3. PortInv'
  BY Constants DEF TypeOK, ThreadsInv, PortInv, HandleInv, Threads, DiscoveryPc
<1>4. HandleInv'
  BY Constants DEF TypeOK, ThreadsInv, PortInv, HandleInv, Threads, DiscoveryPc
<1>5. ErrorInv'
  BY Constants DEF TypeOK, ThreadsInv, HandleInv, ErrorInv, NoStaleError, DiscoveryPc
<1>6. BackoffInv'
  BY Constants DEF TypeOK, ThreadsInv, HandleInv, BackoffInv, Threads, DiscoveryPc
<1>7. StopInv'
  BY Constants DEF TypeOK, ThreadsInv, HandleInv, StopInv, Writable, Threads,
                   DiscoveryPc, WorkerPc
<1>8. BlackoutInv'
  BY DEF TypeOK, BlackoutInv, DiscoveryPc
<1> QED
  BY <1>1, <1>2, <1>3, <1>4, <1>5, <1>6, <1>7, <1>8 DEF IInv

\* workerLoop() decides to transmit.
LEMMA WorkerTransmitStep ==
  ASSUME IInv, WorkerTransmit
  PROVE  IInv'
<1> USE DEF IInv, WorkerTransmit, Goto
<1>1. TypeOK'
  BY Constants DEF TypeOK, Threads, WorkerPc
<1>2. ThreadsInv'
  BY Constants DEF TypeOK, ThreadsInv, Threads, WorkerPc, MainPc, RequesterPc,
                   DiscoveryPc
<1>3. PortInv' /\ HandleInv' /\ ErrorInv' /\ BackoffInv' /\ StopInv' /\ BlackoutInv'
  BY Constants DEF TypeOK, ThreadsInv, PortInv, HandleInv, ErrorInv, NoStaleError,
                   BackoffInv, StopInv, BlackoutInv, Threads, Writable, DiscoveryPc
<1> QED
  BY <1>1, <1>2, <1>3 DEF IInv

-----------------------------------------------------------------------------
(***************************************************************************)
(* The invariant is inductive                                              *)
(***************************************************************************)


-----------------------------------------------------------------------------
(***************************************************************************)
(* All steps together, and the properties that follow                      *)
(***************************************************************************)

\* A step of discoverAndConnect() or refreshDevices() between taking and
\* releasing discoveryMutex_.
LEMMA ProbeStepStep ==
  ASSUME NEW t \in Threads, holder = t, IInv, ProbeStep(t)
  PROVE  IInv'
<1>1. CASE ScanBegin(t)
  BY <1>1, ScanBeginStep
<1>2. CASE ScanNext(t)
  BY <1>2, ScanNextStep
<1>3. CASE ScanEnd(t)
  BY <1>3, ScanEndStep
<1>4. CASE OpenPort(t)
  BY <1>4, OpenPortStep
<1>5. CASE OpenFails(t)
  BY <1>5, OpenFailsStep
<1>6. CASE QueryAnswered(t)
  BY <1>6, QueryAnsweredStep
<1>7. CASE QueryFails(t)
  BY <1>7, QueryFailsStep
<1>8. CASE QueryDrop(t)
  BY <1>8, QueryDropStep
<1>9. CASE ScanFound(t)
  BY <1>9, ScanFoundStep
<1>10. CASE ProbeFailed(t)
  BY <1>10, ProbeFailedStep
<1> QED
  BY <1>1, <1>2, <1>3, <1>4, <1>5, <1>6, <1>7, <1>8, <1>9, <1>10 DEF ProbeStep

\* A step of the worker thread.
LEMMA WorkerStepStep == IInv /\ WorkerStep => IInv'
<1>1. SUFFICES ASSUME IInv, WorkerStep PROVE IInv'
  OBVIOUS
<1>2. CASE WorkerExit
  BY <1>1, <1>2, WorkerExitStep
<1>3. CASE WorkerProbe
  BY <1>1, <1>3, WorkerProbeStep
<1>4. CASE WorkerTransmit
  BY <1>1, <1>4, WorkerTransmitStep
<1>5. CASE WorkerSend
  BY <1>1, <1>5, WorkerSendStep
<1>6. CASE WorkerStatus
  BY <1>1, <1>6, WorkerStatusStep
<1>7. CASE WorkerNoteProbe
  BY <1>1, <1>7, WorkerNoteProbeStep
<1>8. CASE WorkerNoteSend
  BY <1>1, <1>8, WorkerNoteSendStep
<1>9. CASE DiscoverBegin
  BY <1>1, <1>9, DiscoverBeginStep
<1>10. CASE ChooseCached
  BY <1>1, <1>10, ChooseCachedStep
<1>11. CASE ChooseRefreshed
  BY <1>1, <1>11, ChooseRefreshedStep
<1>12. CASE NothingToConnect
  BY <1>1, <1>12, NothingToConnectStep
<1>13. CASE RefreshedProbeFailed
  BY <1>1, <1>13, RefreshedProbeFailedStep
<1>14. CASE CommitConnected
  BY <1>1, <1>14, CommitConnectedStep
<1>15. CASE holder = Worker /\ ProbeStep(Worker)
  BY <1>1, <1>15, DistinctThreads, ProbeStepStep
<1> QED
  BY <1>1, <1>2, <1>3, <1>4, <1>5, <1>6, <1>7, <1>8, <1>9, <1>10, <1>11, <1>12,
     <1>13, <1>14, <1>15 DEF WorkerStep

\* A step of an HTTP thread, or a new request for it.
LEMMA RequesterStepStep ==
  ASSUME NEW r \in Requesters, IInv, RequesterStep(r) \/ NewRequest(r)
  PROVE  IInv'
<1>1. r \in Threads /\ r # Worker
  BY DistinctThreads
<1>2. CASE ForceDisconnect(r)
  BY <1>2, ForceDisconnectStep
<1>3. CASE ForceReset(r)
  BY <1>3, ForceResetStep
<1>4. CASE SaveSelection(r)
  BY <1>4, SaveSelectionStep
<1>5. CASE RefreshBegin(r)
  BY <1>1, <1>5, RefreshBeginStep
<1>6. CASE RefreshEnd(r)
  BY <1>1, <1>6, RefreshEndStep
<1>7. CASE holder = r /\ ProbeStep(r)
  BY <1>1, <1>7, ProbeStepStep
<1>8. ASSUME NEW id \in Ids, SelectDevice(r, id) PROVE IInv'
  BY <1>8, SelectDeviceStep
<1>9. CASE ScanDevices(r)
  BY <1>9, ScanDevicesStep
<1>10. ASSUME NEW limit \in RetryLimits, NEW strict \in BOOLEAN,
              ChangeSettings(r, limit, strict)
       PROVE  IInv'
  BY <1>10, ChangeSettingsStep
<1> QED
  BY <1>2, <1>3, <1>4, <1>5, <1>6, <1>7, <1>8, <1>9, <1>10 DEF RequesterStep, NewRequest

\* A step of the main thread.
LEMMA MainStepStep == IInv /\ MainStep => IInv'
<1>1. SUFFICES ASSUME IInv, MainStep PROVE IInv'
  OBVIOUS
<1>2. Main \in Threads /\ Main # Worker
  BY DistinctThreads
<1>3. CASE RefreshBegin(Main)
  BY <1>1, <1>2, <1>3, RefreshBeginStep
<1>4. CASE RefreshEnd(Main)
  BY <1>1, <1>2, <1>4, RefreshEndStep
<1>5. CASE holder = Main /\ ProbeStep(Main)
  BY <1>1, <1>2, <1>5, ProbeStepStep
<1>6. CASE StartEngine
  BY <1>1, <1>6, StartEngineStep
<1>7. CASE StopJoin
  BY <1>1, <1>7, StopJoinStep
<1>8. CASE StopBlackout
  BY <1>1, <1>8, StopBlackoutStep
<1>9. CASE StopDisconnect
  BY <1>1, <1>9, StopDisconnectStep
<1>10. CASE StopReset
  BY <1>1, <1>10, StopResetStep
<1> QED
  BY <1>1, <1>3, <1>4, <1>5, <1>6, <1>7, <1>8, <1>9, <1>10 DEF MainStep

\* A stuttering step changes nothing.
LEMMA StutterStep == IInv /\ UNCHANGED vars => IInv'
<1> SUFFICES ASSUME IInv, UNCHANGED vars PROVE IInv'
  OBVIOUS
<1>1. TypeOK'
  BY DEF vars, IInv, TypeOK
<1>2. ThreadsInv' /\ PortInv' /\ HandleInv'
  BY DEF vars, IInv, ThreadsInv, PortInv, HandleInv
<1>3. ErrorInv' /\ BackoffInv' /\ BlackoutInv'
  BY DEF vars, IInv, ErrorInv, NoStaleError, BackoffInv, BlackoutInv
<1>4. StopInv'
  BY DEF vars, IInv, StopInv, Writable
<1> QED
  BY <1>1, <1>2, <1>3, <1>4 DEF IInv

\* Every step of the transport preserves the inductive invariant.
LEMMA NextPreserves == IInv /\ [Next]_vars => IInv'
<1>1. SUFFICES ASSUME IInv, Next PROVE IInv'
  BY StutterStep
<1>2. CASE WorkerStep
  BY <1>1, <1>2, WorkerStepStep
<1>3. CASE BackoffElapses
  BY <1>1, <1>3, BackoffElapsesStep
<1>4. ASSUME NEW r \in Requesters, RequesterStep(r) \/ NewRequest(r) PROVE IInv'
  BY <1>1, <1>4, RequesterStepStep
<1>5. CASE MainStep
  BY <1>1, <1>5, MainStepStep
<1>6. CASE StopBegin
  BY <1>1, <1>6, StopBeginStep
<1>7. ASSUME NEW p \in Ports, Unplug(p) PROVE IInv'
  BY <1>1, <1>7, UnplugStep
<1>8. ASSUME NEW p \in Ports, NEW s \in Serials, PlugIn(p, s) PROVE IInv'
  BY <1>1, <1>8, PlugInStep
<1>9. CASE Terminated
  BY <1>1, <1>9, StutterStep DEF Terminated
<1> QED
  BY <1>1, <1>2, <1>3, <1>4, <1>5, <1>6, <1>7, <1>8, <1>9 DEF Next

\* In every reachable state of the transport, whatever the order of the worker,
\* the HTTP threads, stop() and the environment, the inductive invariant holds.
THEOREM Inductive == Spec => []IInv
<1>1. Init => IInv
  BY InitEstablishes
<1>2. IInv /\ [Next]_vars => IInv'
  BY NextPreserves
<1> QED
  BY <1>1, <1>2, PTL DEF Spec

-----------------------------------------------------------------------------
(***************************************************************************)
(* The properties                                                          *)
(***************************************************************************)

\* Every variable of the backend, the engine and the threads stays in its type;
\* in particular stop() never sends more than its three blackout frames.
THEOREM TypeCorrect == Spec => []TypeOK
<1>1. IInv => TypeOK
  BY DEF IInv
<1> QED
  BY <1>1, Inductive, PTL

\* discoverAndConnect() and refreshDevices() never work on a live link: no
\* interleaving with forceReconnect(), sendUniverse() or stop() brings the link
\* up behind the back of a thread that holds discoveryMutex_.
THEOREM ScansOnlyWithoutLink == Spec => []ScanLeavesLinkAlone
<1>1. IInv => ScanLeavesLinkAlone
  BY DEF IInv, HandleInv, ScanLeavesLinkAlone
<1> QED
  BY <1>1, Inductive, PTL

\* probePort(), disconnect(), sendUniverse() and the reopen never leave the
\* serial handle open without an owner.
THEOREM HandleNeverLeaks == Spec => []NoHandleLeak
<1>1. IInv => NoHandleLeak
  BY DEF IInv, HandleInv, NoHandleLeak
<1> QED
  BY <1>1, Inductive, PTL

\* While status() says connected, the handle frames are written to is on the
\* endpoint status() reports.
THEOREM FramesGoToReportedEndpoint == Spec => []HandleIsOnEndpoint
<1>1. IInv => HandleIsOnEndpoint
  BY DEF IInv, HandleInv, HandleIsOnEndpoint
<1> QED
  BY <1>1, Inductive, PTL

\* status() of a live link shows a write error exactly while frames are being
\* lost, and never an error of an earlier scan or probe.
THEOREM ErrorsMatchLosses == Spec => []NoStaleError
<1>1. IInv => NoStaleError
  BY DEF IInv, ErrorInv
<1> QED
  BY <1>1, Inductive, PTL

\* Between two iterations of workerLoop() a live link has no reconnect attempt
\* counted and no backoff pending.
THEOREM BackoffOnlyWithoutLink == Spec => []ConnectedHasNoBackoff
<1>1. IInv => ConnectedHasNoBackoff
  BY DEF IInv, BackoffInv, ConnectedHasNoBackoff
<1> QED
  BY <1>1, Inductive, PTL

\* stop() leaves the interface it was driving dark when no write fails, no
\* request cuts it off and it stays plugged.
THEOREM StopDarkens == Spec => []CleanStopGoesDark
<1>1. IInv => CleanStopGoesDark
  BY DEF IInv, StopInv, CleanStopGoesDark
<1> QED
  BY <1>1, Inductive, PTL

\* sendUniverse() takes the link down only at the retry limit.
LEMMA SendGivesUpAtLimit ==
  ASSUME IInv, NEW f \in Frames, NEW ok \in BOOLEAN, SendUniverse(f, ok),
         link.connected, ~link'.connected
  PROVE  lost' >= config.retryLimit
<1>1. CASE SendWithoutLink(ok)
  BY <1>1 DEF SendWithoutLink
<1>2. CASE SendDelivers(f, ok)
  <2>1. link' = [link EXCEPT !.failures = 0, !.stage = IF @ = "write" THEN "" ELSE @]
    BY <1>2 DEF SendDelivers, Delivered
  <2>2. link \in Link
    BY DEF IInv, TypeOK
  <2> QED
    BY <2>1, <2>2 DEF Link
<1>3. CASE SendRecovers(f, ok)
  <2>1. link' = [Reopened EXCEPT !.failures = 0, !.stage = IF @ = "write" THEN "" ELSE @]
    BY <1>3 DEF SendRecovers, Delivered
  <2>2. Reopened \in Link /\ Reopened.connected
    BY ReopenedFacts
  <2> HIDE DEF Reopened
  <2> QED
    BY <2>1, <2>2 DEF Link
<1>4. CASE SendLoses(ok)
  <2>1. PICK after \in LinkAfterFailedReopen : link' = CountLostFrame(after.l)
    BY <1>4 DEF SendLoses
  <2>2. after.l \in Link /\ after.l.connected /\ after.l.failures = link.failures
    BY FailedReopenFacts
  <2>3. link.failures + 1 >= config.retryLimit
    BY <2>1, <2>2, CountLostFacts
  <2>4. lost' = lost + 1 /\ lost \in Nat /\ link.failures \in Nat
    BY <1>4 DEF SendLoses, IInv, TypeOK, Link
  <2>5. link.failures <= lost
    BY DEF IInv, ErrorInv
  <2>6. config.retryLimit \in Nat
    BY Constants DEF IInv, TypeOK
  <2> QED
    BY <2>3, <2>4, <2>5, <2>6
<1> QED
  BY <1>1, <1>2, <1>3, <1>4 DEF SendUniverse

\* The link is given up, with its endpoint left in the status, only by a
\* sendUniverse() that has reached the retry limit; every other way down
\* (disconnect(), markDisconnected()) clears the endpoint or finds no live link.
LEMMA GiveUpStepLosesEnough ==
  ASSUME IInv, Next, link.connected, ~link'.connected, link'.endpoint # NoPort
  PROVE  lost' >= config.retryLimit
<1>1. holder = Nobody
  BY DEF IInv, HandleInv
<1>2. link' # link
  OBVIOUS
<1>3. ~Disconnect
  BY DEF Disconnect, LinkDown
<1>4. CASE WorkerStep
  <2>1. CASE WorkerSend
    BY <2>1, SendGivesUpAtLimit DEF WorkerSend
  <2>2. CASE RefreshedProbeFailed \/ NothingToConnect \/ CommitConnected
    <3>1. pc[Worker] \in DiscoveryPc
      BY <2>2 DEF RefreshedProbeFailed, NothingToConnect, GiveUpDiscovery,
                  CommitConnected,
                  Goto, DiscoveryPc
    <3>. QED
      BY <1>1, <3>1, DistinctThreads DEF IInv, ThreadsInv
  <2>3. CASE ~WorkerSend /\ ~RefreshedProbeFailed /\ ~NothingToConnect /\ ~CommitConnected
    BY <1>1, <1>2, <1>4, <2>3
       DEF WorkerStep, WorkerExit, WorkerProbe, WorkerTransmit, WorkerStatus,
           WorkerNoteProbe, WorkerNoteSend, DiscoverBegin, ChooseCached, ChooseRefreshed
  <2> QED
    BY <2>1, <2>2, <2>3
<1>5. ASSUME NEW t \in Threads, RefreshBegin(t) \/ RefreshEnd(t) \/ (holder = t
      /\ ProbeStep(t))
      PROVE  FALSE
  <2>1. CASE RefreshBegin(t)
    BY <1>2, <2>1 DEF RefreshBegin
  <2>2. CASE RefreshEnd(t)
    <3>1. pc[t] \in DiscoveryPc
      BY <2>2 DEF RefreshEnd, Goto, DiscoveryPc
    <3>. QED
      BY <1>1, <3>1, DistinctThreads DEF IInv, ThreadsInv
  <2>3. CASE holder = t
    BY <1>1, <2>3, DistinctThreads
  <2> QED
    BY <1>5, <2>1, <2>2, <2>3
<1>6. ASSUME NEW r \in Requesters, RequesterStep(r) \/ NewRequest(r) PROVE FALSE
  <2>1. r \in Threads
    BY DistinctThreads
  <2> QED
    BY <1>2, <1>3, <1>5, <1>6, <2>1
       DEF RequesterStep, NewRequest, ForceDisconnect, ForceReset, SaveSelection,
           SelectDevice, ScanDevices, ChangeSettings
<1>7. CASE MainStep
  <2>1. CASE StopBlackout
    BY <2>1, SendGivesUpAtLimit, Constants DEF StopBlackout
  <2>2. CASE ~StopBlackout
    BY <1>2, <1>3, <1>5, <1>7, <2>2, DistinctThreads
       DEF MainStep, StartEngine, StopJoin, StopDisconnect, StopReset
  <2> QED
    BY <2>1, <2>2
<1>8. ASSUME NEW p \in Ports, Unplug(p) PROVE FALSE
  BY <1>8 DEF Unplug, IInv, TypeOK, Link
<1>9. CASE BackoffElapses \/ StopBegin \/ Terminated \/ (\E p \in Ports, s \in Serials : PlugIn(p, s))
  BY <1>2, <1>9 DEF BackoffElapses, StopBegin, Terminated, vars, PlugIn
<1> QED
  BY <1>4, <1>6, <1>7, <1>8, <1>9 DEF Next

\* The transport reports a device as lost only after as many lost frames in a
\* row as the write retry limit in force says.
THEOREM RetriesBeforeGiveUp == Spec => GivenUpOnlyAfterRetries
<1>1. IInv /\ [Next]_vars
      => [link.connected /\ ~link'.connected /\ link'.endpoint # NoPort
            => lost' >= config.retryLimit]_vars
  BY GiveUpStepLosesEnough
<1> QED
  BY <1>1, Inductive, PTL DEF Spec, GivenUpOnlyAfterRetries

-----------------------------------------------------------------------------
(***************************************************************************)
(* The refinement                                                          *)
(***************************************************************************)

\* The frames lost of a session, as the refinement mapping reads them.
LostOfSession == IF link.connected THEN lost ELSE 0

-----------------------------------------------------------------------------
(***************************************************************************)
(* What the refinement mapping depends on                                  *)
(***************************************************************************)

\* The phase is that of the main thread.
LEMMA PhaseOfMain ==
  ASSUME pc'[Main] = pc[Main]
  PROVE  Phase' = Phase
BY DEF Phase

\* While another thread moves, the phase stays.
LEMMA PhaseKept ==
  ASSUME IInv, NEW t \in Threads \ {Main}, NEW a, NEW b, Goto(t, a, b)
  PROVE  Phase' = Phase
<1>1. pc'[Main] = pc[Main]
  BY DistinctThreads DEF Goto, IInv, TypeOK
<1> QED
  BY <1>1, PhaseOfMain

\* Until main starts the engine it may scan.
LEMMA PhaseOfScan ==
  ASSUME IInv, NEW a \in DiscoveryPc \cup {"refresh"},
         NEW b \in DiscoveryPc \cup {"start"}, Goto(Main, a, b)
  PROVE  Phase' = Phase
<1>1. pc[Main] \in DiscoveryPc \cup {"refresh"} /\ pc'[Main] \in DiscoveryPc \cup {"start"}
  BY DistinctThreads DEF Goto, IInv, TypeOK
<1>2. Phase = "starting"
  BY <1>1 DEF Phase, DiscoveryPc
<1>3. Phase' = "starting"
  BY <1>1 DEF Phase, DiscoveryPc
<1> QED
  BY <1>2, <1>3

\* A link that is down is no session.
LEMMA NoSession ==
  ASSUME ~link.connected
  PROVE  CurrentSession = Session!Down /\ LostOfSession = 0
BY DEF CurrentSession, Session!Down, LostOfSession

\* A link that is up is one.
LEMMA IsSession ==
  ASSUME IInv, link.connected
  PROVE  Session!Up
<1>1. CurrentSession.endpoint = link.endpoint
  BY DEF CurrentSession
<1>2. link.endpoint # NoPort
  BY DEF IInv, HandleInv
<1>3. Session!Down.endpoint = NoPort
  BY DEF Session!Down
<1> QED
  BY <1>1, <1>2, <1>3 DEF Session!Up

\* Steps that leave the link down are stutters.
LEMMA StaysDown ==
  ASSUME ~link.connected, ~link'.connected, config'.retryLimit = config.retryLimit,
         Phase' = Phase
  PROVE  UNCHANGED Session!vars
<1>1. CurrentSession = Session!Down /\ LostOfSession = 0
  BY NoSession
<1>2. CurrentSession' = Session!Down /\ LostOfSession' = 0
  BY DEF CurrentSession, Session!Down, LostOfSession
<1> QED
  BY <1>1, <1>2 DEF Session!vars, LostOfSession

\* Steps that do not touch the link are stutters.
LEMMA StaysSame ==
  ASSUME link' = link, lost' = lost, config'.retryLimit = config.retryLimit, Phase' = Phase
  PROVE  UNCHANGED Session!vars
BY DEF Session!vars, CurrentSession

\* disconnect() closes the session, if there is one.
LEMMA DisconnectCloses ==
  ASSUME IInv, Disconnect, lost' = 0, config'.retryLimit = config.retryLimit, Phase' = Phase
  PROVE  Session!Next \/ UNCHANGED Session!vars
<1>1. ~link'.connected
  BY DEF Disconnect, LinkDown
<1>2. CASE ~link.connected
  BY <1>1, <1>2, StaysDown
<1>3. CASE link.connected
  <2>1. Session!Up
    BY <1>3, IsSession
  <2>2. CurrentSession' = Session!Down /\ LostOfSession' = 0
    BY <1>1 DEF CurrentSession, Session!Down, LostOfSession
  <2> QED
    BY <2>1, <2>2 DEF Session!Next, Session!Close, LostOfSession
<1> QED
  BY <1>2, <1>3

\* So do the threads that only remember something.
LEMMA LinkUntouched ==
  ASSUME IInv, NEW t \in Threads \ {Main}, NEW a, NEW b, Goto(t, a, b),
         link' = link, lost' = lost, config'.retryLimit = config.retryLimit
  PROVE  UNCHANGED Session!vars
BY PhaseKept, StaysSame

-----------------------------------------------------------------------------
(***************************************************************************)
(* Discovery                                                               *)
(***************************************************************************)

\* Scans and probes happen between sessions.
LEMMA ProbesAreHidden ==
  ASSUME NEW t \in Threads, holder = t, IInv, ProbeStep(t)
  PROVE  UNCHANGED Session!vars
<1>1. ~link.connected
  BY DistinctThreads DEF IInv, HandleInv
<1>2. link \in Link
  BY DEF IInv, TypeOK
<1>3. ~link'.connected
  BY <1>1, <1>2 DEF ProbeStep, ScanBegin, ScanNext, ScanEnd, OpenPort, OpenFails,
       QueryAnswered, QueryFails, QueryDrop, ScanFound, ProbeFailed, Disconnect, LinkDown, Link
<1>4. config' = config
  BY DEF ProbeStep, ScanBegin, ScanNext, ScanEnd, OpenPort, OpenFails,
       QueryAnswered, QueryFails, QueryDrop, ScanFound, ProbeFailed
<1>5. PICK a \in DiscoveryPc, b \in DiscoveryPc : Goto(t, a, b)
  BY DEF ProbeStep, ScanBegin, ScanNext, ScanEnd, OpenPort, OpenFails,
       QueryAnswered, QueryFails, QueryDrop, ScanFound, ProbeFailed, DiscoveryPc
<1>6. Phase' = Phase
  BY <1>5, PhaseKept, PhaseOfScan
<1> QED
  BY <1>1, <1>3, <1>4, <1>6, StaysDown

\* refreshDevices() takes and releases discoveryMutex_.
LEMMA RefreshIsHidden ==
  ASSUME NEW t \in Threads, IInv, RefreshBegin(t) \/ RefreshEnd(t)
  PROVE  UNCHANGED Session!vars
<1>1. config' = config /\ lost' = lost
  BY DEF RefreshBegin, RefreshEnd
<1>2. Phase' = Phase
  <2>1. CASE t # Main
    BY <2>1, PhaseKept DEF RefreshBegin, RefreshEnd
  <2>2. CASE t = Main
    BY <2>2, PhaseOfScan DEF RefreshBegin, RefreshEnd, DiscoveryPc, AfterRefresh
  <2> QED
    BY <2>1, <2>2
<1>3. CASE RefreshBegin(t)
  BY <1>1, <1>2, <1>3, StaysSame DEF RefreshBegin
<1>4. CASE RefreshEnd(t)
  <2>1. holder = t
    BY <1>4 DEF RefreshEnd, Goto, DiscoveryPc, IInv, ThreadsInv
  <2>2. ~link.connected
    BY <2>1, DistinctThreads DEF IInv, HandleInv
  <2>3. link \in Link
    BY DEF IInv, TypeOK
  <2>4. ~link'.connected
    BY <1>4, <2>2, <2>3 DEF RefreshEnd, Link
  <2> QED
    BY <1>1, <1>2, <2>2, <2>4, StaysDown
<1> QED
  BY <1>3, <1>4

\* A worker that is at work is served by a running engine.
LEMMA WorkerServes ==
  ASSUME IInv, pc[Worker] \notin {"off", "exited"}
  PROVE  Phase = "serving"
<1>1. pc[Main] \in {"running", "join"}
  BY DEF IInv, ThreadsInv, MainPc, DiscoveryPc
<1> QED
  BY <1>1 DEF Phase

\* commitConnected() begins a session.
LEMMA CommitEstablishes ==
  ASSUME IInv, CommitConnected
  PROVE  Session!Establish
<1>1. pc[Worker] = "commit"
  BY DEF CommitConnected, Goto
<1>2. holder = Worker
  BY <1>1, DistinctThreads DEF IInv, ThreadsInv, DiscoveryPc
<1>3. ~link.connected
  BY <1>2, DistinctThreads DEF IInv, HandleInv
<1>4. disc.port \in Ports /\ disc.serial \in Serials
  BY <1>1, DistinctThreads DEF IInv, PortInv
<1>5. link'.connected /\ link'.active = disc.serial /\ link'.endpoint = disc.port
  BY DEF CommitConnected, IInv, TypeOK, Link
<1>6. CurrentSession' = [device |-> disc.serial, endpoint |-> disc.port]
  BY <1>5 DEF CurrentSession
<1>7. LostOfSession' = 0 /\ config' = config
  BY DEF CommitConnected, LostOfSession
<1>8. Phase' = Phase
  BY PhaseKept, DistinctThreads DEF CommitConnected
<1>9. Phase = "serving"
  BY <1>1, WorkerServes
<1>10. CurrentSession = Session!Down
  BY <1>3, NoSession
<1> QED
  BY <1>4, <1>6, <1>7, <1>8, <1>9, <1>10 DEF Session!Establish, Session!Up, LostOfSession

-----------------------------------------------------------------------------
(***************************************************************************)
(* sendUniverse()                                                          *)
(***************************************************************************)

\* A reopen that fails leaves device and endpoint in the status.
LEMMA SameSessionAfterReopen ==
  ASSUME IInv, link.connected, NEW after \in LinkAfterFailedReopen
  PROVE  /\ after.l \in Link /\ after.l.connected /\ after.l.failures = link.failures
         /\ after.l.active = link.active /\ after.l.endpoint = link.endpoint
<1>1. after.l \in Link /\ after.l.connected /\ after.l.failures = link.failures
  BY FailedReopenFacts
<1>2. link \in Link /\ link.endpoint # NoPort
  BY DEF IInv, TypeOK, HandleInv
<1>3. Reopened.active = link.active /\ Reopened.endpoint = link.endpoint
  BY <1>2 DEF Link, Reopened, ReopenTarget
<1>4. after.l \in {link, Reopened, [link EXCEPT !.fd = NoPort, !.live = FALSE]}
  BY DEF LinkAfterFailedReopen
<1> HIDE DEF Reopened
<1> QED
  BY <1>1, <1>2, <1>3, <1>4 DEF Link

\* A frame is delivered, is lost, or is the last of as many lost ones as the
\* limit says; an inline reopen on the way changes neither device nor endpoint.
LEMMA SendIsAbstract ==
  ASSUME IInv, NEW f \in Frames, NEW ok \in BOOLEAN, SendUniverse(f, ok),
         config' = config, Phase' = Phase, Phase \in {"serving", "stopping"}
  PROVE  Session!Next \/ UNCHANGED Session!vars
<1>1. CASE ~link.connected
  <2>1. SendWithoutLink(ok)
    BY <1>1 DEF SendUniverse, SendDelivers, SendRecovers, SendLoses
  <2> QED
    BY <2>1, StaysSame DEF SendWithoutLink
<1>2. ASSUME link.connected, link'.connected, link'.active = link.active,
             link'.endpoint = link.endpoint, lost' = 0
      PROVE  Session!Deliver
  <2>1. CurrentSession' = CurrentSession /\ LostOfSession' = 0
    BY <1>2 DEF CurrentSession, LostOfSession
  <2>2. Session!Up
    BY <1>2, IsSession
  <2> QED
    BY <2>1, <2>2 DEF Session!Deliver, Session!Transmitting, LostOfSession
<1>3. CASE SendDelivers(f, ok)
  <2>1. link' = [link EXCEPT !.failures = 0, !.stage = IF @ = "write" THEN "" ELSE @]
    BY <1>3 DEF SendDelivers, Delivered
  <2>2. link \in Link /\ link.connected /\ lost' = 0
    BY <1>3 DEF SendDelivers, Delivered, IInv, TypeOK
  <2>3. Session!Deliver
    BY <1>2, <2>1, <2>2 DEF Link
  <2> QED
    BY <2>3 DEF Session!Next
<1>4. CASE SendRecovers(f, ok)
  <2>1. link' = [Reopened EXCEPT !.failures = 0, !.stage = IF @ = "write" THEN "" ELSE @]
    BY <1>4 DEF SendRecovers, Delivered
  <2>2. link.connected /\ lost' = 0
    BY <1>4 DEF SendRecovers, Delivered
  <2>3. Reopened \in Link /\ Reopened.connected
    BY <1>4, ReopenedFacts DEF SendRecovers
  <2>4. Reopened.active = link.active /\ Reopened.endpoint = link.endpoint
    BY <2>2 DEF IInv, TypeOK, Link, HandleInv, Reopened, ReopenTarget
  <2> HIDE DEF Reopened
  <2>5. Session!Deliver
    BY <1>2, <2>1, <2>2, <2>3, <2>4 DEF Link
  <2> QED
    BY <2>5 DEF Session!Next
<1>5. CASE SendLoses(ok)
  <2>1. PICK after \in LinkAfterFailedReopen : link' = CountLostFrame(after.l)
    BY <1>5 DEF SendLoses
  <2>2. link.connected /\ lost' = lost + 1
    BY <1>5 DEF SendLoses
  <2>3. /\ after.l \in Link /\ after.l.connected /\ after.l.failures = link.failures
        /\ after.l.active = link.active /\ after.l.endpoint = link.endpoint
    BY <2>2, SameSessionAfterReopen
  <2>4. link.failures \in Nat /\ lost \in Nat /\ link.failures <= lost
    BY DEF IInv, TypeOK, Link, ErrorInv
  <2>5. config.retryLimit \in Nat
    BY Constants DEF IInv, TypeOK
  <2>6. LostOfSession = lost /\ Session!Up
    BY <2>2, IsSession DEF LostOfSession
  <2>7. CASE link.failures + 1 < config.retryLimit
    <3>1. link'.connected /\ link'.active = link.active /\ link'.endpoint = link.endpoint
      BY <2>1, <2>3, <2>7 DEF CountLostFrame, Link
    <3>2. CurrentSession' = CurrentSession /\ LostOfSession' = lost + 1
      BY <2>2, <3>1 DEF CurrentSession, LostOfSession
    <3>3. Session!Lose
      BY <2>6, <3>2 DEF Session!Lose, Session!Transmitting, LostOfSession
    <3> QED
      BY <3>3 DEF Session!Next
  <2>8. CASE ~(link.failures + 1 < config.retryLimit)
    <3>1. ~link'.connected
      BY <2>1, <2>3, <2>8 DEF CountLostFrame, Link
    <3>2. CurrentSession' = Session!Down /\ LostOfSession' = 0
      BY <3>1 DEF CurrentSession, Session!Down, LostOfSession
    <3>3. lost + 1 >= config.retryLimit
      BY <2>4, <2>5, <2>8
    <3>4. Session!GiveUp
      BY <2>6, <3>2, <3>3 DEF Session!GiveUp, Session!Transmitting, LostOfSession
    <3> QED
      BY <3>4 DEF Session!Next
  <2> QED
    BY <2>7, <2>8
<1> QED
  BY <1>1, <1>3, <1>4, <1>5 DEF SendUniverse, SendWithoutLink

-----------------------------------------------------------------------------
(***************************************************************************)
(* The threads and the environment                                         *)
(***************************************************************************)

\* A step of the worker thread.
LEMMA WorkerImplements ==
  ASSUME IInv, WorkerStep
  PROVE  Session!Next \/ UNCHANGED Session!vars
<1>1. Worker \in Threads \ {Main}
  BY DistinctThreads
<1>2. CASE WorkerSend
  <2>1. PICK f \in Frames, ok \in BOOLEAN : SendUniverse(f, ok)
    BY <1>2 DEF WorkerSend
  <2>2. config' = config /\ Phase' = Phase
    BY <1>1, <1>2, PhaseKept DEF WorkerSend
  <2>3. Phase = "serving"
    BY <1>2, WorkerServes DEF WorkerSend, Goto
  <2> QED
    BY <2>1, <2>2, <2>3, SendIsAbstract
<1>3. CASE CommitConnected
  BY <1>3, CommitEstablishes DEF Session!Next
<1>4. CASE RefreshedProbeFailed \/ NothingToConnect
  <2>1. pc[Worker] \in DiscoveryPc
    BY <1>4 DEF RefreshedProbeFailed, NothingToConnect, GiveUpDiscovery, Goto, DiscoveryPc
  <2>2. ~link.connected
    BY <2>1, DistinctThreads DEF IInv, ThreadsInv, HandleInv
  <2>3. ~link'.connected /\ config' = config
    BY <1>4 DEF RefreshedProbeFailed, NothingToConnect, GiveUpDiscovery, IInv, TypeOK, Link
  <2>4. Phase' = Phase
    BY <1>1, <1>4, PhaseKept DEF RefreshedProbeFailed, NothingToConnect, GiveUpDiscovery
  <2> QED
    BY <2>2, <2>3, <2>4, StaysDown
<1>5. CASE holder = Worker /\ ProbeStep(Worker)
  BY <1>1, <1>5, ProbesAreHidden
<1>6. CASE WorkerExit \/ WorkerProbe \/ WorkerTransmit \/ WorkerNoteProbe \/ WorkerNoteSend
  BY <1>1, <1>6, LinkUntouched
     DEF WorkerExit, WorkerProbe, WorkerTransmit, WorkerNoteProbe, WorkerNoteSend
<1>7. CASE WorkerStatus \/ DiscoverBegin \/ ChooseCached \/ ChooseRefreshed
  BY <1>1, <1>7, LinkUntouched DEF WorkerStatus, DiscoverBegin, ChooseCached, ChooseRefreshed
<1> QED
  BY <1>2, <1>3, <1>4, <1>5, <1>6, <1>7 DEF WorkerStep

\* A step of an HTTP thread, or a new request for it.
LEMMA RequesterImplements ==
  ASSUME IInv, NEW r \in Requesters, RequesterStep(r) \/ NewRequest(r)
  PROVE  Session!Next \/ UNCHANGED Session!vars
<1>1. r \in Threads \ {Main}
  BY DistinctThreads
<1>2. CASE ForceDisconnect(r)
  BY <1>1, <1>2, PhaseKept, DisconnectCloses DEF ForceDisconnect
<1>3. CASE holder = r /\ ProbeStep(r)
  BY <1>1, <1>3, ProbesAreHidden
<1>4. CASE RefreshBegin(r) \/ RefreshEnd(r)
  BY <1>1, <1>4, RefreshIsHidden
<1>5. CASE ForceReset(r) \/ SaveSelection(r) \/ ScanDevices(r)
  BY <1>1, <1>5, LinkUntouched DEF ForceReset, SaveSelection, ScanDevices
<1>6. ASSUME NEW id \in Ids, SelectDevice(r, id)
      PROVE  UNCHANGED Session!vars
  <2>1. config'.retryLimit = config.retryLimit
    BY <1>6 DEF SelectDevice, IInv, TypeOK
  <2> QED
    BY <1>1, <1>6, <2>1, LinkUntouched DEF SelectDevice
<1>7. ASSUME NEW limit \in RetryLimits, NEW strict \in BOOLEAN, ChangeSettings(r, limit, strict)
      PROVE  Session!Configure
  <2>1. config'.retryLimit = limit
    BY <1>7 DEF ChangeSettings, IInv, TypeOK
  <2>2. Phase' = Phase /\ CurrentSession' = CurrentSession /\ LostOfSession' = LostOfSession
    BY <1>7 DEF ChangeSettings, Phase, CurrentSession, LostOfSession
  <2> QED
    BY <2>1, <2>2 DEF Session!Configure, LostOfSession
<1> QED
  BY <1>2, <1>3, <1>4, <1>5, <1>6, <1>7 DEF RequesterStep, NewRequest, Session!Next

\* A step of the main thread.
LEMMA MainImplements ==
  ASSUME IInv, MainStep \/ StopBegin
  PROVE  Session!Next \/ UNCHANGED Session!vars
<1>1. Main \in Threads /\ Main # Worker
  BY DistinctThreads
<1>2. pc \in [Threads -> WorkerPc \cup DiscoveryPc \cup RequesterPc \cup MainPc]
  BY DEF IInv, TypeOK
<1>3. CASE RefreshBegin(Main) \/ RefreshEnd(Main)
  BY <1>1, <1>3, RefreshIsHidden
<1>4. CASE holder = Main /\ ProbeStep(Main)
  BY <1>1, <1>4, ProbesAreHidden
<1>5. CASE StartEngine
  <2>1. pc[Main] = "start" /\ pc'[Main] = "running"
    BY <1>1, <1>2, <1>5 DEF StartEngine
  <2>2. Phase = "starting" /\ Phase' = "serving"
    BY <2>1 DEF Phase
  <2>3. CurrentSession' = CurrentSession /\ LostOfSession' = LostOfSession /\ config' = config
    BY <1>5 DEF StartEngine, CurrentSession, LostOfSession
  <2>4. Session!Start
    BY <2>2, <2>3 DEF Session!Start, Session!Begin, LostOfSession
  <2> QED
    BY <2>4 DEF Session!Next
<1>6. CASE StopBegin
  <2>1. pc[Main] = "running" /\ pc'[Main] = "join"
    BY <1>1, <1>2, <1>6 DEF StopBegin, Goto
  <2>2. Phase' = Phase
    BY <2>1 DEF Phase
  <2> QED
    BY <1>6, <2>2, StaysSame DEF StopBegin
<1>7. CASE StopJoin
  <2>1. pc[Main] = "join" /\ pc'[Main] = "blackout"
    BY <1>1, <1>2, <1>7 DEF StopJoin, Goto
  <2>2. Phase = "serving" /\ Phase' = "stopping"
    BY <2>1 DEF Phase
  <2>3. CurrentSession' = CurrentSession /\ LostOfSession' = LostOfSession /\ config' = config
    BY <1>7 DEF StopJoin, CurrentSession, LostOfSession
  <2>4. Session!BlackOut
    BY <2>2, <2>3 DEF Session!BlackOut, Session!Begin, LostOfSession
  <2> QED
    BY <2>4 DEF Session!Next
<1>8. CASE StopBlackout
  <2>1. PICK ok \in BOOLEAN :
          /\ SendUniverse(Dark, ok)
          /\ Goto(Main, "blackout",
                  IF ok /\ blackouts + 1 < BlackoutFrames THEN "blackout" ELSE "close")
    BY <1>8 DEF StopBlackout
  <2>2. pc[Main] = "blackout" /\ pc'[Main] \in {"blackout", "close"}
    BY <1>1, <1>2, <2>1 DEF Goto
  <2>3. Phase = "stopping" /\ Phase' = "stopping"
    BY <2>2 DEF Phase
  <2>4. config' = config /\ Dark \in Frames
    BY <1>8, Constants DEF StopBlackout
  <2> QED
    BY <2>1, <2>3, <2>4, SendIsAbstract
<1>9. CASE StopDisconnect
  <2>1. pc[Main] = "close" /\ pc'[Main] = "final"
    BY <1>1, <1>2, <1>9 DEF StopDisconnect, Goto
  <2>2. Phase = "stopping" /\ Phase' = "stopped"
    BY <2>1 DEF Phase
  <2>3. ~link'.connected /\ config' = config
    BY <1>9 DEF StopDisconnect, Disconnect, LinkDown
  <2>4. CurrentSession' = Session!Down /\ LostOfSession' = 0
    BY <2>3 DEF CurrentSession, Session!Down, LostOfSession
  <2>5. Session!Stop
    BY <2>2, <2>3, <2>4 DEF Session!Stop, Session!Begin, LostOfSession
  <2> QED
    BY <2>5 DEF Session!Next
<1>10. CASE StopReset
  <2>1. pc[Main] = "final" /\ pc'[Main] = "done"
    BY <1>1, <1>2, <1>10 DEF StopReset, Goto
  <2>2. Phase' = Phase
    BY <2>1 DEF Phase
  <2> QED
    BY <1>10, <2>2, StaysSame DEF StopReset
<1> QED
  BY <1>3, <1>4, <1>5, <1>6, <1>7, <1>8, <1>9, <1>10 DEF MainStep

\* Hot-plugs, time and stuttering.
LEMMA EnvironmentIsHidden ==
  ASSUME IInv,
         \/ BackoffElapses \/ Terminated \/ UNCHANGED vars
         \/ \E p \in Ports : Unplug(p) \/ \E s \in Serials : PlugIn(p, s)
  PROVE  UNCHANGED Session!vars
<1>1. pc' = pc /\ config' = config /\ lost' = lost
  BY DEF BackoffElapses, Terminated, vars, Unplug, PlugIn
<1>2. /\ link'.connected = link.connected /\ link'.active = link.active
      /\ link'.endpoint = link.endpoint
  BY DEF BackoffElapses, Terminated, vars, Unplug, PlugIn, IInv, TypeOK, Link
<1>3. Phase' = Phase
  BY <1>1, PhaseOfMain
<1>4. CurrentSession' = CurrentSession /\ LostOfSession' = LostOfSession
  BY <1>1, <1>2 DEF CurrentSession, LostOfSession
<1> QED
  BY <1>1, <1>3, <1>4 DEF Session!vars, LostOfSession

-----------------------------------------------------------------------------
\* The transport starts without a session.
LEMMA InitImplements == Init => Session!Init
<1>1. SUFFICES ASSUME Init PROVE Session!Init
  OBVIOUS
<1>2. pc[Main] = "refresh"
  BY <1>1, DistinctThreads DEF Init
<1>3. Phase = "starting"
  BY <1>2 DEF Phase
<1>4. ~link.connected
  BY <1>1 DEF Init, LinkDown
<1>5. CurrentSession = Session!Down /\ LostOfSession = 0
  BY <1>4, NoSession
<1>6. config.retryLimit \in RetryLimits
  BY <1>1 DEF Init
<1> QED
  BY <1>3, <1>5, <1>6 DEF Session!Init, LostOfSession

\* Every step of the transport is one of the abstract transport, or hidden.
LEMMA NextImplements == IInv /\ [Next]_vars => [Session!Next]_(Session!vars)
<1>1. SUFFICES ASSUME IInv, [Next]_vars PROVE Session!Next \/ UNCHANGED Session!vars
  OBVIOUS
<1>2. CASE WorkerStep
  BY <1>1, <1>2, WorkerImplements
<1>3. ASSUME NEW r \in Requesters, RequesterStep(r) \/ NewRequest(r)
      PROVE  Session!Next \/ UNCHANGED Session!vars
  BY <1>1, <1>3, RequesterImplements
<1>4. CASE MainStep \/ StopBegin
  BY <1>1, <1>4, MainImplements
<1>5. CASE \/ BackoffElapses \/ Terminated \/ UNCHANGED vars
           \/ \E p \in Ports : Unplug(p) \/ \E s \in Serials : PlugIn(p, s)
  BY <1>1, <1>5, EnvironmentIsHidden
<1> QED
  BY <1>1, <1>2, <1>3, <1>4, <1>5 DEF Next

\* Whatever the worker, the HTTP threads, stop() and the environment do, what
\* the transport shows the rest of TuxDMX is one session at a time, begun only
\* while the engine serves, kept with its device and endpoint through inline
\* reopens, and ended by disconnect() or at the write retry limit; none begins
\* after stop() has joined the worker, and stop() leaves none.
THEOREM TransportImplementsSession == Spec => ImplementsSession
<1>1. Init => Session!Init
  BY InitImplements
<1>2. IInv /\ [Next]_vars => [Session!Next]_(Session!vars)
  BY NextImplements
<1> QED
  BY <1>1, <1>2, Inductive, PTL DEF Spec, ImplementsSession, Session!Spec
=============================================================================
