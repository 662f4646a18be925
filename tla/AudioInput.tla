----------------------------- MODULE AudioInput -----------------------------
(***************************************************************************)
(* The audio input of TuxDMX: AudioEngine (src/audio/audio_engine.cpp,     *)
(* built with PortAudio), its worker thread, the HTTP threads that select  *)
(* an input device, and the main thread that stops it.                     *)
(*                                                                         *)
(* A section under audioDeviceMutex_ or backendMutex_ is one action;       *)
(* PortAudio is called between the sections, on a stream only the worker   *)
(* (and stop(), once the worker was joined) knows.  The analysis of the    *)
(* samples is left out: a tick either had real input or simulated input.   *)
(*                                                                         *)
(* The environment adds and removes input devices and makes PortAudio fail *)
(* (MaxChanges, MaxFaults); MaxRequests bounds the selections.             *)
(***************************************************************************)
EXTENDS Integers, FiniteSets

CONSTANTS
  Inputs,       \* ids of input devices
  Default,      \* kUseDefaultInputDevice: the default device, or no device
  MaxRequests,  \* bound on the requests of the HTTP threads
  MaxChanges,   \* bound on devices added or removed
  MaxFaults     \* bound on failures of a device that is there

None == "none"  \* no stream; kInactiveInputDevice

ASSUME DefaultAssumption == Default \notin Inputs /\ None \notin Inputs
ASSUME BoundsAssumption == {MaxRequests, MaxChanges, MaxFaults} \subseteq Nat

VARIABLES
  running,  \* running_
  reactive, \* reactiveMode_
  ready,    \* portAudioReady_
  known,    \* under audioDeviceMutex_: inputDevices_ and defaultInputDeviceId_
  selected, \* under audioDeviceMutex_: selectedInputDeviceId_
  pending,  \* under audioDeviceMutex_: deviceSwitchPending_
  stream,   \* under audioDeviceMutex_: stream_ and activeInputDeviceId_, set together
  backend,  \* under backendMutex_: backendName_
  pc,       \* where the worker and the main thread are
  loc,      \* locals: the stream being closed or opened, why, hadAudioInput
  streams,  \* PortAudio: number of open streams
  present,  \* PortAudio: input devices it can open, and the default one
  spent     \* environment: requests, changes and faults so far

vars == <<running, reactive, ready, known, selected, pending, stream, backend, pc, loc,
          streams, present, spent>>

DeviceList == {l \in [ids : SUBSET Inputs, default : Inputs \cup {Default}] :
                 l.default \in l.ids \cup {Default}}

NoDevices == [ids |-> {}, default |-> Default]

Simulated == {"simulated", "no input device", "input unavailable", "read error"}

WorkerPc == {"off", "init", "named", "detach", "close", "choose", "open", "commit",
             "name", "fail", "loop", "take", "read", "tick", "callback", "exited"}

MainPc == {"running", "join", "detach", "close", "clear", "done"}

GotoW(from, to) == pc.worker = from /\ pc' = [pc EXCEPT !.worker = to]

GotoM(from, to) == pc.main = from /\ pc' = [pc EXCEPT !.main = to]

Faulty == /\ spent.faults < MaxFaults
          /\ spent' = [spent EXCEPT !.faults = @ + 1]

-----------------------------------------------------------------------------
(***************************************************************************)
(* The worker: initPortAudio()                                             *)
(***************************************************************************)

\* refreshInputDevicesLocked(): enumerate; without a default device of
\* PortAudio the first input is the default.
Refreshed ==
  {l \in DeviceList :
     /\ l.ids = present.ids
     /\ IF present.default = Default /\ present.ids # {}
        THEN l.default \in present.ids
        ELSE l.default = present.default}

\* PortAudio does not come up: the worker simulates from then on.
InitFails ==
  /\ GotoW("init", "loop")
  /\ Faulty
  /\ backend' = "simulated"
  /\ UNCHANGED <<running, reactive, ready, known, selected, pending, stream, loc, streams,
                 present>>

InitPortAudio ==
  /\ GotoW("init", "named")
  /\ ready' = TRUE
  /\ known' \in Refreshed
  /\ pending' = TRUE
  /\ UNCHANGED <<running, reactive, selected, stream, backend, loc, streams, present, spent>>

InitNamed ==
  /\ GotoW("named", "detach")
  /\ backend' = "portaudio"
  /\ loc' = [loc EXCEPT !.why = "start"]
  /\ UNCHANGED <<running, reactive, ready, known, selected, pending, stream, streams,
                 present, spent>>

-----------------------------------------------------------------------------
(***************************************************************************)
(* openPortAudioStreamForSelectedDevice(), which begins with               *)
(* closePortAudioStream(); a read error calls the latter alone             *)
(***************************************************************************)

Detach ==
  /\ GotoW("detach", "close")
  /\ loc' = [loc EXCEPT !.handle = stream]
  /\ stream' = None
  /\ UNCHANGED <<running, reactive, ready, known, selected, pending, backend, streams,
                 present, spent>>

\* Mutant: closed whether there is a stream or not.
CloseDetachedAlways == /\ streams' = streams - 1
                       /\ loc' = [loc EXCEPT !.handle = None]

CloseDetached == /\ streams' = IF loc.handle = None THEN streams ELSE streams - 1
                 /\ loc' = [loc EXCEPT !.handle = None]

CloseStream ==
  /\ GotoW("close", IF loc.why = "error" THEN "fail" ELSE "choose")
  /\ CloseDetached
  /\ UNCHANGED <<running, reactive, ready, known, selected, pending, stream, backend,
                 present, spent>>

\* The selection is read here, after the pending switch was taken; the device
\* it stands for must still be an input.
ChooseDevice ==
  /\ pc.worker = "choose"
  /\ known' \in Refreshed
  /\ LET resolved == IF selected = Default THEN known'.default ELSE selected
         usable == resolved \in present.ids
     IN  /\ GotoW("choose", IF usable THEN "open" ELSE "fail")
         /\ loc' = [loc EXCEPT !.handle = IF usable THEN resolved ELSE None]
  /\ UNCHANGED <<running, reactive, ready, selected, pending, stream, backend, streams,
                 present, spent>>

\* Mutant: a stream that does not start is not closed.
OpenFailsLeaking ==
  /\ GotoW("open", "fail")
  /\ IF loc.handle \in present.ids THEN Faulty ELSE UNCHANGED spent
  /\ loc' = [loc EXCEPT !.handle = None]
  /\ streams' = streams + 1
  /\ UNCHANGED <<running, reactive, ready, known, selected, pending, stream, backend,
                 present>>

\* Pa_OpenStream() fails, or Pa_StartStream() does and the stream is closed.
OpenFails ==
  /\ GotoW("open", "fail")
  /\ IF loc.handle \in present.ids THEN Faulty ELSE UNCHANGED spent
  /\ loc' = [loc EXCEPT !.handle = None]
  /\ UNCHANGED <<running, reactive, ready, known, selected, pending, stream, backend,
                 streams, present>>

OpenStream ==
  /\ GotoW("open", "commit")
  /\ loc.handle \in present.ids
  /\ streams' = streams + 1
  /\ UNCHANGED <<running, reactive, ready, known, selected, pending, stream, backend, loc,
                 present, spent>>

\* Mutant: the pending switch is cleared once the stream is open.
CommitStreamClearsPending ==
  /\ GotoW("commit", "name")
  /\ stream' = loc.handle
  /\ loc' = [loc EXCEPT !.handle = None]
  /\ pending' = FALSE
  /\ UNCHANGED <<running, reactive, ready, known, selected, backend, streams, present, spent>>

CommitStream ==
  /\ GotoW("commit", "name")
  /\ stream' = loc.handle
  /\ loc' = [loc EXCEPT !.handle = None]
  /\ UNCHANGED <<running, reactive, ready, known, selected, pending, backend, streams,
                 present, spent>>

\* Where the caller goes on.
AfterOpen == IF loc.why = "start" THEN "loop" ELSE "read"

NameDevice ==
  /\ GotoW("name", AfterOpen)
  /\ backend' = "portaudio/device"
  /\ UNCHANGED <<running, reactive, ready, known, selected, pending, stream, loc, streams,
                 present, spent>>

\* Mutant: the failed open leaves the name of the device it closed.
NameFailureOfReadOnly ==
  /\ GotoW("fail", IF loc.why = "error" THEN "tick" ELSE AfterOpen)
  /\ backend' = CASE loc.why = "start" -> "no input device"
                  [] loc.why = "switch" -> backend
                  [] loc.why = "error" -> "read error"
  /\ loc' = [loc EXCEPT !.input = FALSE]
  /\ UNCHANGED <<running, reactive, ready, known, selected, pending, stream, streams,
                 present, spent>>

\* Without a stream the worker simulates, and says so.
NameFailure ==
  /\ GotoW("fail", IF loc.why = "error" THEN "tick" ELSE AfterOpen)
  /\ backend' = CASE loc.why = "start" -> "no input device"
                  [] loc.why = "switch" -> "input unavailable"
                  [] loc.why = "error" -> "read error"
  /\ loc' = [loc EXCEPT !.input = FALSE]
  /\ UNCHANGED <<running, reactive, ready, known, selected, pending, stream, streams,
                 present, spent>>

-----------------------------------------------------------------------------
(***************************************************************************)
(* The worker: loop()                                                      *)
(***************************************************************************)

\* The head of the loop, with the refresh of the device list every two seconds.
Loop ==
  /\ GotoW("loop", IF running THEN IF ready THEN "take" ELSE "tick" ELSE "exited")
  /\ loc' = [loc EXCEPT !.input = FALSE]
  /\ known' \in {known} \cup IF running /\ ready THEN Refreshed ELSE {}
  /\ UNCHANGED <<running, reactive, ready, selected, pending, stream, backend, streams,
                 present, spent>>

TakeSwitch ==
  /\ GotoW("take", IF pending THEN "detach" ELSE "read")
  /\ pending' = FALSE
  /\ loc' = [loc EXCEPT !.why = "switch"]
  /\ UNCHANGED <<running, reactive, ready, known, selected, stream, backend, streams,
                 present, spent>>

\* Pa_ReadStream() blocks for one buffer.
ReadInput ==
  /\ stream \in present.ids \cup {None}
  /\ GotoW("read", "tick")
  /\ loc' = [loc EXCEPT !.input = stream # None]
  /\ UNCHANGED <<running, reactive, ready, known, selected, pending, stream, backend,
                 streams, present, spent>>

ReadFails ==
  /\ stream # None
  /\ IF stream \in present.ids THEN Faulty ELSE UNCHANGED spent
  /\ GotoW("read", "detach")
  /\ loc' = [loc EXCEPT !.why = "error"]
  /\ UNCHANGED <<running, reactive, ready, known, selected, pending, stream, backend,
                 streams, present>>

\* In reactive mode the tick calls onAudioMetrics() in the worker thread.
Tick ==
  /\ GotoW("tick", IF reactive THEN "callback" ELSE "loop")
  /\ UNCHANGED <<running, reactive, ready, known, selected, pending, stream, backend, loc,
                 streams, present, spent>>

Callback ==
  /\ GotoW("callback", "loop")
  /\ UNCHANGED <<running, reactive, ready, known, selected, pending, stream, backend, loc,
                 streams, present, spent>>

WorkerStep ==
  \/ InitFails \/ InitPortAudio \/ InitNamed
  \/ Detach \/ CloseStream \/ ChooseDevice \/ OpenFails \/ OpenStream \/ CommitStream
  \/ NameDevice \/ NameFailure
  \/ Loop \/ TakeSwitch \/ ReadInput \/ ReadFails \/ Tick \/ Callback

-----------------------------------------------------------------------------
(***************************************************************************)
(* The HTTP threads, detached: they may run until the process ends         *)
(***************************************************************************)

Request == /\ spent.requests < MaxRequests
           /\ spent' = [spent EXCEPT !.requests = @ + 1]

\* POST /api/audio/input-device: an id that is not in a list that has any is
\* refused.
SelectInputDevice(d) ==
  /\ Request
  /\ d = Default \/ known.ids = {} \/ d \in known.ids
  /\ selected' = d
  /\ pending' = TRUE
  /\ UNCHANGED <<running, reactive, ready, known, stream, backend, pc, loc, streams, present>>

\* POST /api/audio/reactive.
SetReactiveMode(enabled) ==
  /\ Request
  /\ reactive' = enabled
  /\ UNCHANGED <<running, ready, known, selected, pending, stream, backend, pc, loc, streams,
                 present>>

-----------------------------------------------------------------------------
(***************************************************************************)
(* The main thread: stop() and shutdownPortAudio()                         *)
(***************************************************************************)

StopBegin ==
  /\ GotoM("running", "join")
  /\ running' = FALSE
  /\ UNCHANGED <<reactive, ready, known, selected, pending, stream, backend, loc, streams,
                 present, spent>>

StopJoin ==
  /\ pc.worker = "exited"
  /\ GotoM("join", IF ready THEN "detach" ELSE "done")
  /\ UNCHANGED <<running, reactive, ready, known, selected, pending, stream, backend, loc,
                 streams, present, spent>>

StopDetach ==
  /\ GotoM("detach", "close")
  /\ loc' = [loc EXCEPT !.handle = stream]
  /\ stream' = None
  /\ UNCHANGED <<running, reactive, ready, known, selected, pending, backend, streams,
                 present, spent>>

StopCloseStream ==
  /\ GotoM("close", "clear")
  /\ CloseDetached
  /\ UNCHANGED <<running, reactive, ready, known, selected, pending, stream, backend,
                 present, spent>>

\* The list is cleared, PortAudio terminated.  backendName_ keeps its last value.
StopTerminate ==
  /\ GotoM("clear", "done")
  /\ known' = NoDevices
  /\ ready' = FALSE
  /\ UNCHANGED <<running, reactive, selected, pending, stream, backend, loc, streams,
                 present, spent>>

MainStep == StopJoin \/ StopDetach \/ StopCloseStream \/ StopTerminate

-----------------------------------------------------------------------------
\* An input device comes or goes, or the default one changes.
DevicesChange ==
  /\ spent.changes < MaxChanges
  /\ spent' = [spent EXCEPT !.changes = @ + 1]
  /\ present' \in DeviceList \ {present}
  /\ UNCHANGED <<running, reactive, ready, known, selected, pending, stream, backend, pc,
                 loc, streams>>

Terminated == pc.main = "done" /\ UNCHANGED vars

\* The constructor and start().
Init ==
  /\ running = TRUE
  /\ reactive = FALSE
  /\ ready = FALSE
  /\ known = NoDevices
  /\ selected = Default
  /\ pending = FALSE
  /\ stream = None
  /\ backend = "simulated"
  /\ pc = [worker |-> "init", main |-> "running"]
  /\ loc = [why |-> "start", handle |-> None, input |-> FALSE]
  /\ streams = 0
  /\ present \in DeviceList
  /\ spent = [requests |-> 0, changes |-> 0, faults |-> 0]

Next ==
  \/ WorkerStep
  \/ \E d \in Inputs \cup {Default} : SelectInputDevice(d)
  \/ \E enabled \in BOOLEAN : SetReactiveMode(enabled)
  \/ StopBegin
  \/ MainStep
  \/ DevicesChange
  \/ Terminated

Spec == Init /\ [][Next]_vars

\* The worker keeps running; a blocking read of PortAudio returns.
FairSpec == Spec /\ WF_vars(WorkerStep)

-----------------------------------------------------------------------------
(***************************************************************************)
(* Properties                                                              *)
(***************************************************************************)

TypeOK ==
  /\ running \in BOOLEAN /\ reactive \in BOOLEAN /\ ready \in BOOLEAN
  /\ known \in DeviceList
  /\ selected \in Inputs \cup {Default}
  /\ pending \in BOOLEAN
  /\ stream \in Inputs \cup {None}
  /\ backend \in Simulated \cup {"portaudio", "portaudio/device"}
  /\ pc \in [worker : WorkerPc, main : MainPc]
  /\ loc \in [why : {"start", "switch", "error"}, handle : Inputs \cup {None},
              input : BOOLEAN]
  /\ streams \in Nat
  /\ present \in DeviceList
  /\ spent \in [requests : 0..MaxRequests, changes : 0..MaxChanges, faults : 0..MaxFaults]

\* The stream that is read is the one that was selected last, unless a switch
\* to another is pending or being carried out: a selection that arrives while
\* the worker is between taking the switch and publishing the stream is not lost.
SelectionApplied ==
  stream # None /\ ~pending /\ selected # Default
    /\ pc.worker \notin {"detach", "close", "choose", "open", "commit"}
  => stream = selected

\* onAudioMetrics() asks backendName() whether its metrics are simulated; in
\* every tick the answer is right, whatever opened, failed or was selected since.
TickSourceIsNamed ==
  pc.worker = "callback" => (backend \in Simulated <=> ~loc.input)

\* Every stream that was opened is published or in the hands of the thread that
\* opens or closes it; it is closed before another is opened, and stop() leaves
\* none behind, on every path through failed opens, switches and read errors.
NoStreamLeak ==
  LET published == IF stream = None THEN 0 ELSE 1
      opening == IF pc.worker = "commit" THEN 1 ELSE 0
      closing == IF loc.handle # None /\ "close" \in {pc.worker, pc.main} THEN 1 ELSE 0
  IN  /\ streams = published + opening + closing
      /\ streams <= 1
      /\ pc.main = "done" => streams = 0

\* A pending selection is carried out: its device is opened, or the source is
\* named as simulated, or PortAudio never came up, or it is superseded; a failed open
\* or a read error in between does not stop that.
SelectionSettles ==
  \A d \in Inputs :
    pending /\ selected = d
      ~> \/ stream = d
         \/ pc.worker = "tick" /\ ~pending /\ backend \in Simulated
         \/ ~ready /\ pc.worker # "init"
         \/ selected # d
         \/ ~running
=============================================================================
