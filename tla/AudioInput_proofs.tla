-------------------------- MODULE AudioInput_proofs ---------------------------
(***************************************************************************)
(* Theorems about AudioInput, for any set of input devices and any number  *)
(* of selections, changes of the devices and failures.                     *)
(*                                                                         *)
(* Between its sections the worker holds a stream nobody else knows; the   *)
(* invariant says at each of its places who has the stream, what the       *)
(* backend is called and which selection the worker is about to carry out. *)
(***************************************************************************)
EXTENDS AudioInput, TLAPS

-----------------------------------------------------------------------------
(***************************************************************************)
(* The inductive invariant                                                 *)
(***************************************************************************)

Locals == [why : {"start", "switch", "error"}, handle : Inputs \cup {None}, input : BOOLEAN]
Spent == [requests : 0 .. MaxRequests, changes : 0 .. MaxChanges, faults : 0 .. MaxFaults]

TypeInv ==
  /\ running \in BOOLEAN /\ reactive \in BOOLEAN /\ ready \in BOOLEAN
  /\ known \in DeviceList
  /\ selected \in Inputs \cup {Default}
  /\ pending \in BOOLEAN
  /\ stream \in Inputs \cup {None}
  /\ backend \in Simulated \cup {"portaudio", "portaudio/device"}
  /\ pc \in [worker : WorkerPc, main : MainPc]
  /\ loc \in Locals
  /\ present \in DeviceList
  /\ spent \in Spent

\* stop() touches the stream only once the worker is gone, and the worker calls
\* PortAudio only when it came up.
ThreadsInv ==
  /\ running <=> pc.main = "running"
  /\ pc.worker # "exited" => pc.main \in {"running", "join"}
  /\ pc.worker \in {"named", "detach", "close", "choose", "open", "commit", "name", "fail",
                    "take", "read"} => ready
  /\ ~ready => stream = None

\* Who has the stream that is open.
Published == IF stream = None THEN 0 ELSE 1
Opening == IF pc.worker = "commit" THEN 1 ELSE 0
Closing == IF loc.handle # None /\ "close" \in {pc.worker, pc.main} THEN 1 ELSE 0

StreamInv ==
  /\ pc.worker \in {"init", "named", "close", "choose", "open", "commit", "fail"} => stream = None
  /\ pc.worker = "name" => stream # None
  /\ pc.main \in {"close", "clear", "done"} => stream = None
  /\ loc.handle # None => pc.worker \in {"close", "open", "commit"} \/ pc.main = "close"
  /\ pc.worker \in {"open", "commit"} => loc.handle # None
  /\ streams = Published + Opening + Closing

\* The name of the backend tells whether there is a stream, and so does the tick.
NamesInv ==
  /\ pc.worker \in {"loop", "take", "read", "tick", "callback"}
       => (backend \in Simulated <=> stream = None)
  /\ pc.worker \in {"tick", "callback"} => (loc.input <=> stream # None)

\* A stream is opened for the selection, unless that changed meanwhile.
SelectionInv ==
  /\ pc.worker \in {"open", "commit"} /\ ~pending /\ selected # Default
       => loc.handle = selected
  /\ SelectionApplied

IInv == TypeInv /\ ThreadsInv /\ StreamInv /\ NamesInv /\ SelectionInv

-----------------------------------------------------------------------------
(***************************************************************************)
(* The steps                                                               *)
(***************************************************************************)

LEMMA InitEstablishes == Init => IInv
<1> SUFFICES ASSUME Init PROVE IInv
  OBVIOUS
<1> USE DEF Init
<1>1. TypeInv
  <2>1. known \in DeviceList
    BY DEF NoDevices, DeviceList
  <2>2. spent \in Spent
    BY BoundsAssumption DEF Spent
  <2> QED
    BY <2>1, <2>2 DEF TypeInv, Simulated, WorkerPc, MainPc, Locals
<1>2. ThreadsInv
  BY DEF ThreadsInv
<1>3. StreamInv
  BY DEF StreamInv, Published, Opening, Closing
<1>4. NamesInv /\ SelectionInv
  BY DEF NamesInv, SelectionInv, SelectionApplied
<1> QED
  BY <1>1, <1>2, <1>3, <1>4 DEF IInv

LEMMA Going ==
  ASSUME TypeInv
  PROVE  /\ \A from, to : GotoW(from, to) =>
              /\ pc.worker = from /\ pc'.worker = to /\ pc'.main = pc.main
              /\ to \in WorkerPc => pc' \in [worker : WorkerPc, main : MainPc]
         /\ \A from, to : GotoM(from, to) =>
              /\ pc.main = from /\ pc'.main = to /\ pc'.worker = pc.worker
              /\ to \in MainPc => pc' \in [worker : WorkerPc, main : MainPc]
BY DEF TypeInv, GotoW, GotoM

LEMMA Spending ==
  ASSUME TypeInv, Faulty \/ Request \/ spent' = spent
  PROVE  spent' \in Spent
BY BoundsAssumption DEF TypeInv, Spent, Faulty, Request

LEMMA Refreshing == Refreshed \subseteq DeviceList
BY DEF Refreshed

\* The device that is tried is one that is there.
LEMMA Choosing ==
  ASSUME TypeInv, ChooseDevice
  PROVE  /\ pc.worker = "choose" /\ pc'.main = pc.main
         /\ \/ pc'.worker = "open" /\ loc'.handle \in Inputs
            \/ pc'.worker = "fail" /\ loc'.handle = None
         /\ pc'.worker = "open" /\ selected # Default => loc'.handle = selected
         /\ loc' \in Locals /\ loc'.input = loc.input
         /\ known' \in DeviceList
         /\ pc' \in [worker : WorkerPc, main : MainPc]
<1> DEFINE resolved == IF selected = Default THEN known'.default ELSE selected
           usable == resolved \in present.ids
<1>1. /\ pc.worker = "choose" /\ known' \in Refreshed
      /\ GotoW("choose", IF usable THEN "open" ELSE "fail")
      /\ loc' = [loc EXCEPT !.handle = IF usable THEN resolved ELSE None]
  BY DEF ChooseDevice
<1>2. usable => resolved \in Inputs
  BY DEF TypeInv, DeviceList
<1>3. loc \in Locals
  BY DEF TypeInv
<1>4. selected # Default => resolved = selected
  OBVIOUS
<1> HIDE DEF resolved
<1>5. /\ pc'.worker = IF usable THEN "open" ELSE "fail"
      /\ pc'.main = pc.main /\ pc' \in [worker : WorkerPc, main : MainPc]
  BY <1>1, Going DEF WorkerPc
<1>6. loc' \in Locals /\ loc'.input = loc.input /\ loc'.handle = IF usable THEN resolved ELSE None
  BY <1>1, <1>2, <1>3 DEF Locals
<1> QED
  BY <1>1, <1>2, <1>4, <1>5, <1>6, Refreshing

LEMMA TypesAreKept ==
  ASSUME TypeInv, [Next]_vars
  PROVE  TypeInv'
<1> USE DEF TypeInv
<1>1. CASE UNCHANGED vars
  BY <1>1 DEF vars
<1>2. CASE InitFails \/ InitPortAudio \/ InitNamed
  <2>1. pc' \in [worker : WorkerPc, main : MainPc] /\ spent' \in Spent /\ loc' \in Locals
        /\ known' \in DeviceList
    BY <1>2, Going, Spending, Refreshing DEF InitFails, InitPortAudio, InitNamed, WorkerPc, Locals
  <2> QED
    BY <1>2, <2>1 DEF InitFails, InitPortAudio, InitNamed, Simulated
<1>3. CASE Detach \/ StopDetach
  <2>1. pc' \in [worker : WorkerPc, main : MainPc] /\ loc' \in Locals
    BY <1>3, Going DEF Detach, StopDetach, WorkerPc, MainPc, Locals
  <2> QED
    BY <1>3, <2>1 DEF Detach, StopDetach
<1>4. CASE CloseStream \/ StopCloseStream
  <2>1. pc' \in [worker : WorkerPc, main : MainPc] /\ loc' \in Locals
    BY <1>4, Going DEF CloseStream, StopCloseStream, CloseDetached, WorkerPc, MainPc, Locals
  <2> QED
    BY <1>4, <2>1 DEF CloseStream, StopCloseStream
<1>5. CASE ChooseDevice
  <2>1. pc' \in [worker : WorkerPc, main : MainPc] /\ loc' \in Locals /\ known' \in DeviceList
    BY <1>5, Choosing
  <2> QED
    BY <1>5, <2>1 DEF ChooseDevice
<1>6. CASE OpenFails \/ OpenStream
  <2>1. pc' \in [worker : WorkerPc, main : MainPc] /\ loc' \in Locals
    BY <1>6, Going DEF OpenFails, OpenStream, WorkerPc, Locals
  <2>2. spent' \in Spent
    BY <1>6, Spending DEF OpenFails, OpenStream
  <2> QED
    BY <1>6, <2>1, <2>2 DEF OpenFails, OpenStream
<1>7. CASE CommitStream
  <2>1. pc' \in [worker : WorkerPc, main : MainPc] /\ loc' \in Locals /\ stream' \in Inputs \cup {None}
    BY <1>7, Going DEF CommitStream, WorkerPc, Locals
  <2> QED
    BY <1>7, <2>1 DEF CommitStream
<1>8. CASE NameDevice \/ NameFailure
  <2>1. pc' \in [worker : WorkerPc, main : MainPc] /\ loc' \in Locals
    BY <1>8, Going DEF NameDevice, NameFailure, AfterOpen, WorkerPc, Locals
  <2>2. backend' \in Simulated \cup {"portaudio", "portaudio/device"}
    BY <1>8 DEF NameDevice, NameFailure, Simulated, Locals
  <2> QED
    BY <1>8, <2>1, <2>2 DEF NameDevice, NameFailure
<1>9. CASE Loop \/ TakeSwitch
  <2>1. pc' \in [worker : WorkerPc, main : MainPc] /\ loc' \in Locals /\ known' \in DeviceList
    BY <1>9, Going, Refreshing DEF Loop, TakeSwitch, WorkerPc, Locals
  <2> QED
    BY <1>9, <2>1 DEF Loop, TakeSwitch
<1>10. CASE ReadInput \/ ReadFails
  <2>1. pc' \in [worker : WorkerPc, main : MainPc] /\ loc' \in Locals
    BY <1>10, Going DEF ReadInput, ReadFails, WorkerPc, Locals
  <2>2. spent' \in Spent
    BY <1>10, Spending DEF ReadInput, ReadFails
  <2> QED
    BY <1>10, <2>1, <2>2 DEF ReadInput, ReadFails
<1>11. CASE Tick \/ Callback
  <2>1. pc' \in [worker : WorkerPc, main : MainPc]
    BY <1>11, Going DEF Tick, Callback, WorkerPc
  <2> QED
    BY <1>11, <2>1 DEF Tick, Callback
<1>12. ASSUME NEW d \in Inputs \cup {Default}, SelectInputDevice(d) PROVE TypeInv'
  BY <1>12, Spending DEF SelectInputDevice
<1>13. ASSUME NEW enabled \in BOOLEAN, SetReactiveMode(enabled) PROVE TypeInv'
  BY <1>13, Spending DEF SetReactiveMode
<1>14. CASE StopBegin \/ StopJoin \/ StopTerminate
  <2>1. pc' \in [worker : WorkerPc, main : MainPc]
    BY <1>14, Going DEF StopBegin, StopJoin, StopTerminate, MainPc
  <2>2. NoDevices \in DeviceList
    BY DEF NoDevices, DeviceList
  <2> QED
    BY <1>14, <2>1, <2>2 DEF StopBegin, StopJoin, StopTerminate
<1>15. CASE DevicesChange
  <2>1. spent' \in Spent
    BY <1>15, BoundsAssumption DEF DevicesChange, Spent
  <2> QED
    BY <1>15, <2>1 DEF DevicesChange
<1> QED
  BY <1>1, <1>2, <1>3, <1>4, <1>5, <1>6, <1>7, <1>8, <1>9, <1>10, <1>11, <1>12, <1>13, <1>14,
     <1>15 DEF Next, WorkerStep, MainStep, Terminated

\* Where the worker goes on once it has named its source.
LEMMA Naming ==
  ASSUME TypeInv
  PROVE  /\ NameDevice =>
              /\ pc.worker = "name" /\ pc'.worker \in {"loop", "read"} /\ pc'.main = pc.main
              /\ loc' = loc
         /\ NameFailure =>
              /\ pc.worker = "fail" /\ pc'.worker \in {"loop", "read", "tick"}
              /\ pc'.main = pc.main /\ loc'.handle = loc.handle
<1>1. AfterOpen \in {"loop", "read"} /\ loc \in Locals
  BY DEF AfterOpen, TypeInv
<1>2. ASSUME NameDevice
      PROVE  /\ pc.worker = "name" /\ pc'.worker = AfterOpen /\ pc'.main = pc.main
             /\ loc' = loc
  BY <1>2, Going DEF NameDevice
<1>3. ASSUME NameFailure
      PROVE  /\ pc.worker = "fail" /\ pc'.main = pc.main /\ loc'.handle = loc.handle
             /\ pc'.worker = IF loc.why = "error" THEN "tick" ELSE AfterOpen
  <2> DEFINE to == IF loc.why = "error" THEN "tick" ELSE AfterOpen
  <2>1. GotoW("fail", to) /\ loc' = [loc EXCEPT !.input = FALSE]
    BY <1>3 DEF NameFailure
  <2> HIDE DEF to
  <2>2. pc.worker = "fail" /\ pc'.main = pc.main /\ pc'.worker = to
    BY <2>1, Going
  <2> QED
    BY <1>1, <2>1, <2>2 DEF to, Locals
<1> QED
  BY <1>1, <1>2, <1>3

LEMMA ThreadsAreKept ==
  ASSUME TypeInv, StreamInv, ThreadsInv, [Next]_vars
  PROVE  ThreadsInv'
<1> USE DEF ThreadsInv
<1>1. CASE UNCHANGED vars
  BY <1>1 DEF vars
<1>2. CASE InitFails \/ InitPortAudio \/ InitNamed
  BY <1>2, Going DEF InitFails, InitPortAudio, InitNamed
<1>3. CASE Detach \/ CloseStream \/ OpenFails \/ OpenStream
  BY <1>3, Going DEF Detach, CloseStream, OpenFails, OpenStream
<1>4. CASE ChooseDevice
  BY <1>4, Choosing DEF ChooseDevice
<1>5. CASE CommitStream
  BY <1>5, Going DEF CommitStream
<1>6. CASE NameDevice \/ NameFailure
  <2>1. ready' = ready /\ running' = running /\ stream' = stream
    BY <1>6 DEF NameDevice, NameFailure
  <2>2. /\ pc.worker \in {"name", "fail"} /\ pc'.worker \in {"loop", "read", "tick"}
        /\ pc'.main = pc.main
    BY <1>6, Naming
  <2> QED
    BY <2>1, <2>2
<1>7. CASE Loop
  BY <1>7, Going DEF Loop
<1>8. CASE TakeSwitch \/ ReadInput \/ ReadFails \/ Tick \/ Callback
  BY <1>8, Going DEF TakeSwitch, ReadInput, ReadFails, Tick, Callback
<1>9. ASSUME NEW d \in Inputs \cup {Default}, SelectInputDevice(d) PROVE ThreadsInv'
  BY <1>9 DEF SelectInputDevice
<1>10. ASSUME NEW enabled \in BOOLEAN, SetReactiveMode(enabled) PROVE ThreadsInv'
  BY <1>10 DEF SetReactiveMode
<1>11. CASE StopBegin \/ StopJoin \/ StopDetach \/ StopCloseStream
  BY <1>11, Going DEF StopBegin, StopJoin, StopDetach, StopCloseStream
<1>12. CASE StopTerminate
  BY <1>12, Going DEF StopTerminate, StreamInv
<1>13. CASE DevicesChange
  BY <1>13 DEF DevicesChange
<1> QED
  BY <1>1, <1>2, <1>3, <1>4, <1>5, <1>6, <1>7, <1>8, <1>9, <1>10, <1>11, <1>12, <1>13
     DEF Next, WorkerStep, MainStep, Terminated

LEMMA StreamIsKept ==
  ASSUME TypeInv, ThreadsInv, StreamInv, [Next]_vars
  PROVE  StreamInv'
<1> USE DEF StreamInv, Published, Opening, Closing
<1>1. loc \in Locals /\ stream \in Inputs \cup {None}
  BY DEF TypeInv
<1>2. CASE UNCHANGED vars
  BY <1>2 DEF vars
<1>3. CASE InitFails \/ InitPortAudio \/ InitNamed
  BY <1>1, <1>3, Going DEF InitFails, InitPortAudio, InitNamed, ThreadsInv, Locals
<1>4. CASE Detach
  BY <1>1, <1>4, Going DEF Detach, ThreadsInv, Locals
<1>5. CASE CloseStream
  <2>1. /\ pc.worker = "close" /\ pc'.worker \in {"fail", "choose"} /\ pc'.main = pc.main
    BY <1>5, Going DEF CloseStream
  <2>2. /\ streams' = (IF loc.handle = None THEN streams ELSE streams - 1)
        /\ loc'.handle = None /\ stream' = stream
    BY <1>1, <1>5 DEF CloseStream, CloseDetached, Locals
  <2> QED
    BY <2>1, <2>2 DEF ThreadsInv
<1>6. CASE ChooseDevice
  <2>1. stream' = stream /\ streams' = streams
    BY <1>6 DEF ChooseDevice
  <2> QED
    BY <1>6, <2>1, Choosing, DefaultAssumption DEF ThreadsInv
<1>7. CASE OpenFails
  BY <1>1, <1>7, Going DEF OpenFails, ThreadsInv, Locals
<1>8. CASE OpenStream
  BY <1>1, <1>8, Going DEF OpenStream, ThreadsInv
<1>9. CASE CommitStream
  BY <1>1, <1>9, Going DEF CommitStream, ThreadsInv, Locals
<1>10. CASE NameDevice \/ NameFailure
  BY <1>10, Naming DEF NameDevice, NameFailure, ThreadsInv
<1>11. CASE Loop \/ TakeSwitch
  BY <1>1, <1>11, Going DEF Loop, TakeSwitch, ThreadsInv, Locals
<1>12. CASE ReadInput \/ ReadFails \/ Tick \/ Callback
  BY <1>1, <1>12, Going DEF ReadInput, ReadFails, Tick, Callback, ThreadsInv, Locals
<1>13. ASSUME NEW d \in Inputs \cup {Default}, SelectInputDevice(d) PROVE StreamInv'
  BY <1>13 DEF SelectInputDevice
<1>14. ASSUME NEW enabled \in BOOLEAN, SetReactiveMode(enabled) PROVE StreamInv'
  BY <1>14 DEF SetReactiveMode
<1>15. CASE StopBegin
  BY <1>15, Going DEF StopBegin
<1>16. CASE StopJoin
  BY <1>16, Going DEF StopJoin, ThreadsInv
<1>17. CASE StopDetach
  BY <1>1, <1>17, Going DEF StopDetach, ThreadsInv, Locals
<1>18. CASE StopCloseStream
  <2>1. pc.main = "close" /\ pc'.main = "clear" /\ pc'.worker = pc.worker /\ pc.worker = "exited"
    BY <1>18, Going DEF StopCloseStream, ThreadsInv
  <2>2. /\ streams' = (IF loc.handle = None THEN streams ELSE streams - 1)
        /\ loc'.handle = None /\ stream' = stream
    BY <1>1, <1>18 DEF StopCloseStream, CloseDetached, Locals
  <2> QED
    BY <2>1, <2>2
<1>19. CASE StopTerminate
  BY <1>19, Going DEF StopTerminate
<1>20. CASE DevicesChange
  BY <1>20 DEF DevicesChange
<1> QED
  BY <1>2, <1>3, <1>4, <1>5, <1>6, <1>7, <1>8, <1>9, <1>10, <1>11, <1>12, <1>13, <1>14, <1>15,
     <1>16, <1>17, <1>18, <1>19, <1>20 DEF Next, WorkerStep, MainStep, Terminated

LEMMA NamesAreKept ==
  ASSUME TypeInv, ThreadsInv, StreamInv, NamesInv, [Next]_vars
  PROVE  NamesInv'
<1> USE DEF NamesInv
<1>1. loc \in Locals /\ "simulated" \in Simulated
  BY DEF TypeInv, Simulated
<1>2. CASE UNCHANGED vars
  BY <1>2 DEF vars
<1>3. CASE InitFails \/ InitPortAudio \/ InitNamed
  BY <1>1, <1>3, Going DEF InitFails, InitPortAudio, InitNamed, StreamInv
<1>4. CASE Detach \/ CloseStream \/ OpenFails \/ OpenStream \/ CommitStream
  BY <1>4, Going DEF Detach, CloseStream, OpenFails, OpenStream, CommitStream
<1>5. CASE ChooseDevice
  BY <1>5, Choosing DEF ChooseDevice
<1>6. CASE NameDevice
  BY <1>6, Naming DEF NameDevice, StreamInv, Simulated
<1>7. CASE NameFailure
  <2>1. backend' \in Simulated /\ ~loc'.input /\ stream' = stream /\ stream = None
    BY <1>1, <1>7, Going DEF NameFailure, StreamInv, Simulated, Locals
  <2> QED
    BY <2>1
<1>8. CASE Loop
  <2>1. /\ pc.worker = "loop" /\ pc'.worker \in {"take", "tick", "exited"}
        /\ pc'.worker = "tick" => ~ready
        /\ ~loc'.input /\ stream' = stream /\ backend' = backend
    BY <1>1, <1>8, Going DEF Loop, Locals
  <2> QED
    BY <2>1 DEF ThreadsInv
<1>9. CASE TakeSwitch
  BY <1>1, <1>9, Going DEF TakeSwitch, Locals
<1>10. CASE ReadInput \/ ReadFails
  <2>1. CASE ReadInput
    <3>1. loc'.input = (stream # None) /\ stream' = stream /\ backend' = backend
      BY <1>1, <2>1 DEF ReadInput, Locals
    <3>2. pc.worker = "read" /\ pc'.worker = "tick"
      BY <2>1, Going DEF ReadInput
    <3> QED
      BY <3>1, <3>2
  <2>2. CASE ReadFails
    BY <2>2, Going DEF ReadFails
  <2> QED
    BY <1>10, <2>1, <2>2
<1>11. CASE Tick \/ Callback
  BY <1>11, Going DEF Tick, Callback
<1>12. ASSUME NEW d \in Inputs \cup {Default}, SelectInputDevice(d) PROVE NamesInv'
  BY <1>12 DEF SelectInputDevice
<1>13. ASSUME NEW enabled \in BOOLEAN, SetReactiveMode(enabled) PROVE NamesInv'
  BY <1>13 DEF SetReactiveMode
<1>14. CASE StopBegin
  BY <1>14, Going DEF StopBegin
<1>15. CASE MainStep
  <2>1. pc'.worker = "exited"
    BY <1>15, Going DEF MainStep, StopJoin, StopDetach, StopCloseStream, StopTerminate, ThreadsInv
  <2> QED
    BY <2>1
<1>16. CASE DevicesChange
  BY <1>16 DEF DevicesChange
<1> QED
  BY <1>2, <1>3, <1>4, <1>5, <1>6, <1>7, <1>8, <1>9, <1>10, <1>11, <1>12, <1>13, <1>14, <1>15,
     <1>16 DEF Next, WorkerStep, Terminated

LEMMA SelectionIsKept ==
  ASSUME TypeInv, ThreadsInv, StreamInv, SelectionInv, [Next]_vars
  PROVE  SelectionInv'
<1> USE DEF SelectionInv, SelectionApplied
<1>1. loc \in Locals
  BY DEF TypeInv
<1>2. CASE UNCHANGED vars
  BY <1>2 DEF vars
<1>3. CASE InitFails \/ InitPortAudio \/ InitNamed
  BY <1>3, Going DEF InitFails, InitPortAudio, InitNamed, StreamInv
<1>4. CASE Detach \/ CloseStream
  BY <1>4, Going DEF Detach, CloseStream, StreamInv
<1>5. CASE ChooseDevice
  BY <1>5, Choosing DEF ChooseDevice, StreamInv
<1>6. CASE OpenFails \/ OpenStream
  BY <1>1, <1>6, Going DEF OpenFails, OpenStream, StreamInv
<1>7. CASE CommitStream
  BY <1>1, <1>7, Going DEF CommitStream
<1>8. CASE NameDevice \/ NameFailure
  BY <1>8, Naming DEF NameDevice, NameFailure, StreamInv
<1>9. CASE Loop
  BY <1>9, Going DEF Loop
<1>10. CASE TakeSwitch
  BY <1>10, Going DEF TakeSwitch, TypeInv
<1>11. CASE ReadInput \/ ReadFails \/ Tick \/ Callback
  BY <1>11, Going DEF ReadInput, ReadFails, Tick, Callback
<1>12. ASSUME NEW d \in Inputs \cup {Default}, SelectInputDevice(d) PROVE SelectionInv'
  BY <1>12 DEF SelectInputDevice
<1>13. ASSUME NEW enabled \in BOOLEAN, SetReactiveMode(enabled) PROVE SelectionInv'
  BY <1>13 DEF SetReactiveMode
<1>14. CASE StopBegin \/ StopJoin \/ StopTerminate \/ StopDetach \/ StopCloseStream
  BY <1>14, Going DEF StopBegin, StopJoin, StopTerminate, StopDetach, StopCloseStream, ThreadsInv
<1>15. CASE DevicesChange
  BY <1>15 DEF DevicesChange
<1> QED
  BY <1>2, <1>3, <1>4, <1>5, <1>6, <1>7, <1>8, <1>9, <1>10, <1>11, <1>12, <1>13, <1>14, <1>15
     DEF Next, WorkerStep, MainStep, Terminated

-----------------------------------------------------------------------------
(***************************************************************************)
(* Theorems                                                                *)
(***************************************************************************)

\* The inductive invariant holds in every state of every run of the audio input.
THEOREM Inductive == Spec => []IInv
<1>1. IInv /\ [Next]_vars => IInv'
  BY TypesAreKept, ThreadsAreKept, StreamIsKept, NamesAreKept, SelectionIsKept DEF IInv
<1> QED
  BY <1>1, InitEstablishes, PTL DEF Spec

\* The variables of the engine and the locals of its threads keep their types, and no
\* stream is closed that was not open.
THEOREM TypeCorrect == Spec => []TypeOK
<1>1. IInv => TypeOK
  <2> SUFFICES ASSUME IInv PROVE TypeOK
    OBVIOUS
  <2>1. streams \in Nat
    BY DEF IInv, StreamInv, Published, Opening, Closing
  <2> QED
    BY <2>1 DEF IInv, TypeInv, Locals, Spent, TypeOK
<1> QED
  BY <1>1, Inductive, PTL

\* A selection that arrives while the worker switches is not lost: the stream that is
\* read is that of the last selection, unless a switch is still due.
THEOREM SelectionIsApplied == Spec => []SelectionApplied
<1>1. IInv => SelectionApplied
  BY DEF IInv, SelectionInv
<1> QED
  BY <1>1, Inductive, PTL

\* In every tick the name of the backend says whether the metrics are simulated.
THEOREM TickSource == Spec => []TickSourceIsNamed
<1>1. IInv => TickSourceIsNamed
  BY DEF IInv, NamesInv, TickSourceIsNamed
<1> QED
  BY <1>1, Inductive, PTL

\* No path through failed opens, switches, read errors and stop() leaves a stream open
\* that nobody will close, or opens two.
THEOREM NoLeak == Spec => []NoStreamLeak
<1>1. IInv => NoStreamLeak
  <2> SUFFICES ASSUME IInv PROVE NoStreamLeak
    OBVIOUS
  <2>1. streams = Published + Opening + Closing
    BY DEF IInv, StreamInv
  <2>2. Published + Opening + Closing <= 1
    BY DEF IInv, StreamInv, ThreadsInv, Published, Opening, Closing
  <2>3. pc.main = "done" => Published + Opening + Closing = 0
    BY DEF IInv, StreamInv, ThreadsInv, Published, Opening, Closing
  <2> QED
    BY <2>1, <2>2, <2>3 DEF NoStreamLeak, Published, Opening, Closing
<1> QED
  BY <1>1, Inductive, PTL
=============================================================================
