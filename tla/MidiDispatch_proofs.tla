------------------------- MODULE MidiDispatch_proofs -------------------------
(***************************************************************************)
(* Theorems about MidiDispatch, for any inputs, any messages and any       *)
(* number of them: the worker keeps what it reads in order until it is     *)
(* decoded, and of what it decodes nothing is heard.                       *)
(***************************************************************************)
EXTENDS MidiDispatch, TLAPS

\* Messages are sequences of bytes, of any length.
Bytes == Raw \subseteq Seq(0 .. 255)

-----------------------------------------------------------------------------
(***************************************************************************)
(* The inductive invariant                                                 *)
(***************************************************************************)

Received == [input : Inputs, raw : Raw]

TypeInv ==
  /\ queue \in [Inputs -> Seq(Raw)]
  /\ pending \in Seq(Received)
  /\ read \in Seq(Received)

\* What is pending is the end of what was read.
PendingIsUnread ==
  /\ Len(pending) <= Len(read)
  /\ \A n \in 1 .. Len(pending) : pending[n] = read[Len(read) - Len(pending) + n]

Silence == heard = <<>>

IInv == TypeInv /\ PendingIsUnread /\ Silence

-----------------------------------------------------------------------------
(***************************************************************************)
(* The decoder                                                             *)
(***************************************************************************)

LEMMA Clamped ==
  ASSUME NEW b \in 0 .. 255
  PROVE  clampMidiByte(b) \in 0 .. 127
BY DEF clampMidiByte, Clamp

\* A status byte up to 127 is the status byte of no message.
LEMMA NothingDecoded ==
  ASSUME Bytes, NEW raw \in Raw
  PROVE  Message(raw) = Nothing
<1>1. CASE Len(raw) < 2
  BY <1>1 DEF Message
<1>2. CASE ~(Len(raw) < 2)
  <2> DEFINE status == clampMidiByte(raw[1])
  <2>1. raw \in Seq(0 .. 255)
    BY DEF Bytes
  <2>2. raw[1] \in 0 .. 255
    <3> DEFINE Byte == 0 .. 255
    <3>1. raw \in Seq(Byte)
      BY <2>1
    <3> HIDE DEF Byte
    <3>2. 1 \in 1 .. Len(raw)
      BY <1>2, <3>1
    <3>3. raw[1] \in Byte
      BY <3>1, <3>2
    <3> QED
      BY <3>3 DEF Byte
  <2>3. status \in 0 .. 127
    BY <2>2, Clamped
  <2> HIDE DEF status
  <2>4. status \div 16 \in 0 .. 7
    BY <2>3
  <2>5. \A channel, data1, data2 : Decoded(status \div 16, channel, data1, data2) = Nothing
    BY <2>4 DEF Decoded
  <2> QED
    BY <1>2, <2>5 DEF Message, status
<1> QED
  BY <1>1, <1>2

-----------------------------------------------------------------------------
(***************************************************************************)
(* The steps                                                               *)
(***************************************************************************)

LEMMA InitEstablishes == Init => IInv
BY DEF Init, IInv, TypeInv, PendingIsUnread, Silence

\* A step that leaves alone what was read and heard, and no queue but in type.
LEMMA QuietStep ==
  ASSUME IInv, pending' = pending, read' = read, heard' = heard,
         queue' \in [Inputs -> Seq(Raw)]
  PROVE  IInv'
BY DEF IInv, TypeInv, PendingIsUnread, Silence

LEMMA EmptyQueues == [i \in Inputs |-> <<>>] \in [Inputs -> Seq(Raw)]
OBVIOUS

LEMMA ReadStep ==
  ASSUME IInv, NEW i \in Inputs, Read(i)
  PROVE  IInv'
<1> DEFINE m == [input |-> i, raw |-> Head(queue[i])]
<1>1. /\ pending' = Append(pending, m) /\ read' = Append(read, m) /\ heard' = heard
      /\ queue' = [queue EXCEPT ![i] = Tail(@)] /\ queue[i] # <<>>
  BY DEF Read
<1>2. queue[i] \in Seq(Raw) /\ pending \in Seq(Received) /\ read \in Seq(Received)
  BY DEF IInv, TypeInv
<1>3. Head(queue[i]) \in Raw /\ Tail(queue[i]) \in Seq(Raw)
  BY <1>1, <1>2
<1>4. m \in Received
  BY <1>3 DEF Received
<1> HIDE DEF m
<1>5. TypeInv'
  BY <1>1, <1>2, <1>3, <1>4 DEF IInv, TypeInv
<1>6. PendingIsUnread'
  <2>1. /\ Len(pending') = Len(pending) + 1 /\ Len(read') = Len(read) + 1
        /\ Len(pending) \in Nat /\ Len(read) \in Nat /\ Len(pending) <= Len(read)
    BY <1>1, <1>2, <1>4 DEF IInv, PendingIsUnread
  <2>2. ASSUME NEW n \in 1 .. Len(pending')
        PROVE  pending'[n] = read'[Len(read') - Len(pending') + n]
    <3>1. CASE n = Len(pending) + 1
      BY <1>1, <1>2, <1>4, <2>1, <3>1
    <3>2. CASE n \in 1 .. Len(pending)
      <4>1. pending[n] = read[Len(read) - Len(pending) + n]
        BY <3>2 DEF IInv, PendingIsUnread
      <4>2. Len(read) - Len(pending) + n \in 1 .. Len(read)
        BY <2>1, <3>2
      <4> QED
        BY <1>1, <1>2, <1>4, <2>1, <3>2, <4>1, <4>2
    <3> QED
      BY <2>1, <2>2, <3>1, <3>2
  <2> QED
    BY <2>1, <2>2 DEF PendingIsUnread
<1> QED
  BY <1>1, <1>5, <1>6 DEF IInv, Silence

LEMMA DispatchStep ==
  ASSUME Bytes, IInv, Dispatch
  PROVE  IInv'
<1>1. pending \in Seq(Received) /\ pending # <<>> /\ read \in Seq(Received)
  BY DEF Dispatch, IInv, TypeInv
<1>2. Head(pending) \in Received /\ Tail(pending) \in Seq(Received)
  BY <1>1
<1>3. Message(Head(pending).raw) = Nothing
  BY <1>2, NothingDecoded DEF Received
<1>4. heard' = heard /\ pending' = Tail(pending) /\ queue' = queue /\ read' = read
  BY <1>3 DEF Dispatch, Hear
<1>5. PendingIsUnread'
  BY <1>1, <1>4 DEF IInv, PendingIsUnread
<1> QED
  BY <1>2, <1>4, <1>5 DEF IInv, TypeInv, Silence

LEMMA PlayStep ==
  ASSUME IInv, NEW i \in Inputs, NEW raw \in Raw, Play(i, raw)
  PROVE  IInv'
<1>1. queue[i] \in Seq(Raw)
  BY DEF IInv, TypeInv
<1>2. Append(queue[i], raw) \in Seq(Raw)
  BY <1>1
<1>3. queue' \in [Inputs -> Seq(Raw)]
  BY <1>2 DEF Play, IInv, TypeInv
<1> QED
  BY <1>3, QuietStep DEF Play

LEMMA NextPreserves == Bytes /\ IInv /\ [Next]_vars => IInv'
<1> SUFFICES ASSUME Bytes, IInv, [Next]_vars PROVE IInv'
  OBVIOUS
<1>1. queue \in [Inputs -> Seq(Raw)]
  BY DEF IInv, TypeInv
<1>2. CASE SkipRefresh \/ DrainEnd \/ Sleep \/ Stop
  BY <1>1, <1>2, QuietStep DEF SkipRefresh, DrainEnd, Sleep, Stop
<1>3. CASE Refresh
  BY <1>1, <1>3, QuietStep, EmptyQueues DEF Refresh
<1>4. CASE CloseInputs
  BY <1>4, QuietStep, EmptyQueues DEF CloseInputs
<1>5. CASE Dispatch
  BY <1>5, DispatchStep
<1>6. ASSUME NEW i \in Inputs, Read(i) PROVE IInv'
  BY <1>6, ReadStep
<1>7. ASSUME NEW i \in Inputs, Plug(i) PROVE IInv'
  BY <1>1, <1>7, QuietStep DEF Plug
<1>8. ASSUME NEW i \in Inputs, NEW raw \in Raw, Play(i, raw) PROVE IInv'
  BY <1>8, PlayStep
<1>9. CASE UNCHANGED vars
  BY <1>1, <1>9, QuietStep DEF vars
<1> QED
  BY <1>2, <1>3, <1>4, <1>5, <1>6, <1>7, <1>8, <1>9 DEF Next, WorkerStep

-----------------------------------------------------------------------------
(***************************************************************************)
(* Theorems                                                                *)
(***************************************************************************)

\* The inductive invariant holds in every state of the worker.
THEOREM Inductive ==
  ASSUME Bytes
  PROVE  Spec => []IInv
<1>1. IInv /\ [Next]_vars => IInv'
  BY NextPreserves
<1> QED
  BY <1>1, InitEstablishes, PTL DEF Spec

\* The worker loses and reorders nothing between reading a message and decoding it:
\* what is pending is the end of what was read, across hot-plugs and stop().
THEOREM NothingLostBeforeDecoding ==
  ASSUME Bytes
  PROVE  Spec => []PendingIsUnread
<1>1. IInv => PendingIsUnread
  BY DEF IInv
<1> QED
  BY <1>1, Inductive, PTL

\* In the RtMidi build no message reaches AppController, whatever the controllers send:
\* dispatchRawMessage() clamps the status byte to 127 before it takes the command from
\* it, and no command is left.
THEOREM NothingIsHeard ==
  ASSUME Bytes
  PROVE  Spec => []Silence
<1>1. IInv => Silence
  BY DEF IInv
<1> QED
  BY <1>1, Inductive, PTL
=============================================================================
