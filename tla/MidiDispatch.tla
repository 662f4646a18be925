---------------------------- MODULE MidiDispatch ----------------------------
(***************************************************************************)
(* MidiEngine (src/midi/midi_engine.cpp) as built with RtMidi: the worker  *)
(* opens the inputs it finds, reads what they received, and decodes each   *)
(* message for the callback of AppController.                              *)
(*                                                                         *)
(* The queue an open input keeps is RtMidi's.  Bytes are the numbers the   *)
(* controller sends; names of inputs are their ids.                        *)
(***************************************************************************)
EXTENDS Integers, Sequences

CONSTANTS
  Inputs,     \* MIDI inputs of the machine
  Raw,        \* messages that controllers send: sequences of bytes 0 .. 255
  MaxPlayed,  \* bound on the messages sent, a natural number
  MaxPlugs    \* bound on the changes of the inputs, a natural number

VARIABLES
  plugged, \* environment: inputs that are there
  running, \* running_
  pc,      \* where loop() is
  ports,   \* ports_ and impl_->handles: inputs that are open
  queue,   \* what each open input has received and nobody has read
  pending, \* messages read and not yet dispatched
  heard,   \* messages given to the callback
  read,    \* history: messages read from the inputs
  spent    \* environment: messages sent and changes of the inputs

vars == <<plugged, running, pc, ports, queue, pending, heard, read, spent>>

-----------------------------------------------------------------------------
(***************************************************************************)
(* dispatchRawMessage()                                                    *)
(***************************************************************************)

Clamp(b, low, high) == IF b < low THEN low ELSE IF b > high THEN high ELSE b

clampMidiByte(b) == Clamp(b, 0, 127)

Nothing == [type |-> "nothing"]

\* The command is the high half of the status byte: 8 and 9 are the ends and
\* starts of notes, 11 is a control change.
Decoded(command, channel, data1, data2) ==
  CASE command = 11 -> [type |-> "cc", channel |-> channel, number |-> data1,
                        value |-> data2, on |-> data2 >= 64]
    [] command = 9  -> [type |-> "note", channel |-> channel, number |-> data1,
                        value |-> data2, on |-> data2 > 0]
    [] command = 8  -> [type |-> "note", channel |-> channel, number |-> data1,
                        value |-> 0, on |-> FALSE]
    [] OTHER -> Nothing

\* All three bytes are clamped, the status byte too, before they are taken apart.
Message(raw) ==
  LET status == clampMidiByte(raw[1])
      data1  == clampMidiByte(raw[2])
      data2  == IF Len(raw) >= 3 THEN clampMidiByte(raw[3]) ELSE 0
  IN  IF Len(raw) < 2 THEN Nothing
      ELSE Decoded(status \div 16, (status % 16) + 1, data1, data2)

-----------------------------------------------------------------------------
(***************************************************************************)
(* The worker                                                              *)
(***************************************************************************)

Loop(from, to) == pc = from /\ pc' = to

\* The inputs are looked at every 1200 ms at most.
SkipRefresh ==
  /\ Loop("refresh", "drain")
  /\ UNCHANGED <<plugged, running, ports, queue, pending, heard, read, spent>>

\* When they have changed all are opened again, those that can be, and what the
\* old handles had received is gone.
Refresh ==
  /\ Loop("refresh", "drain")
  /\ \/ ports = plugged /\ UNCHANGED <<ports, queue>>
     \/ ports # plugged /\ ports' \in SUBSET plugged /\ queue' = [i \in Inputs |-> <<>>]
  /\ UNCHANGED <<plugged, running, pending, heard, read, spent>>

\* One message of one input, under stateMutex_; stop() ends the reading.
Read(i) ==
  /\ Loop("drain", "drain") /\ running
  /\ i \in ports /\ queue[i] # <<>>
  /\ LET m == [input |-> i, raw |-> Head(queue[i])]
     IN  pending' = Append(pending, m) /\ read' = Append(read, m)
  /\ queue' = [queue EXCEPT ![i] = Tail(@)]
  /\ UNCHANGED <<plugged, running, ports, heard, spent>>

DrainEnd ==
  /\ Loop("drain", "dispatch")
  /\ running => \A i \in ports : queue[i] = <<>>
  /\ UNCHANGED <<plugged, running, ports, queue, pending, heard, read, spent>>

Hear(m, heardBefore) ==
  IF m.message = Nothing THEN heardBefore ELSE Append(heardBefore, m)

\* What was read is dispatched even when stop() has cleared running_.
Dispatch ==
  /\ pc = "dispatch" /\ pending # <<>>
  /\ heard' = Hear([input |-> Head(pending).input, message |-> Message(Head(pending).raw)], heard)
  /\ pending' = Tail(pending)
  /\ UNCHANGED <<plugged, running, pc, ports, queue, read, spent>>

Sleep ==
  /\ pc = "dispatch" /\ pending = <<>>
  /\ pc' = IF running THEN "refresh" ELSE "joined"
  /\ UNCHANGED <<plugged, running, ports, queue, pending, heard, read, spent>>

\* stop() from main, and the handles it closes after the join.
Stop ==
  /\ running
  /\ running' = FALSE
  /\ UNCHANGED <<plugged, pc, ports, queue, pending, heard, read, spent>>

CloseInputs ==
  /\ pc = "joined" /\ ports # {}
  /\ ports' = {}
  /\ queue' = [i \in Inputs |-> <<>>]
  /\ UNCHANGED <<plugged, running, pc, pending, heard, read, spent>>

-----------------------------------------------------------------------------
(***************************************************************************)
(* The environment                                                         *)
(***************************************************************************)

Play(i, raw) ==
  /\ i \in plugged /\ spent.played < MaxPlayed
  /\ spent' = [spent EXCEPT !.played = @ + 1]
  /\ queue' = IF i \in ports THEN [queue EXCEPT ![i] = Append(@, raw)] ELSE queue
  /\ UNCHANGED <<plugged, running, pc, ports, pending, heard, read>>

Plug(i) ==
  /\ spent.plugs < MaxPlugs
  /\ spent' = [spent EXCEPT !.plugs = @ + 1]
  /\ plugged' = IF i \in plugged THEN plugged \ {i} ELSE plugged \cup {i}
  /\ UNCHANGED <<running, pc, ports, queue, pending, heard, read>>

Init ==
  /\ plugged \in SUBSET Inputs
  /\ running = TRUE
  /\ pc = "refresh"
  /\ ports = {}
  /\ queue = [i \in Inputs |-> <<>>]
  /\ pending = <<>> /\ heard = <<>> /\ read = <<>>
  /\ spent = [played |-> 0, plugs |-> 0]

WorkerStep ==
  \/ SkipRefresh \/ Refresh \/ DrainEnd \/ Dispatch \/ Sleep
  \/ \E i \in Inputs : Read(i)

Next ==
  \/ WorkerStep \/ Stop \/ CloseInputs
  \/ \E i \in Inputs : Plug(i) \/ \E raw \in Raw : Play(i, raw)

Spec == Init /\ [][Next]_vars

-----------------------------------------------------------------------------
(***************************************************************************)
(* Properties                                                              *)
(***************************************************************************)

\* What the status byte of a message means: its high half is the command.
Meaning(raw) == Decoded(raw[1] \div 16, (raw[1] % 16) + 1, raw[2], raw[3])

\* Every note and control change read from an input reaches AppController, in the
\* order in which they were read, by the time the worker sleeps ("MIDI mapping is
\* handled in the server").
MessagesAreHeard ==
  (pc = "dispatch" /\ pending = <<>>) =>
    heard = SelectSeq([n \in DOMAIN read |->
                         [input |-> read[n].input, message |-> Meaning(read[n].raw)]],
                      LAMBDA m : m.message # Nothing)
=============================================================================
