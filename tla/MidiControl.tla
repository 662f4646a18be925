---------------------------- MODULE MidiControl -----------------------------
(***************************************************************************)
(* MIDI mapping in AppController (src/app/app_controller.cpp): what        *)
(* onMidiMessage() does with the messages the MIDI worker hands it, the    *)
(* HTTP handlers /api/midi/..., and the store both write to                *)
(* (src/db/database.cpp).  A section under midiMutex_ is one action, and   *)
(* so is a call of the store; nothing is held between the two.             *)
(*                                                                         *)
(* Messages are taken as decoded; how the worker reads and decodes them is *)
(* MidiDispatch.  A control is a fixture channel, which the web interface  *)
(* moves too.                                                              *)
(***************************************************************************)
EXTENDS Integers, FiniteSets

CONSTANTS
  Controls,     \* ids of controls that can be mapped
  NoControl,    \* the empty control id: nothing is being learned
  Nothing,      \* no mapping, no value
  Inputs,       \* MIDI inputs
  All,          \* input mode "all", and the source of mappings learned in it
  Notes,        \* type, channel and number of a message
  Values,       \* values of a control
  Requesters,   \* HTTP connection threads
  MaxMessages,  \* bound on MIDI messages
  MaxRequests,  \* bound on requests
  MaxFaults     \* bound on failing statements and restarts

Modes == Inputs \cup {All}
Mapping == [input : Modes, note : Notes]
Message == [input : Inputs, note : Notes, value : Values]

VARIABLES
  mode,      \* under midiMutex_: midiInputMode_
  learning,  \* under midiMutex_: midiLearningControlId_
  mappings,  \* under midiMutex_: midiMappings_
  applied,   \* under midiMutex_: midiLastAppliedValues_
  stored,    \* the store: midi_mappings, app_settings
  level,     \* value of each control
  pc,        \* where the MIDI worker is in onMidiMessage()
  loc,       \* its locals
  job,       \* what each HTTP thread still has to do in memory
  spent,     \* environment: messages, requests and faults so far
  raced,     \* history: what memory and store may disagree about
  asked,     \* history: value the last message for each control asked for
  moved      \* history: controls moved otherwise, or not at all, since

memory == <<mode, learning, mappings, applied>>
vars == <<mode, learning, mappings, applied, stored, level, pc, loc, job, spent, raced, asked,
          moved>>

Idle == [what |-> "idle", arg |-> NoControl]

NoLoc == [control |-> NoControl, mapping |-> Nothing, todo |-> {}, value |-> Nothing]

Goto(from, to) == pc = from /\ pc' = to

Faulty == /\ spent.faults < MaxFaults
          /\ spent' = [spent EXCEPT !.faults = @ + 1]

-----------------------------------------------------------------------------
(***************************************************************************)
(* onMidiMessage()                                                         *)
(***************************************************************************)

Matches(mapping, m) ==
  mapping # Nothing /\ mapping.note = m.note /\ mapping.input \in {All, m.input}

Receive(m) ==
  /\ pc = "idle"
  /\ spent.messages < MaxMessages
  /\ spent' = [spent EXCEPT !.messages = @ + 1]
  /\ mode \in {All, m.input}

\* A control is being learned: the message becomes its mapping.  The control and
\* the mode are remembered while the mutex is released.
ReceiveLearning(m) ==
  /\ Receive(m)
  /\ learning # NoControl
  /\ pc' = "store"
  /\ loc' = [NoLoc EXCEPT !.control = learning,
                          !.mapping = [input |-> mode, note |-> m.note]]
  /\ raced' = IF \E r \in Requesters : job[r] = [what |-> "clear", arg |-> learning]
              THEN raced \cup {learning} ELSE raced
  /\ UNCHANGED <<memory, stored, level, job, asked, moved>>

\* Otherwise the mappings are copied, and those that match carried out.
ReceiveMapped(m) ==
  /\ Receive(m)
  /\ learning = NoControl
  /\ pc' = "apply"
  /\ loc' = [NoLoc EXCEPT !.todo = {c \in Controls : Matches(mappings[c], m)},
                          !.value = m.value]
  /\ UNCHANGED <<memory, stored, level, job, raced, asked, moved>>

Store == [stored EXCEPT !.mappings[loc.control] = loc.mapping]

StoreMapping ==
  /\ Goto("store", "commit")
  /\ stored' = Store
  /\ UNCHANGED <<memory, level, loc, job, spent, raced, asked, moved>>

\* Mutant: the mapping is used though it was not saved.
StoreMappingFailsSilently ==
  /\ Goto("store", "commit")
  /\ Faulty
  /\ UNCHANGED <<memory, stored, level, loc, job, raced, asked, moved>>

StoreMappingFails ==
  /\ Goto("store", "idle")
  /\ Faulty
  /\ loc' = NoLoc
  /\ UNCHANGED <<memory, stored, level, job, raced, asked, moved>>

\* Mutant: the last value that was applied by the old mapping is kept.
CommitMappingKeepsValue ==
  /\ Goto("commit", "idle")
  /\ mappings' = [mappings EXCEPT ![loc.control] = loc.mapping]
  /\ learning' = NoControl
  /\ asked' = [asked EXCEPT ![loc.control] = Nothing]
  /\ moved' = moved \ {loc.control}
  /\ loc' = NoLoc
  /\ UNCHANGED <<mode, applied, stored, level, job, spent, raced>>

\* Learning ends, whatever is being learned by now.
CommitMapping ==
  /\ Goto("commit", "idle")
  /\ mappings' = [mappings EXCEPT ![loc.control] = loc.mapping]
  /\ learning' = NoControl
  /\ applied' = [applied EXCEPT ![loc.control] = Nothing]
  /\ asked' = [asked EXCEPT ![loc.control] = Nothing]
  /\ moved' = moved \ {loc.control}
  /\ loc' = NoLoc
  /\ UNCHANGED <<mode, stored, level, job, spent, raced>>

\* A value that was the last to be applied to the control is not applied again.
SkipRepeated(c) ==
  /\ pc = "apply" /\ c \in loc.todo
  /\ applied[c] = loc.value
  /\ loc' = [loc EXCEPT !.todo = @ \ {c}]
  /\ asked' = [asked EXCEPT ![c] = loc.value]
  /\ UNCHANGED <<memory, stored, level, pc, job, spent, raced, moved>>

\* The value is noted before it is applied.
NoteValue(c) ==
  /\ c \in loc.todo
  /\ applied[c] # loc.value
  /\ Goto("apply", "move")
  /\ applied' = [applied EXCEPT ![c] = loc.value]
  /\ loc' = [loc EXCEPT !.todo = @ \ {c}, !.control = c]
  /\ UNCHANGED <<mode, learning, mappings, stored, level, job, spent, raced, asked, moved>>

\* applyMidiControl().
MoveControl ==
  /\ Goto("move", "apply")
  /\ level' = [level EXCEPT ![loc.control] = loc.value]
  /\ asked' = [asked EXCEPT ![loc.control] = loc.value]
  /\ moved' = moved \ {loc.control}
  /\ UNCHANGED <<memory, stored, loc, job, spent, raced>>

MoveControlFails ==
  /\ Goto("move", "apply")
  /\ Faulty
  /\ asked' = [asked EXCEPT ![loc.control] = loc.value]
  /\ moved' = moved \cup {loc.control}
  /\ UNCHANGED <<memory, stored, level, loc, job, raced>>

MessageDone ==
  /\ loc.todo = {}
  /\ Goto("apply", "idle")
  /\ loc' = NoLoc
  /\ UNCHANGED <<memory, stored, level, job, spent, raced, asked, moved>>

WorkerStep ==
  \/ StoreMapping \/ StoreMappingFails \/ CommitMapping
  \/ \E c \in Controls : SkipRepeated(c) \/ NoteValue(c)
  \/ MoveControl \/ MoveControlFails \/ MessageDone

-----------------------------------------------------------------------------
(***************************************************************************)
(* The HTTP handlers                                                       *)
(***************************************************************************)

Request(r) == /\ job[r] = Idle
              /\ spent.requests < MaxRequests
              /\ spent' = [spent EXCEPT !.requests = @ + 1]

LearnStart(r, c) ==
  /\ Request(r)
  /\ learning' = c
  /\ UNCHANGED <<mode, mappings, applied, stored, level, pc, loc, job, raced, asked, moved>>

LearnCancel(r) ==
  /\ Request(r)
  /\ learning' = NoControl
  /\ UNCHANGED <<mode, mappings, applied, stored, level, pc, loc, job, raced, asked, moved>>

\* POST /api/midi/input-mode: the setting, then midiInputMode_.
StoreMode(r, m) ==
  /\ Request(r)
  /\ stored' = [stored EXCEPT !.mode = m]
  /\ job' = [job EXCEPT ![r] = [what |-> "mode", arg |-> m]]
  /\ raced' = IF \E q \in Requesters : job[q].what = "mode" THEN raced \cup {"mode"} ELSE raced
  /\ UNCHANGED <<memory, level, pc, loc, asked, moved>>

\* Mutant: the mode is taken from a request that was already given up.
SetModeLate(r) ==
  /\ job[r].what = "mode"
  /\ job' = [job EXCEPT ![r] = Idle]
  /\ mode' = job'[r].arg
  /\ UNCHANGED <<learning, mappings, applied, stored, level, pc, loc, spent, raced, asked,
                 moved>>

SetMode(r) ==
  /\ job[r].what = "mode"
  /\ mode' = job[r].arg
  /\ job' = [job EXCEPT ![r] = Idle]
  /\ UNCHANGED <<learning, mappings, applied, stored, level, pc, loc, spent, raced, asked,
                 moved>>

\* POST /api/midi/mappings/clear: the store, then memory.
DeleteMapping(r, c) ==
  /\ Request(r)
  /\ stored' = [stored EXCEPT !.mappings[c] = Nothing]
  /\ job' = [job EXCEPT ![r] = [what |-> "clear", arg |-> c]]
  /\ raced' = IF pc \in {"store", "commit"} /\ loc.control = c THEN raced \cup {c} ELSE raced
  /\ UNCHANGED <<memory, level, pc, loc, asked, moved>>

EraseMapping(r) ==
  LET c == job[r].arg
  IN  /\ job[r].what = "clear"
      /\ mappings' = [mappings EXCEPT ![c] = Nothing]
      /\ applied' = [applied EXCEPT ![c] = Nothing]
      /\ learning' = IF learning = c THEN NoControl ELSE learning
      /\ asked' = [asked EXCEPT ![c] = Nothing]
      /\ job' = [job EXCEPT ![r] = Idle]
      /\ UNCHANGED <<mode, stored, level, pc, loc, spent, raced, moved>>

\* The web interface moves a control.
SetLevel(r, c, v) ==
  /\ Request(r)
  /\ level' = [level EXCEPT ![c] = v]
  /\ moved' = moved \cup {c}
  /\ UNCHANGED <<memory, stored, pc, loc, job, raced, asked>>

HttpStep(r) ==
  \/ LearnCancel(r) \/ SetMode(r) \/ EraseMapping(r)
  \/ \E m \in Modes : StoreMode(r, m)
  \/ \E c \in Controls :
       LearnStart(r, c) \/ DeleteMapping(r, c) \/ \E v \in Values : SetLevel(r, c, v)

-----------------------------------------------------------------------------
(***************************************************************************)
(* The process ends at any point and starts again: initialize() and        *)
(* refreshMidiMappingsFromDatabase()                                       *)
(***************************************************************************)

Nowhere == [c \in Controls |-> Nothing]

\* Mutant: the input mode is not loaded.
RestartInDefaultMode ==
  /\ Faulty
  /\ pc' = "idle" /\ loc' = NoLoc
  /\ job' = [r \in Requesters |-> Idle]
  /\ mode' = All
  /\ learning' = NoControl
  /\ mappings' = stored.mappings
  /\ applied' = Nowhere
  /\ raced' = {}
  /\ asked' = Nowhere /\ moved' = {}
  /\ UNCHANGED <<stored, level>>

Restart ==
  /\ Faulty
  /\ pc' = "idle" /\ loc' = NoLoc
  /\ job' = [r \in Requesters |-> Idle]
  /\ mode' = stored.mode
  /\ learning' = NoControl
  /\ mappings' = stored.mappings
  /\ applied' = Nowhere
  /\ raced' = {}
  /\ asked' = Nowhere /\ moved' = {}
  /\ UNCHANGED <<stored, level>>

Init ==
  /\ mode = All
  /\ learning = NoControl
  /\ mappings = Nowhere
  /\ applied = Nowhere
  /\ stored = [mode |-> All, mappings |-> Nowhere]
  /\ level \in [Controls -> Values]
  /\ pc = "idle"
  /\ loc = NoLoc
  /\ job = [r \in Requesters |-> Idle]
  /\ spent = [messages |-> 0, requests |-> 0, faults |-> 0]
  /\ raced = {}
  /\ asked = Nowhere
  /\ moved = {}

\* Nothing to do: the threads wait for messages and requests.
Waiting == pc = "idle" /\ (\A r \in Requesters : job[r] = Idle) /\ UNCHANGED vars

Next ==
  \/ \E m \in Message : ReceiveLearning(m) \/ ReceiveMapped(m)
  \/ WorkerStep
  \/ \E r \in Requesters : HttpStep(r)
  \/ Restart
  \/ Waiting

Spec == Init /\ [][Next]_vars

-----------------------------------------------------------------------------
(***************************************************************************)
(* Properties                                                              *)
(***************************************************************************)

TypeOK ==
  /\ mode \in Modes
  /\ learning \in Controls \cup {NoControl}
  /\ mappings \in [Controls -> Mapping \cup {Nothing}]
  /\ applied \in [Controls -> Values \cup {Nothing}]
  /\ stored \in [mode : Modes, mappings : [Controls -> Mapping \cup {Nothing}]]
  /\ level \in [Controls -> Values]
  /\ pc \in {"idle", "store", "commit", "apply", "move"}
  /\ loc \in [control : Controls \cup {NoControl}, mapping : Mapping \cup {Nothing},
              todo : SUBSET Controls, value : Values \cup {Nothing}]
  /\ \A r \in Requesters :
       job[r] = Idle \/ job[r] \in [what : {"mode"}, arg : Modes]
                     \/ job[r] \in [what : {"clear"}, arg : Controls]
  /\ raced \subseteq Controls \cup {"mode"}
  /\ asked \in [Controls -> Values \cup {Nothing}]
  /\ moved \subseteq Controls

\* Between requests and messages a restart brings back what is in force: the
\* mappings and the input mode in memory are those of the store, through failed
\* statements, cancelled and repeated learning and earlier restarts.  Excepted is
\* a control that was cleared while a message was being stored as its mapping,
\* and the mode when two requests changed it at once.
RestartKeepsMidi ==
  /\ \A c \in Controls \ raced :
       /\ ~(pc \in {"store", "commit"} /\ loc.control = c)
       /\ \A r \in Requesters : job[r] # [what |-> "clear", arg |-> c]
       => mappings[c] = stored.mappings[c]
  /\ "mode" \notin raced /\ (\A r \in Requesters : job[r].what # "mode")
       => mode = stored.mode

\* Once a message is dealt with, the controls mapped to it are where it put them,
\* though repeated values are not applied again: that is so unless the web
\* interface moved the control since MIDI last did, or the store refused.  A
\* mapping that was learned anew starts afresh.
MessageMovesControls ==
  pc = "idle" =>
    \A c \in Controls \ moved : asked[c] \in {Nothing, level[c]}
=============================================================================
