-------------------------- MODULE MidiControl_proofs --------------------------
(***************************************************************************)
(* Theorems about MidiControl, for any number of controls, inputs, notes,  *)
(* values and HTTP threads.                                                *)
(*                                                                         *)
(* A mapping and the input mode are written to the store and to memory in  *)
(* two sections with nothing held between them, so the invariant says for  *)
(* every control what is still on its way, and for every control MIDI is   *)
(* in charge of where its last applied value has to be.                    *)
(***************************************************************************)
EXTENDS MidiControl, TLAPS

-----------------------------------------------------------------------------
(***************************************************************************)
(* The inductive invariant                                                 *)
(***************************************************************************)

Jobs == {Idle} \cup [what : {"mode"}, arg : Modes] \cup [what : {"clear"}, arg : Controls]

Locals == [control : Controls \cup {NoControl}, mapping : Mapping \cup {Nothing},
           todo : SUBSET Controls, value : Values \cup {Nothing}]

\* What the worker has of a message, where it is with it.
WorkerInv ==
  /\ pc \in {"idle", "store", "commit", "apply", "move"}
  /\ loc \in Locals
  /\ pc \in {"store", "commit", "move"} => loc.control \in Controls
  /\ pc \in {"store", "commit"} => loc.mapping \in Mapping
  /\ pc \in {"apply", "move"} => loc.value \in Values

TypeInv ==
  /\ mode \in Modes
  /\ learning \in Controls \cup {NoControl}
  /\ mappings \in [Controls -> Mapping \cup {Nothing}]
  /\ applied \in [Controls -> Values \cup {Nothing}]
  /\ stored \in [mode : Modes, mappings : [Controls -> Mapping \cup {Nothing}]]
  /\ level \in [Controls -> Values]
  /\ job \in [Requesters -> Jobs]
  /\ raced \subseteq Controls \cup {"mode"}
  /\ asked \in [Controls -> Values \cup {Nothing}]
  /\ moved \subseteq Controls

Learned(c) == pc \in {"store", "commit"} /\ loc.control = c
Saved(c) == pc = "commit" /\ loc.control = c
Clearing(c) == \E r \in Requesters : job[r] = [what |-> "clear", arg |-> c]

\* What is on its way from the store to memory is the new mapping, or none.
MappingsInv ==
  \A c \in Controls \ raced :
    /\ ~(Learned(c) /\ Clearing(c))
    /\ Clearing(c) => stored.mappings[c] = Nothing
    /\ Saved(c) => stored.mappings[c] = loc.mapping
    /\ ~Clearing(c) /\ ~Saved(c) => mappings[c] = stored.mappings[c]

\* One request at a time changes the mode, and it is the one in the store.
ModeInv ==
  "mode" \notin raced =>
    /\ \A r \in Requesters : job[r].what = "mode" =>
         /\ stored.mode = job[r].arg
         /\ \A q \in Requesters : job[q].what = "mode" => q = r
    /\ (\A r \in Requesters : job[r].what # "mode") => mode = stored.mode

\* The last applied value is where the control is, unless it is being moved there.
ValuesInv ==
  /\ pc = "move" => applied[loc.control] \in {Nothing, loc.value}
  /\ \A c \in Controls \ moved :
       /\ asked[c] \in {Nothing, level[c]}
       /\ ~(pc = "move" /\ loc.control = c) => applied[c] \in {Nothing, level[c]}

IInv == WorkerInv /\ TypeInv /\ MappingsInv /\ ModeInv /\ ValuesInv

-----------------------------------------------------------------------------
(***************************************************************************)
(* The steps, one part of the invariant at a time                          *)
(***************************************************************************)

LEMMA InitEstablishes == Init => IInv
<1> SUFFICES ASSUME Init PROVE IInv
  OBVIOUS
<1> USE DEF Init, Nowhere
<1>1. WorkerInv
  BY DEF WorkerInv, Locals, NoLoc
<1>2. TypeInv
  BY DEF TypeInv, Jobs, Modes
<1>3. \A r \in Requesters : job[r] = Idle
  OBVIOUS
<1>4. MappingsInv
  BY <1>3 DEF MappingsInv, Clearing, Learned, Saved, Idle
<1>5. ModeInv
  BY <1>3 DEF ModeInv, Idle
<1>6. ValuesInv
  BY DEF ValuesInv
<1> QED
  BY <1>1, <1>2, <1>4, <1>5, <1>6 DEF IInv

LEMMA WorkerIsKept ==
  ASSUME WorkerInv, TypeInv, [Next]_vars
  PROVE  WorkerInv'
<1> USE DEF WorkerInv
<1>1. CASE UNCHANGED vars
  BY <1>1 DEF vars
<1>2. ASSUME NEW m \in Message, ReceiveLearning(m) PROVE WorkerInv'
  <2>1. m.note \in Notes /\ [input |-> mode, note |-> m.note] \in Mapping
    BY DEF Message, Mapping, TypeInv
  <2> QED
    BY <1>2, <2>1 DEF ReceiveLearning, TypeInv, Locals, NoLoc
<1>3. ASSUME NEW m \in Message, ReceiveMapped(m) PROVE WorkerInv'
  <2>1. m.value \in Values
    BY DEF Message
  <2> QED
    BY <1>3, <2>1 DEF ReceiveMapped, Locals, NoLoc
<1>4. CASE StoreMapping \/ StoreMappingFails \/ CommitMapping
  BY <1>4 DEF StoreMapping, StoreMappingFails, CommitMapping, Goto, Locals, NoLoc
<1>5. ASSUME NEW c \in Controls, SkipRepeated(c) \/ NoteValue(c) PROVE WorkerInv'
  BY <1>5 DEF SkipRepeated, NoteValue, Goto, Locals
<1>6. CASE MoveControl \/ MoveControlFails \/ MessageDone
  BY <1>6 DEF MoveControl, MoveControlFails, MessageDone, Goto, Locals, NoLoc
<1>7. ASSUME NEW r \in Requesters, HttpStep(r) PROVE WorkerInv'
  <2>1. pc' = pc /\ loc' = loc
    BY <1>7 DEF HttpStep, LearnCancel, SetMode, EraseMapping, StoreMode, LearnStart,
                DeleteMapping, SetLevel
  <2> QED
    BY <2>1
<1>8. CASE Restart
  BY <1>8 DEF Restart, Locals, NoLoc
<1> QED
  BY <1>1, <1>2, <1>3, <1>4, <1>5, <1>6, <1>7, <1>8 DEF Next, WorkerStep, Waiting

\* What a request has still to do.
LEMMA JobFacts ==
  ASSUME TypeInv, NEW r \in Requesters
  PROVE  /\ job[r].what = "mode" => job[r].arg \in Modes
         /\ job[r].what = "clear" => job[r].arg \in Controls
         /\ job[r].what = "clear" => job[r] = [what |-> "clear", arg |-> job[r].arg]
         /\ job[r].what \in {"idle", "mode", "clear"}
         /\ Idle \in Jobs /\ Idle.what = "idle"
BY DEF TypeInv, Jobs, Idle

LEMMA TypesAreKept ==
  ASSUME WorkerInv, TypeInv, [Next]_vars
  PROVE  TypeInv'
<1> USE DEF TypeInv
<1>1. CASE UNCHANGED vars
  BY <1>1 DEF vars
<1>2. ASSUME NEW m \in Message, ReceiveLearning(m) \/ ReceiveMapped(m) PROVE TypeInv'
  BY <1>2 DEF ReceiveLearning, ReceiveMapped, memory
<1>3. CASE StoreMapping \/ StoreMappingFails \/ CommitMapping
  <2>1. CASE StoreMapping
    BY <2>1 DEF StoreMapping, Store, Goto, WorkerInv, memory
  <2>2. CASE StoreMappingFails
    BY <2>2 DEF StoreMappingFails, memory
  <2>3. CASE CommitMapping
    BY <2>3 DEF CommitMapping, Goto, WorkerInv
  <2> QED
    BY <1>3, <2>1, <2>2, <2>3
<1>4. ASSUME NEW c \in Controls, SkipRepeated(c) \/ NoteValue(c) PROVE TypeInv'
  BY <1>4 DEF SkipRepeated, NoteValue, Goto, WorkerInv, memory
<1>5. CASE MoveControl \/ MoveControlFails \/ MessageDone
  BY <1>5 DEF MoveControl, MoveControlFails, MessageDone, Goto, WorkerInv, memory
<1>6. ASSUME NEW r \in Requesters, HttpStep(r) PROVE TypeInv'
  <2>1. CASE LearnCancel(r)
    BY <2>1 DEF LearnCancel
  <2>2. CASE SetMode(r)
    BY <2>2, JobFacts DEF SetMode
  <2>3. CASE EraseMapping(r)
    BY <2>3, JobFacts DEF EraseMapping
  <2>4. ASSUME NEW m \in Modes, StoreMode(r, m) PROVE TypeInv'
    <3>1. [what |-> "mode", arg |-> m] \in Jobs
      BY DEF Jobs
    <3> QED
      BY <2>4, <3>1 DEF StoreMode, memory
  <2>5. ASSUME NEW c \in Controls, LearnStart(r, c) PROVE TypeInv'
    BY <2>5 DEF LearnStart
  <2>6. ASSUME NEW c \in Controls, DeleteMapping(r, c) PROVE TypeInv'
    <3>1. [what |-> "clear", arg |-> c] \in Jobs
      BY DEF Jobs
    <3> QED
      BY <2>6, <3>1 DEF DeleteMapping, memory
  <2>7. ASSUME NEW c \in Controls, NEW v \in Values, SetLevel(r, c, v) PROVE TypeInv'
    BY <2>7 DEF SetLevel, memory
  <2> QED
    BY <1>6, <2>1, <2>2, <2>3, <2>4, <2>5, <2>6, <2>7 DEF HttpStep
<1>7. CASE Restart
  BY <1>7 DEF Restart, Nowhere, Jobs
<1> QED
  BY <1>1, <1>2, <1>3, <1>4, <1>5, <1>6, <1>7 DEF Next, WorkerStep, Waiting

\* A control that a step has nothing to do with.
OnItsWay(c) ==
  /\ Learned(c) /\ Clearing(c) => c \in raced
  /\ c \notin raced =>
       /\ Clearing(c) => stored.mappings[c] = Nothing
       /\ Saved(c) => stored.mappings[c] = loc.mapping
       /\ ~Clearing(c) /\ ~Saved(c) => mappings[c] = stored.mappings[c]

LEMMA OneByOne == MappingsInv <=> \A c \in Controls : OnItsWay(c)
BY DEF MappingsInv, OnItsWay

LEMMA MappingsFrame ==
  ASSUME NEW c \in Controls, OnItsWay(c), c \in raced => c \in raced',
         mappings'[c] = mappings[c], stored'.mappings[c] = stored.mappings[c],
         Learned(c)' <=> Learned(c), Saved(c)' <=> Saved(c), Clearing(c)' <=> Clearing(c),
         Saved(c) => loc'.mapping = loc.mapping
  PROVE  OnItsWay(c)'
BY DEF OnItsWay

\* Clearing looks at the jobs of the threads only.
LEMMA ClearingFrame ==
  ASSUME job' = job
  PROVE  \A c \in Controls : Clearing(c)' <=> Clearing(c)
BY DEF Clearing

LEMMA WorkerKeepsMappings ==
  ASSUME WorkerInv, TypeInv, MappingsInv, WorkerStep
  PROVE  MappingsInv'
<1> SUFFICES ASSUME NEW c \in Controls PROVE OnItsWay(c)'
  BY DEF MappingsInv, OnItsWay
<1>1. OnItsWay(c) /\ (job' = job => (Clearing(c)' <=> Clearing(c)))
  BY OneByOne, ClearingFrame
<1> USE DEF Learned, Saved, Goto
<1>2. CASE StoreMapping
  <2>1. /\ pc = "store" /\ pc' = "commit" /\ loc' = loc /\ job' = job /\ raced' = raced
        /\ mappings' = mappings /\ loc.control \in Controls
        /\ stored'.mappings = [stored.mappings EXCEPT ![loc.control] = loc.mapping]
    BY <1>2 DEF StoreMapping, Store, memory, WorkerInv, TypeInv
  <2>2. stored.mappings \in [Controls -> Mapping \cup {Nothing}]
    BY DEF TypeInv
  <2> QED
    BY <1>1, <2>1, <2>2 DEF OnItsWay
<1>3. CASE StoreMappingFails
  <2>1. /\ pc = "store" /\ pc' = "idle" /\ job' = job /\ raced' = raced
        /\ mappings' = mappings /\ stored' = stored
    BY <1>3 DEF StoreMappingFails, memory
  <2> QED
    BY <1>1, <2>1 DEF OnItsWay
<1>4. CASE CommitMapping
  <2>1. /\ pc = "commit" /\ pc' = "idle" /\ job' = job /\ raced' = raced
        /\ mappings' = [mappings EXCEPT ![loc.control] = loc.mapping] /\ stored' = stored
    BY <1>4 DEF CommitMapping
  <2>2. mappings \in [Controls -> Mapping \cup {Nothing}]
    BY DEF TypeInv
  <2> QED
    BY <1>1, <2>1, <2>2 DEF OnItsWay
<1>5. ASSUME NEW d \in Controls, SkipRepeated(d) \/ NoteValue(d) PROVE OnItsWay(c)'
  <2>1. /\ pc = "apply" /\ pc' \in {"apply", "move"} /\ job' = job /\ raced' = raced
        /\ mappings' = mappings /\ stored' = stored
    BY <1>5 DEF SkipRepeated, NoteValue, memory
  <2> QED
    BY <1>1, <2>1 DEF OnItsWay
<1>6. CASE MoveControl \/ MoveControlFails \/ MessageDone
  <2>1. /\ pc \in {"apply", "move"} /\ pc' \in {"idle", "apply"} /\ job' = job /\ raced' = raced
        /\ mappings' = mappings /\ stored' = stored
    BY <1>6 DEF MoveControl, MoveControlFails, MessageDone, memory
  <2> QED
    BY <1>1, <2>1 DEF OnItsWay
<1> QED
  BY <1>2, <1>3, <1>4, <1>5, <1>6 DEF WorkerStep

LEMMA MessageKeepsMappings ==
  ASSUME WorkerInv, TypeInv, MappingsInv, NEW m \in Message, ReceiveLearning(m) \/ ReceiveMapped(m)
  PROVE  MappingsInv'
<1> SUFFICES ASSUME NEW c \in Controls PROVE OnItsWay(c)'
  BY DEF MappingsInv, OnItsWay
<1>1. OnItsWay(c) /\ (job' = job => (Clearing(c)' <=> Clearing(c)))
  BY OneByOne, ClearingFrame
<1>2. CASE ReceiveLearning(m)
  <2>1. /\ pc = "idle" /\ pc' = "store" /\ job' = job /\ mappings' = mappings /\ stored' = stored
        /\ loc'.control = learning
        /\ raced' = IF Clearing(learning) THEN raced \cup {learning} ELSE raced
    BY <1>2 DEF ReceiveLearning, Receive, memory, Clearing, NoLoc
  <2> QED
    BY <1>1, <2>1 DEF OnItsWay, Learned, Saved
<1>3. CASE ReceiveMapped(m)
  <2>1. /\ pc = "idle" /\ pc' = "apply" /\ job' = job /\ mappings' = mappings
        /\ stored' = stored /\ raced' = raced
    BY <1>3 DEF ReceiveMapped, Receive, memory
  <2> QED
    BY <1>1, <2>1 DEF OnItsWay, Learned, Saved
<1> QED
  BY <1>2, <1>3

LEMMA RequestKeepsMappings ==
  ASSUME WorkerInv, TypeInv, MappingsInv, NEW r \in Requesters, HttpStep(r)
  PROVE  MappingsInv'
<1> SUFFICES ASSUME NEW c \in Controls PROVE OnItsWay(c)'
  BY DEF MappingsInv, OnItsWay
<1>1. OnItsWay(c) /\ job \in [Requesters -> Jobs]
  BY OneByOne DEF TypeInv
<1>2. pc' = pc /\ loc' = loc
  BY DEF HttpStep, LearnCancel, SetMode, EraseMapping, StoreMode, LearnStart, DeleteMapping,
         SetLevel
<1>3. (Learned(c)' <=> Learned(c)) /\ (Saved(c)' <=> Saved(c)) /\ (Saved(c) => Learned(c))
  BY <1>2 DEF Learned, Saved
<1>4. stored.mappings \in [Controls -> Mapping \cup {Nothing}]
  BY DEF TypeInv
<1>5. ASSUME mappings' = mappings, stored' = stored, raced' = raced, job' = job
      PROVE  OnItsWay(c)'
  BY <1>1, <1>2, <1>3, <1>5, ClearingFrame, MappingsFrame
<1>6. CASE SetMode(r)
  <2>1. /\ job[r].what = "mode" /\ job' = [job EXCEPT ![r] = Idle]
        /\ mappings' = mappings /\ stored' = stored /\ raced' = raced
    BY <1>6 DEF SetMode
  <2>2. Clearing(c)' <=> Clearing(c)
    BY <1>1, <2>1 DEF Clearing, Idle
  <2> QED
    BY <1>1, <1>2, <1>3, <2>1, <2>2, MappingsFrame
<1>7. ASSUME NEW m \in Modes, StoreMode(r, m) PROVE OnItsWay(c)'
  <2>1. /\ job[r] = Idle /\ job' = [job EXCEPT ![r] = [what |-> "mode", arg |-> m]]
        /\ mappings' = mappings /\ stored'.mappings = stored.mappings
        /\ \A x \in raced : x \in raced'
    BY <1>7 DEF StoreMode, Request, memory, TypeInv
  <2>2. Clearing(c)' <=> Clearing(c)
    BY <1>1, <2>1 DEF Clearing, Idle
  <2> QED
    BY <1>1, <1>2, <1>3, <2>1, <2>2, MappingsFrame
<1>8. ASSUME NEW d \in Controls, DeleteMapping(r, d) PROVE OnItsWay(c)'
  <2>1. /\ job[r] = Idle /\ job' = [job EXCEPT ![r] = [what |-> "clear", arg |-> d]]
        /\ mappings' = mappings
        /\ stored'.mappings = [stored.mappings EXCEPT ![d] = Nothing]
        /\ raced' = IF Learned(d) THEN raced \cup {d} ELSE raced
    BY <1>8 DEF DeleteMapping, Request, memory, TypeInv, Learned
  <2>2. CASE c = d
    <3>1. Clearing(c)'
      BY <1>1, <2>1, <2>2 DEF Clearing
    <3> QED
      BY <1>1, <1>2, <1>3, <1>4, <2>1, <2>2, <3>1 DEF OnItsWay
  <2>3. CASE c # d
    <3>1. Clearing(c)' <=> Clearing(c)
      BY <1>1, <2>1, <2>3 DEF Clearing, Idle
    <3>2. (c \in raced => c \in raced') /\ stored'.mappings[c] = stored.mappings[c]
      BY <1>4, <2>1, <2>3
    <3> QED
      BY <1>1, <1>2, <1>3, <2>1, <3>1, <3>2, MappingsFrame
  <2> QED
    BY <2>2, <2>3
<1>9. CASE EraseMapping(r)
  <2> DEFINE d == job[r].arg
  <2>1. /\ job[r].what = "clear" /\ job' = [job EXCEPT ![r] = Idle]
        /\ mappings' = [mappings EXCEPT ![d] = Nothing]
        /\ stored' = stored /\ raced' = raced
    BY <1>9 DEF EraseMapping
  <2>2. job[r] = [what |-> "clear", arg |-> d] /\ d \in Controls
    BY <2>1, JobFacts
  <2>3. mappings \in [Controls -> Mapping \cup {Nothing}]
    BY DEF TypeInv
  <2> HIDE DEF d
  <2>4. CASE c = d
    <3>1. Clearing(c) /\ mappings'[c] = Nothing
      BY <2>1, <2>2, <2>3, <2>4 DEF Clearing
    <3>2. Clearing(c)' => Clearing(c)
      BY <3>1
    <3> QED
      BY <1>1, <1>2, <1>3, <2>1, <3>1, <3>2 DEF OnItsWay
  <2>5. CASE c # d
    <3>1. Clearing(c)' <=> Clearing(c)
      BY <1>1, <2>1, <2>2, <2>5 DEF Clearing, Idle
    <3>2. mappings'[c] = mappings[c]
      BY <2>1, <2>3, <2>5
    <3> QED
      BY <1>1, <1>2, <1>3, <2>1, <3>1, <3>2, MappingsFrame
  <2> QED
    BY <2>4, <2>5
<1>10. ASSUME NEW d \in Controls, NEW v \in Values, SetLevel(r, d, v) PROVE OnItsWay(c)'
  BY <1>5, <1>10 DEF SetLevel, memory
<1>11. CASE LearnCancel(r)
  BY <1>5, <1>11 DEF LearnCancel
<1>12. ASSUME NEW d \in Controls, LearnStart(r, d) PROVE OnItsWay(c)'
  BY <1>5, <1>12 DEF LearnStart
<1> QED
  BY <1>6, <1>7, <1>8, <1>9, <1>10, <1>11, <1>12 DEF HttpStep

LEMMA MappingsAreKept ==
  ASSUME WorkerInv, TypeInv, MappingsInv, [Next]_vars
  PROVE  MappingsInv'
<1>1. CASE UNCHANGED vars
  BY <1>1 DEF vars, MappingsInv, Learned, Saved, Clearing
<1>2. ASSUME NEW m \in Message, ReceiveLearning(m) \/ ReceiveMapped(m) PROVE MappingsInv'
  BY <1>2, MessageKeepsMappings
<1>3. CASE WorkerStep
  BY <1>3, WorkerKeepsMappings
<1>4. ASSUME NEW r \in Requesters, HttpStep(r) PROVE MappingsInv'
  BY <1>4, RequestKeepsMappings
<1>5. CASE Restart
  <2>1. /\ pc' = "idle" /\ mappings' = stored.mappings /\ stored' = stored
        /\ \A r \in Requesters : job'[r] = Idle
    BY <1>5 DEF Restart
  <2> QED
    BY <2>1 DEF MappingsInv, Learned, Saved, Clearing, Idle
<1> QED
  BY <1>1, <1>2, <1>3, <1>4, <1>5 DEF Next, Waiting

LEMMA ModeIsKept ==
  ASSUME TypeInv, ModeInv, [Next]_vars
  PROVE  ModeInv'
<1>1. ASSUME mode' = mode, job' = job, stored'.mode = stored.mode, "mode" \in raced => "mode" \in raced'
      PROVE  ModeInv'
  BY <1>1 DEF ModeInv
<1>2. CASE UNCHANGED vars
  BY <1>1, <1>2 DEF vars
<1>3. ASSUME NEW m \in Message, ReceiveLearning(m) \/ ReceiveMapped(m) PROVE ModeInv'
  BY <1>1, <1>3 DEF ReceiveLearning, ReceiveMapped, memory
<1>4. CASE WorkerStep
  <2>1. mode' = mode /\ job' = job /\ raced' = raced
    BY <1>4 DEF WorkerStep, StoreMapping, StoreMappingFails, CommitMapping, SkipRepeated,
                NoteValue, MoveControl, MoveControlFails, MessageDone, memory
  <2>2. stored'.mode = stored.mode
    BY <1>4 DEF WorkerStep, StoreMapping, StoreMappingFails, CommitMapping, SkipRepeated,
                NoteValue, MoveControl, MoveControlFails, MessageDone, Store, TypeInv
  <2> QED
    BY <1>1, <2>1, <2>2
<1>5. ASSUME NEW r \in Requesters, HttpStep(r) PROVE ModeInv'
  <2>1. job \in [Requesters -> Jobs] /\ \A q \in Requesters : job[q].what \in {"idle", "mode", "clear"}
    BY JobFacts DEF TypeInv
  <2>2. CASE LearnCancel(r)
    BY <1>1, <2>2 DEF LearnCancel
  <2>3. ASSUME NEW c \in Controls, LearnStart(r, c) PROVE ModeInv'
    BY <1>1, <2>3 DEF LearnStart
  <2>4. ASSUME NEW c \in Controls, NEW v \in Values, SetLevel(r, c, v) PROVE ModeInv'
    BY <1>1, <2>4 DEF SetLevel, memory
  <2>5. CASE SetMode(r)
    <3>1. /\ job[r].what = "mode" /\ mode' = job[r].arg /\ job' = [job EXCEPT ![r] = Idle]
          /\ stored' = stored /\ raced' = raced
      BY <2>5 DEF SetMode
    <3>2. job'[r] = Idle /\ \A q \in Requesters \ {r} : job'[q] = job[q]
      BY <2>1, <3>1
    <3> QED
      BY <3>1, <3>2 DEF ModeInv, Idle
  <2>6. ASSUME NEW m \in Modes, StoreMode(r, m) PROVE ModeInv'
    <3>1. /\ stored'.mode = m /\ job' = [job EXCEPT ![r] = [what |-> "mode", arg |-> m]]
          /\ mode' = mode /\ job[r] = Idle
          /\ raced' = IF \E q \in Requesters : job[q].what = "mode" THEN raced \cup {"mode"}
                                                                    ELSE raced
      BY <2>6 DEF StoreMode, Request, memory, TypeInv
    <3>2. /\ job'[r].what = "mode" /\ job'[r].arg = m
          /\ \A q \in Requesters \ {r} : job'[q] = job[q]
      BY <2>1, <3>1
    <3> QED
      BY <3>1, <3>2 DEF ModeInv
  <2>7. ASSUME NEW c \in Controls, DeleteMapping(r, c) PROVE ModeInv'
    <3>1. /\ stored'.mode = stored.mode /\ job' = [job EXCEPT ![r] = [what |-> "clear", arg |-> c]]
          /\ mode' = mode /\ job[r] = Idle /\ ("mode" \in raced => "mode" \in raced')
      BY <2>7 DEF DeleteMapping, Request, memory, TypeInv
    <3>2. job'[r].what = "clear" /\ \A q \in Requesters \ {r} : job'[q] = job[q]
      BY <2>1, <3>1
    <3>3. \A q \in Requesters : job'[q].what = "mode" <=> job[q].what = "mode"
      BY <3>1, <3>2 DEF Idle
    <3> QED
      BY <3>1, <3>2, <3>3 DEF ModeInv
  <2>8. CASE EraseMapping(r)
    <3>1. /\ stored' = stored /\ job' = [job EXCEPT ![r] = Idle]
          /\ mode' = mode /\ job[r].what = "clear" /\ raced' = raced
      BY <2>8 DEF EraseMapping
    <3>2. job'[r] = Idle /\ \A q \in Requesters \ {r} : job'[q] = job[q]
      BY <2>1, <3>1
    <3>3. \A q \in Requesters : job'[q].what = "mode" <=> job[q].what = "mode"
      BY <3>1, <3>2 DEF Idle
    <3> QED
      BY <3>1, <3>2, <3>3 DEF ModeInv
  <2> QED
    BY <1>5, <2>2, <2>3, <2>4, <2>5, <2>6, <2>7, <2>8 DEF HttpStep
<1>6. CASE Restart
  BY <1>6 DEF Restart, ModeInv, Idle
<1> QED
  BY <1>2, <1>3, <1>4, <1>5, <1>6 DEF Next, Waiting

LEMMA ValuesAreKept ==
  ASSUME WorkerInv, TypeInv, ValuesInv, [Next]_vars
  PROVE  ValuesInv'
<1> USE DEF ValuesInv, Goto
<1>1. /\ level \in [Controls -> Values] /\ asked \in [Controls -> Values \cup {Nothing}]
      /\ applied \in [Controls -> Values \cup {Nothing}] /\ loc \in Locals
  BY DEF TypeInv, WorkerInv
<1>2. CASE UNCHANGED vars
  BY <1>2 DEF vars
<1>3. ASSUME NEW m \in Message, ReceiveLearning(m) \/ ReceiveMapped(m) PROVE ValuesInv'
  BY <1>3 DEF ReceiveLearning, ReceiveMapped, Receive, memory
<1>4. CASE StoreMapping \/ StoreMappingFails
  BY <1>4 DEF StoreMapping, StoreMappingFails, memory
<1>5. CASE CommitMapping
  BY <1>1, <1>5 DEF CommitMapping
<1>6. ASSUME NEW c \in Controls, SkipRepeated(c) PROVE ValuesInv'
  BY <1>1, <1>6 DEF SkipRepeated, memory
<1>7. ASSUME NEW c \in Controls, NoteValue(c) PROVE ValuesInv'
  BY <1>1, <1>7 DEF NoteValue, Locals
<1>8. CASE MoveControl
  BY <1>1, <1>8 DEF MoveControl, memory
<1>9. CASE MoveControlFails \/ MessageDone
  BY <1>1, <1>9 DEF MoveControlFails, MessageDone, memory
<1>10. ASSUME NEW r \in Requesters, HttpStep(r) PROVE ValuesInv'
  <2>1. CASE LearnCancel(r) \/ SetMode(r)
    BY <2>1 DEF LearnCancel, SetMode
  <2>2. CASE EraseMapping(r)
    <3>1. job[r].arg \in Controls
      BY <2>2, JobFacts DEF EraseMapping
    <3> QED
      BY <1>1, <2>2, <3>1 DEF EraseMapping, WorkerInv
  <2>3. ASSUME NEW m \in Modes, StoreMode(r, m) PROVE ValuesInv'
    BY <2>3 DEF StoreMode, memory
  <2>4. ASSUME NEW c \in Controls, LearnStart(r, c) \/ DeleteMapping(r, c) PROVE ValuesInv'
    BY <2>4 DEF LearnStart, DeleteMapping, memory
  <2>5. ASSUME NEW c \in Controls, NEW v \in Values, SetLevel(r, c, v) PROVE ValuesInv'
    BY <1>1, <2>5 DEF SetLevel, memory
  <2> QED
    BY <1>10, <2>1, <2>2, <2>3, <2>4, <2>5 DEF HttpStep
<1>11. CASE Restart
  BY <1>11 DEF Restart, Nowhere
<1> QED
  BY <1>2, <1>3, <1>4, <1>5, <1>6, <1>7, <1>8, <1>9, <1>10, <1>11 DEF Next, WorkerStep, Waiting

-----------------------------------------------------------------------------
(***************************************************************************)
(* Theorems                                                                *)
(***************************************************************************)

\* The inductive invariant holds in every state of every run of the MIDI mapping.
THEOREM Inductive == Spec => []IInv
<1>1. IInv /\ [Next]_vars => IInv'
  BY WorkerIsKept, TypesAreKept, MappingsAreKept, ModeIsKept, ValuesAreKept DEF IInv
<1> QED
  BY <1>1, InitEstablishes, PTL DEF Spec

\* Memory, store and the locals of the worker keep their types: the worker stores a
\* mapping only for a control that was being learned.
THEOREM TypeCorrect == Spec => []TypeOK
<1>1. IInv => TypeOK
  BY DEF IInv, TypeInv, WorkerInv, Locals, Jobs, TypeOK
<1> QED
  BY <1>1, Inductive, PTL

\* Between requests and messages the mappings and the input mode in memory are those of
\* the store, so that a restart brings back what is in force; the races that the
\* missing lock between the two sections allows are excepted.
THEOREM RestartKeeps == Spec => []RestartKeepsMidi
<1>1. IInv => RestartKeepsMidi
  BY DEF IInv, MappingsInv, ModeInv, RestartKeepsMidi, Learned, Saved, Clearing
<1> QED
  BY <1>1, Inductive, PTL

\* Once onMidiMessage() is done the mapped controls are where the messages put them,
\* though values that repeat the last applied one are not applied again.
THEOREM MessagesMove == Spec => []MessageMovesControls
<1>1. IInv => MessageMovesControls
  BY DEF IInv, ValuesInv, MessageMovesControls
<1> QED
  BY <1>1, Inductive, PTL
=============================================================================
