----------------------------- MODULE LiveState -----------------------------
(***************************************************************************)
(* The live state of TuxDMX: the value of every fixture channel, kept      *)
(* twice.  The database (src/db/database.cpp) holds what the fixtures are  *)
(* set to, the engine (src/dmx/dmx_engine.cpp) holds the universe frames   *)
(* that are sent.  AppController (src/app/app_controller.cpp) writes both  *)
(* from HTTP threads, from the threads of scene transitions, from the      *)
(* audio thread and from the main thread when it shuts down.               *)
(*                                                                         *)
(* The database and the engine have a mutex each, so one call is one       *)
(* action; no lock spans the two.  Audio ticks hold reactiveMutex_, which  *)
(* nothing but the end of a blackout waits for.                            *)
(*                                                                         *)
(* Fixtures are created before the program starts and do not overlap: a    *)
(* channel stands for a channel of a fixture and for its address in a      *)
(* universe.  Calls to the database do not fail.                           *)
(***************************************************************************)
EXTENDS Integers, FiniteSets

CONSTANTS
  Channels,     \* fixture channels, numbered in the order fixtures are listed
  Fixtures,     \* fixtures
  FixtureOf,    \* the fixture of each channel
  UniverseOf,   \* the universe of each channel, a number
  MaxValue,     \* channel values are 0 .. MaxValue
  Scenes,       \* stored scenes
  Requesters,   \* HTTP connection threads
  Fades,        \* threads of scene transitions
  FadeSteps,    \* a transition is seen at this many points in time
  Kinds,        \* requests that are made
  MaxRequests   \* bound on the requests of the HTTP threads

Audio == "audio"
Main  == "main"

ASSUME ChannelsAssumption ==
  /\ Channels \subseteq Nat
  /\ FixtureOf \in [Channels -> Fixtures]
  /\ UniverseOf \in [Channels -> Nat]
ASSUME ThreadNamesAssumption ==
  /\ Requesters \cap Fades = {}
  /\ {Audio, Main} \cap (Requesters \cup Fades) = {}
ASSUME NumbersAssumption ==
  /\ MaxValue \in Nat
  /\ FadeSteps \in Nat \ {0}
  /\ MaxRequests \in Nat

Threads == Requesters \cup Fades \cup {Audio, Main}
Values == 0 .. MaxValue
Look == [Channels -> Values]
Black == [c \in Channels |-> 0]

VARIABLES
  stored,    \* database: value of each channel
  enabled,   \* database: which fixtures are enabled
  scenes,    \* database: values saved with each scene
  frame,     \* engine: universes_, by channel
  reactive,  \* audio engine: reactiveMode_
  token,     \* sceneTransitionToken_
  pc,        \* where each thread is
  work,      \* locals of each thread
  leaving,   \* main() has returned: ~AppController() runs shutdown() again
  spent,     \* environment: requests so far
  latest,    \* history: kind of the latest request
  want,      \* history: value the latest job on each channel is after
  contested, \* history: channels whose jobs overlapped or were cut short
  clean      \* history: no request or final pass of a fade met the shutdown

database == <<stored, enabled, scenes>>
history == <<spent, latest, want, contested, clean>>
vars == <<database, frame, reactive, token, leaving, pc, work, history>>

-----------------------------------------------------------------------------
(***************************************************************************)
(* Types and helpers                                                       *)
(***************************************************************************)

Ops == {"none", "set", "patch", "blackout", "rebuild", "instant", "fade",
        "tick", "persist"}

\* A job of a thread: all the channels it writes, those left in the loop it is
\* in, those stored and not yet sent (ticks), the values it is after and those
\* it starts from; how far a fade has got and the token it was given.
Work == [op : Ops, all : SUBSET Channels, todo : SUBSET Channels,
         out : SUBSET Channels, to : Look, from : Look, at : 0 .. FadeSteps,
         token : Nat]

NoWork == [op |-> "none", all |-> {}, todo |-> {}, out |-> {}, to |-> Black,
           from |-> Black, at |-> 0, token |-> 0]

Job(op, S, to) == [NoWork EXCEPT !.op = op, !.all = S, !.todo = S, !.to = to]

RequesterPc == {"idle", "list", "start", "store", "set", "write", "load",
                "replace", "clear", "calm"}
FadePc == {"off", "check", "pass", "store", "set"}
AudioPc == {"idle", "listen", "tick", "store", "off"}
MainPc == {"running", "join", "store", "set", "halt", "done"}

Least(S) == CHOOSE c \in S : \A d \in S : c <= d

\* Channels of the first universe that has channels in S.
FirstUniverse(S) ==
  {c \in Channels : UniverseOf[c] = Least({UniverseOf[d] : d \in S})}

\* Channels of S that belong to the fixture listed first.
FirstFixture(S) == {c \in S : FixtureOf[c] = FixtureOf[Least(S)]}

EnabledChannels == {c \in Channels : enabled[FixtureOf[c]]}

\* loadUniversePatch() and the frame built from it: disabled fixtures are dark.
Patched(values) == [c \in Channels |-> IF c \in EnabledChannels THEN values[c] ELSE 0]

\* std::lround() of the point k of FadeSteps on the way from a to b.
Blend(a, b, k) ==
  (2 * (a * FadeSteps + (b - a) * k) + FadeSteps) \div (2 * FadeSteps)

Go(t, p, w) ==
  /\ pc' = [pc EXCEPT ![t] = p]
  /\ work' = [work EXCEPT ![t] = w]

Finish(t) == Go(t, IF t \in Fades THEN "off" ELSE "idle", NoWork)

\* The main thread has not returned, so the other threads run.
Alive == pc[Main] # "done"

\* History: t starts to write the channels S to reach the values of to.
Begin(t, S, to) ==
  /\ want' = [c \in Channels |-> IF c \in S THEN to[c] ELSE want[c]]
  /\ contested' = (contested \ S)
                  \cup {c \in S : \E u \in Threads \ {t} : c \in work[u].all}

-----------------------------------------------------------------------------
(***************************************************************************)
(* The loops the handlers are made of                                      *)
(***************************************************************************)

\* What follows a loop over channels.
LoopEnd(t) ==
  LET w == work[t] IN
  CASE w.op = "blackout" -> Go(t, "clear", [w EXCEPT !.todo = Channels])
    [] w.op = "persist"  -> Go(t, "halt", NoWork)
    [] w.op = "instant" /\ pc[t] = "write" -> Go(t, "store", [w EXCEPT !.todo = w.all])
    [] w.op = "fade" /\ pc[t] = "pass" ->
         IF w.at = FadeSteps
         THEN Go(t, "store", [w EXCEPT !.todo = w.all])
         ELSE Go(t, "check", [w EXCEPT !.at = w.at + 1])
    [] OTHER -> Finish(t)

Proceed(t, p, left) ==
  IF left = {} THEN LoopEnd(t) ELSE Go(t, p, [work[t] EXCEPT !.todo = left])

\* db_.updateFixtureChannelValue(); an instant recall only stores.
StoreChannel(t) ==
  LET w == work[t]
      c == Least(w.todo)
  IN /\ pc[t] = "store" /\ t # Audio
     /\ stored' = [stored EXCEPT ![c] = w.to[c]]
     /\ IF w.op = "instant" THEN Proceed(t, "store", w.todo \ {c}) ELSE Go(t, "set", w)
     /\ UNCHANGED <<enabled, scenes, frame, reactive, token, leaving, history>>

\* dmx_.setChannel() with the patch the database returned.
SetChannel(t) ==
  LET w == work[t]
      c == Least(w.todo)
  IN /\ pc[t] = "set"
     /\ frame' = [frame EXCEPT ![c] = w.to[c]]
     /\ Proceed(t, "store", w.todo \ {c})
     /\ UNCHANGED <<database, reactive, token, leaving, history>>

\* dmx_.setChannel() alone: raw patches, and the first loop of a recall.
WriteChannel(t) ==
  LET w == work[t]
      c == Least(w.todo)
  IN /\ pc[t] = "write"
     /\ frame' = [frame EXCEPT ![c] = w.to[c]]
     /\ Proceed(t, "write", w.todo \ {c})
     /\ UNCHANGED <<database, reactive, token, leaving, history>>

\* rebuildAllUniversesFromDatabase(): for each universe loadUniversePatch()...
LoadUniverse(t) ==
  /\ pc[t] = "load"
  /\ Go(t, "replace", [work[t] EXCEPT !.to = Patched(stored)])
  /\ UNCHANGED <<database, frame, reactive, token, leaving, history>>

\* ... and replaceUniverse().
ReplaceUniverse(t) ==
  LET w == work[t]
      S == FirstUniverse(w.todo)
  IN /\ pc[t] = "replace"
     /\ frame' = [c \in Channels |-> IF c \in S THEN w.to[c] ELSE frame[c]]
     /\ Proceed(t, "load", w.todo \ S)
     /\ UNCHANGED <<database, reactive, token, leaving, history>>

\* persistBlackoutToDatabase() skips the channels that are zero in its snapshot.
Lit == {c \in Channels : stored[c] # 0}

-----------------------------------------------------------------------------
(***************************************************************************)
(* Requests                                                                *)
(***************************************************************************)

\* An HTTP thread enters the handler of a request of some kind.  Connection
\* threads are detached: they may do so until the process has gone.
Accept(r, kind) ==
  /\ Alive /\ pc[r] = "idle" /\ kind \in Kinds
  /\ spent < MaxRequests
  /\ spent' = spent + 1
  /\ latest' = kind
  /\ clean' = FALSE

\* The channels of v get their values, the others are left alone.
Only(v) == [c \in Channels |-> IF c \in DOMAIN v THEN v[c] ELSE 0]

\* One channel is set to a value.
SetRequest(r, c, x) ==
  /\ Accept(r, "set")
  /\ Begin(r, {c}, Only([d \in {c} |-> x]))
  /\ Go(r, "store", Job("set", {c}, Only([d \in {c} |-> x])))
  /\ UNCHANGED <<database, frame, reactive, token, leaving>>

\* The channels of one kind in the fixtures of a group, one after another: a value
\* for all of them, or the middle of a range of each.
GroupRequest(r, v) ==
  /\ Accept(r, "group")
  /\ Begin(r, DOMAIN v, Only(v))
  /\ Go(r, "store", Job("set", DOMAIN v, Only(v)))
  /\ UNCHANGED <<database, frame, reactive, token, leaving>>

\* /api/dmx/patches: the output is changed behind the back of the database.
PatchRequest(r, v) ==
  /\ Accept(r, "patch")
  /\ contested' = contested \cup DOMAIN v
  /\ Go(r, "write", Job("patch", DOMAIN v, Only(v)))
  /\ UNCHANGED <<database, frame, reactive, token, leaving, want>>

\* /api/dmx/blackout, up to the snapshot of the fixtures.
BlackoutRequest(r) ==
  /\ Accept(r, "blackout")
  /\ reactive' = FALSE
  /\ Begin(r, Channels, Black)
  /\ Go(r, "list", Job("blackout", Channels, Black))
  /\ UNCHANGED <<database, frame, token, leaving>>

BlackoutList(r) ==
  /\ pc[r] = "list" /\ work[r].op = "blackout"
  /\ IF Lit = {} THEN LoopEnd(r) ELSE Go(r, "store", [work[r] EXCEPT !.todo = Lit])
  /\ UNCHANGED <<database, frame, reactive, token, leaving, history>>

\* Mutant: the blackout clears the addresses of enabled fixtures only.
ClearUniverseOfEnabled(r) ==
  LET left == work[r].todo \ FirstUniverse(work[r].todo)
  IN /\ pc[r] = "clear"
     /\ frame' = [c \in Channels |->
                    IF c \in FirstUniverse(work[r].todo) \cap EnabledChannels
                    THEN 0 ELSE frame[c]]
     /\ Go(r, IF left = {} THEN "calm" ELSE "clear", [work[r] EXCEPT !.todo = left])
     /\ UNCHANGED <<database, reactive, token, leaving, history>>

\* dmx_.clearUniverse() of each known universe.
ClearUniverse(r) ==
  LET left == work[r].todo \ FirstUniverse(work[r].todo)
  IN /\ pc[r] = "clear"
     /\ frame' = [c \in Channels |->
                    IF c \in FirstUniverse(work[r].todo) THEN 0 ELSE frame[c]]
     /\ Go(r, IF left = {} THEN "calm" ELSE "clear", [work[r] EXCEPT !.todo = left])
     /\ UNCHANGED <<database, reactive, token, leaving, history>>

\* Mutant: the blackout waits for the audio thread to stop.
CalmAfterAudio(r) ==
  /\ pc[r] = "calm" /\ pc[Audio] = "off"
  /\ Finish(r)
  /\ UNCHANGED <<database, frame, reactive, token, leaving, history>>

\* The reactive states are cleared under reactiveMutex_, then the reply is sent.
Calm(r) ==
  /\ pc[r] = "calm" /\ pc[Audio] # "store"
  /\ Finish(r)
  /\ UNCHANGED <<database, frame, reactive, token, leaving, history>>

\* The rest of a handler that ends in rebuildAllUniversesFromDatabase().
Rebuild(r) ==
  /\ Begin(r, Channels, stored)
  /\ Go(r, "load", Job("rebuild", Channels, Black))

\* Mutant: the universes are not rebuilt.
EnableRequestWithoutRebuild(r, f, on) ==
  /\ Accept(r, "enable")
  /\ enabled' = [enabled EXCEPT ![f] = on]
  /\ UNCHANGED <<stored, scenes, frame, reactive, token, leaving, pc, work, want, contested>>

\* Enabling and disabling a fixture.
EnableRequest(r, f, on) ==
  /\ Accept(r, "enable")
  /\ enabled' = [enabled EXCEPT ![f] = on]
  /\ Rebuild(r)
  /\ UNCHANGED <<stored, scenes, frame, reactive, token, leaving>>

\* Music-reactive mode on or off.
ReactiveRequest(r, on) ==
  /\ Accept(r, "reactive")
  /\ reactive' = on
  /\ IF on THEN UNCHANGED <<pc, work, want, contested>> ELSE Rebuild(r)
  /\ UNCHANGED <<database, frame, token, leaving>>

\* The current values overwrite those of a scene.
CaptureRequest(r, s) ==
  /\ Accept(r, "capture")
  /\ scenes' = [scenes EXCEPT ![s] = stored]
  /\ UNCHANGED <<stored, enabled, frame, reactive, token, leaving, pc, work, want, contested>>

\* startSceneTransition(): loadScenePatches() finds the channels of enabled
\* fixtures, or the request fails.
RecallRequest(r, s, op) ==
  /\ Accept(r, "recall") /\ op \in {"instant", "fade"}
  /\ IF EnabledChannels = {}
     THEN UNCHANGED <<pc, work, want, contested>>
     ELSE /\ Begin(r, EnabledChannels, scenes[s])
          /\ Go(r, "list", Job(op, EnabledChannels, scenes[s]))
  /\ UNCHANGED <<database, frame, reactive, token, leaving>>

\* listFixtures() gives the values the transition starts from.
RecallList(r) ==
  /\ pc[r] = "list" /\ work[r].op \in {"instant", "fade"}
  /\ Go(r, "start", [work[r] EXCEPT !.from = stored])
  /\ UNCHANGED <<database, frame, reactive, token, leaving, history>>

\* The token is taken; a transition that takes time gets a thread of its own.
RecallStart(r) ==
  /\ pc[r] = "start"
  /\ token' = token + 1
  /\ \/ /\ work[r].op = "instant"
        /\ Go(r, "write", work[r])
     \/ \E f \in Fades :
          /\ work[r].op = "fade" /\ pc[f] = "off"
          /\ pc' = [pc EXCEPT ![r] = "idle", ![f] = "check"]
          /\ work' = [work EXCEPT ![r] = NoWork,
                                  ![f] = [work[r] EXCEPT !.token = token + 1]]
  /\ UNCHANGED <<database, frame, reactive, leaving, history>>

-----------------------------------------------------------------------------
(***************************************************************************)
(* The threads of scene transitions                                        *)
(***************************************************************************)

\* The thread of a transition that another recall or the shutdown has
\* superseded ends where it is.
FadeSuperseded(f) ==
  /\ pc[f] = "check" /\ work[f].token # token
  /\ contested' = contested \cup work[f].all
  /\ Finish(f)
  /\ UNCHANGED <<database, frame, reactive, token, leaving, spent, latest, want, clean>>

\* Mutants: the time that has passed is not clamped to the duration, or the clock
\* starts again with every pass.
FadeCheckUnclamped(f, k) ==
  /\ pc[f] = "check" /\ work[f].token = token
  /\ k >= work[f].at
  /\ Go(f, "pass", [work[f] EXCEPT !.at = k + 1, !.todo = work[f].all])
  /\ UNCHANGED <<database, frame, reactive, token, leaving, history>>
FadeCheckRestarted(f, k) ==
  /\ pc[f] = "check" /\ work[f].token = token
  /\ k < FadeSteps
  /\ Go(f, "pass", [work[f] EXCEPT !.at = k, !.todo = work[f].all])
  /\ UNCHANGED <<database, frame, reactive, token, leaving, history>>

\* Time has passed since the last pass, up to the end of the transition.
FadeCheck(f, k) ==
  /\ pc[f] = "check" /\ work[f].token = token
  /\ k >= work[f].at
  /\ Go(f, "pass", [work[f] EXCEPT !.at = k, !.todo = work[f].all])
  /\ UNCHANGED <<database, frame, reactive, token, leaving, history>>

\* Mutant: a transition that has reached its end is not stored.
FadeChannelForgets(f) ==
  LET w == work[f]
      c == Least(w.todo)
  IN /\ pc[f] = "pass"
     /\ frame' = [frame EXCEPT ![c] = Blend(w.from[c], w.to[c], w.at)]
     /\ IF w.todo = {c} /\ w.at = FadeSteps THEN Finish(f) ELSE Proceed(f, "pass", w.todo \ {c})
     /\ UNCHANGED <<database, reactive, token, leaving, history>>

\* One pass sets every channel to its value at that time.
FadeChannel(f) ==
  LET w == work[f]
      c == Least(w.todo)
  IN /\ pc[f] = "pass"
     /\ frame' = [frame EXCEPT ![c] = Blend(w.from[c], w.to[c], w.at)]
     /\ Proceed(f, "pass", w.todo \ {c})
     /\ UNCHANGED <<database, reactive, token, leaving, history>>

-----------------------------------------------------------------------------
(***************************************************************************)
(* The audio thread and the main thread                                    *)
(***************************************************************************)

\* An iteration of the audio loop begins, unless stop() has been called.
AudioLoop ==
  /\ pc[Audio] = "idle"
  /\ pc' = [pc EXCEPT ![Audio] = IF pc[Main] = "running" THEN "listen" ELSE "off"]
  /\ UNCHANGED <<database, frame, reactive, token, leaving, work, history>>

\* Samples have been analysed; a tick follows in reactive mode, unless the
\* previous one was too short ago.
AudioTick(ticks) ==
  /\ pc[Audio] = "listen" /\ (ticks => reactive)
  /\ pc' = [pc EXCEPT ![Audio] = IF ticks THEN "tick" ELSE "idle"]
  /\ UNCHANGED <<database, frame, reactive, token, leaving, work, history>>

\* onAudioMetrics() takes reactiveMutex_ and a snapshot of the fixtures; the
\* music decides the values, and only channels whose value changes are written.
TickSense(to) ==
  LET changed == {c \in EnabledChannels : to[c] # stored[c]}
  IN /\ pc[Audio] = "tick"
     /\ IF changed = {}
        THEN Finish(Audio) /\ UNCHANGED <<want, contested>>
        ELSE Go(Audio, "store", Job("tick", changed, to)) /\ Begin(Audio, changed, to)
     /\ UNCHANGED <<database, frame, reactive, token, leaving, spent, latest, clean>>

\* Mutant: a tick only sends its values.
TickStoreNothing ==
  LET w == work[Audio]
      here == FirstFixture(w.todo \cup w.out) \cap w.todo
      c == Least(here)
  IN /\ pc[Audio] = "store" /\ here # {}
     /\ Go(Audio, "store", [w EXCEPT !.todo = @ \ {c}, !.out = @ \cup {c}])
     /\ UNCHANGED <<database, frame, reactive, token, leaving, history>>

\* The changed channels of a fixture are stored one by one...
TickStore ==
  LET w == work[Audio]
      here == FirstFixture(w.todo \cup w.out) \cap w.todo
      c == Least(here)
  IN /\ pc[Audio] = "store" /\ here # {}
     /\ stored' = [stored EXCEPT ![c] = w.to[c]]
     /\ Go(Audio, "store", [w EXCEPT !.todo = @ \ {c}, !.out = @ \cup {c}])
     /\ UNCHANGED <<enabled, scenes, frame, reactive, token, leaving, history>>

\* Mutant: a fixture has its last changed channel sent only.
TickSendLast ==
  LET w == work[Audio]
      c == Least(w.out)
  IN /\ pc[Audio] = "store" /\ w.out # {}
     /\ FirstFixture(w.todo \cup w.out) \cap w.todo = {}
     /\ frame' = [frame EXCEPT ![c] = w.to[c]]
     /\ IF w.todo = {} THEN Finish(Audio) ELSE Go(Audio, "store", [w EXCEPT !.out = {}])
     /\ UNCHANGED <<database, reactive, token, leaving, history>>

\* ... and then sent one by one.
TickSend ==
  LET w == work[Audio]
      c == Least(w.out)
  IN /\ pc[Audio] = "store" /\ w.out # {}
     /\ FirstFixture(w.todo \cup w.out) \cap w.todo = {}
     /\ frame' = [frame EXCEPT ![c] = w.to[c]]
     /\ IF w.todo = {} /\ w.out = {c}
        THEN Finish(Audio)
        ELSE Go(Audio, "store", [w EXCEPT !.out = @ \ {c}])
     /\ UNCHANGED <<database, reactive, token, leaving, history>>

\* A fade that makes or has made its last pass, so that no token stops it.
Landing(f) ==
  \/ pc[f] \in {"store", "set"}
  \/ pc[f] = "pass" /\ work[f].at = FadeSteps

\* shutdown() supersedes transitions and stops the audio thread...
ShutdownBegin ==
  /\ pc[Main] = "running"
  /\ token' = token + 1
  /\ pc' = [pc EXCEPT ![Main] = "join"]
  /\ clean' = ((\A r \in Requesters : pc[r] = "idle") /\ ~ \E f \in Fades : Landing(f))
  /\ UNCHANGED <<database, frame, reactive, leaving, work, spent, latest, want, contested>>

\* Mutant: the audio thread is not joined.
ShutdownJoinEarly ==
  /\ pc[Main] = "join"
  /\ Begin(Main, Lit, Black)
  /\ IF Lit = {} THEN Go(Main, "halt", NoWork)
                 ELSE Go(Main, "store", Job("persist", Lit, Black))
  /\ UNCHANGED <<database, frame, reactive, token, leaving, spent, latest, clean>>

\* ... waits for it, then sets the channels that are lit to zero...
ShutdownJoin ==
  /\ pc[Main] = "join" /\ pc[Audio] = "off"
  /\ Begin(Main, Lit, Black)
  /\ IF Lit = {} THEN Go(Main, "halt", NoWork)
                 ELSE Go(Main, "store", Job("persist", Lit, Black))
  /\ UNCHANGED <<database, frame, reactive, token, leaving, spent, latest, clean>>

\* ... and returns when the engine has stopped.  The destructor of AppController
\* calls it once more: the threads have ended, the values are looked at again.
ShutdownAgain ==
  /\ pc[Main] = "halt" /\ ~leaving
  /\ leaving' = TRUE
  /\ token' = token + 1
  /\ pc' = [pc EXCEPT ![Main] = "join"]
  /\ UNCHANGED <<database, frame, reactive, work, history>>

ShutdownEnd ==
  /\ pc[Main] = "halt" /\ leaving
  /\ pc' = [pc EXCEPT ![Main] = "done"]
  /\ UNCHANGED <<database, frame, reactive, token, leaving, work, history>>

\* The process has gone.
Terminated == ~Alive /\ UNCHANGED vars

-----------------------------------------------------------------------------
(***************************************************************************)
(* Specification                                                           *)
(***************************************************************************)

\* initialize() has built the frames from the database.
Init ==
  /\ stored \in Look
  /\ enabled \in [Fixtures -> BOOLEAN]
  /\ scenes \in [Scenes -> Look]
  /\ frame = Patched(stored)
  /\ reactive = FALSE
  /\ token = 0 /\ leaving = FALSE
  /\ pc = [t \in Threads |-> IF t \in Fades THEN "off"
                             ELSE IF t = Main THEN "running" ELSE "idle"]
  /\ work = [t \in Threads |-> NoWork]
  /\ spent = 0 /\ latest = "none" /\ clean = FALSE
  /\ want = stored /\ contested = {}

NewRequest(r) ==
  \/ \E c \in Channels, x \in Values : SetRequest(r, c, x)
  \/ \E S \in (SUBSET Channels) \ {{}} : \E v \in [S -> Values] :
       GroupRequest(r, v) \/ PatchRequest(r, v)
  \/ BlackoutRequest(r)
  \/ \E f \in Fixtures, on \in BOOLEAN : EnableRequest(r, f, on)
  \/ \E on \in BOOLEAN : ReactiveRequest(r, on)
  \/ \E s \in Scenes : CaptureRequest(r, s)
  \/ \E s \in Scenes, op \in {"instant", "fade"} : RecallRequest(r, s, op)

RequesterStep(r) ==
  Alive /\ (\/ StoreChannel(r) \/ SetChannel(r) \/ WriteChannel(r)
            \/ LoadUniverse(r) \/ ReplaceUniverse(r)
            \/ BlackoutList(r) \/ ClearUniverse(r) \/ Calm(r)
            \/ RecallList(r) \/ RecallStart(r))

FadeStep(f) ==
  Alive /\ (\/ FadeSuperseded(f)
            \/ \E k \in 0 .. FadeSteps : FadeCheck(f, k)
            \/ FadeChannel(f) \/ StoreChannel(f) \/ SetChannel(f))

AudioStep ==
  Alive /\ (\/ AudioLoop \/ \E ticks \in BOOLEAN : AudioTick(ticks)
            \/ \E to \in Look : TickSense(to)
            \/ TickStore \/ TickSend)

ShutdownStep ==
  ShutdownJoin \/ StoreChannel(Main) \/ SetChannel(Main)
  \/ ShutdownAgain \/ ShutdownEnd

Next ==
  \/ \E r \in Requesters : NewRequest(r) \/ RequesterStep(r)
  \/ \E f \in Fades : FadeStep(f)
  \/ AudioStep
  \/ ShutdownBegin \/ ShutdownStep
  \/ Terminated

\* Threads run.  A blackout gets reactiveMutex_ although ticks take it again and
\* again: the audio thread reads or sleeps for a frame of sound between two.
Fairness ==
  /\ \A r \in Requesters : WF_vars(RequesterStep(r)) /\ SF_vars(Alive /\ Calm(r))
  /\ \A f \in Fades : WF_vars(FadeStep(f))
  /\ WF_vars(AudioStep)
  /\ WF_vars(ShutdownStep)

Spec == Init /\ [][Next]_vars

FairSpec == Spec /\ Fairness
-----------------------------------------------------------------------------
(***************************************************************************)
(* Properties                                                              *)
(***************************************************************************)

TypeOK ==
  /\ stored \in Look
  /\ enabled \in [Fixtures -> BOOLEAN]
  /\ scenes \in [Scenes -> Look]
  /\ frame \in Look
  /\ reactive \in BOOLEAN
  /\ token \in Nat /\ leaving \in BOOLEAN
  /\ pc \in [Threads -> RequesterPc \cup FadePc \cup AudioPc \cup MainPc]
  /\ work \in [Threads -> Work]
  /\ spent \in 0 .. MaxRequests
  /\ latest \in {"none", "set", "group", "patch", "blackout", "enable", "reactive",
                 "capture", "recall"}
  /\ want \in Look
  /\ contested \subseteq Channels
  /\ clean \in BOOLEAN

Answered == \A r \in Requesters : pc[r] = "idle"

\* No job is writing the channel, and the latest one ran to its end alone.
Settled(c) == c \notin contested /\ \A t \in Threads : c \notin work[t].all

\* What is sent for an enabled fixture is what the database says of it, once the
\* jobs on the channel are over: every way to change a value changes both, unless
\* two jobs overlapped on the channel, a fade was cut short or a patch was sent
\* past the database.
StoreAndOutputAgree ==
  \A c \in EnabledChannels : Settled(c) => frame[c] = stored[c]

\* The latest job on a channel has the last word, whatever jobs on other channels
\* did meanwhile: its value stays in the database, from where captures and
\* restarts take it.
LatestJobWins == \A c \in Channels : Settled(c) => stored[c] = want[c]

\* A blackout also darkens the disabled fixtures: clearUniverse() clears whole
\* universes, which a rebuild from the database would not have to.
BlackoutIsTotal ==
  Answered /\ latest = "blackout" =>
    \A c \in Channels : Settled(c) /\ want[c] = 0 => frame[c] = 0

\* The process leaves zeros in the database, so that a restart moves nothing, if
\* no request is served during shutdown() and no transition was in its final
\* pass: earlier transitions are superseded and the audio thread is joined first.
CleanShutdownSavesZeros == pc[Main] = "done" /\ clean => stored = Black

\* Every transition ends, superseded or complete, while the process lives.
FadesEnd == \A f \in Fades : pc[f] # "off" ~> pc[f] = "off" \/ ~Alive

\* Every request is answered while the process lives; a blackout does not starve
\* for reactiveMutex_ behind ticks.
RequestsAnswered == \A r \in Requesters : pc[r] # "idle" ~> pc[r] = "idle" \/ ~Alive

-----------------------------------------------------------------------------
(***************************************************************************)
(* What the documentation says and the code does not do                    *)
(***************************************************************************)

\* README.md:279: a panic blackout sets "known universes and fixture channels to
\* zero, reactive off".
BlackoutStaysBlack ==
  Answered /\ latest = "blackout" => frame = Black /\ stored = Black
=============================================================================
