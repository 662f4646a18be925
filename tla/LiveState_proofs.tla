-------------------------- MODULE LiveState_proofs --------------------------
(***************************************************************************)
(* Theorems about LiveState, for any number of channels, fixtures,         *)
(* universes, scenes, threads and requests.                                *)
(*                                                                         *)
(* The inductive invariant says of every channel that is not contested     *)
(* that one job at most is writing it, how far that job has got in the     *)
(* database and in the engine, and that the two agree once it is over.     *)
(***************************************************************************)
EXTENDS LiveState, NaturalsInduction, WellFoundedInduction, TLAPS

USE DEF Audio, Main

-----------------------------------------------------------------------------
(***************************************************************************)
(* The inductive invariant                                                 *)
(***************************************************************************)

\* What a thread can be doing at each point of its code.
RequesterInv(r) ==
  /\ pc[r] \in RequesterPc
  /\ pc[r] = "idle" => work[r] = NoWork
  /\ pc[r] = "list" => work[r].op \in {"blackout", "instant", "fade"}
  /\ pc[r] = "start" => work[r].op \in {"instant", "fade"}
  /\ pc[r] = "store" => work[r].op \in {"set", "blackout", "instant"}
  /\ pc[r] = "set" => work[r].op \in {"set", "blackout"}
  /\ pc[r] = "write" => work[r].op \in {"patch", "instant"}
  /\ pc[r] \in {"load", "replace"} => work[r].op = "rebuild"
  /\ pc[r] \in {"clear", "calm"} => work[r].op = "blackout"

FadeInv(f) ==
  /\ pc[f] \in FadePc
  /\ IF pc[f] = "off" THEN work[f] = NoWork ELSE work[f].op = "fade"

AudioInv ==
  /\ pc[Audio] \in AudioPc
  /\ IF pc[Audio] = "store"
     THEN work[Audio].op = "tick" /\ work[Audio].todo \cup work[Audio].out # {}
     ELSE work[Audio] = NoWork

MainInv ==
  /\ pc[Main] \in MainPc
  /\ pc[Main] = "running" => ~leaving
  /\ IF pc[Main] \in {"store", "set"} THEN work[Main].op = "persist" ELSE work[Main] = NoWork

\* What holds of the locals of any job.
JobInv(t) ==
  LET w == work[t] IN
  /\ w.todo \subseteq w.all /\ w.out \subseteq w.all
  /\ t # Audio /\ pc[t] \in {"store", "set", "write", "pass"} => w.todo # {}
  /\ w.op \in {"instant", "fade"} => w.all # {}
  /\ w.op \in {"blackout", "rebuild"} => w.all = Channels
  /\ w.op \in {"blackout", "persist"} => w.to = Black
  /\ pc[t] = "calm" => w.todo = {}
  /\ pc[t] \in {"list", "start"} => w.todo = w.all

ThreadInv(t) ==
  /\ t \in Requesters => RequesterInv(t)
  /\ t \in Fades => FadeInv(t)
  /\ t = Audio => AudioInv
  /\ t = Main => MainInv
  /\ JobInv(t)

ControlInv == \A t \in Threads : ThreadInv(t)

\* Channels whose value a job has stored, and sent.
StoredBy(t) ==
  LET w == work[t]
      passed == (w.all \ w.todo) \cup (IF pc[t] = "set" THEN {Least(w.todo)} ELSE {})
  IN  CASE w.op \in {"set", "persist"} -> passed
        [] w.op = "fade" -> IF pc[t] \in {"store", "set"} THEN passed ELSE {}
        [] w.op = "blackout" -> IF pc[t] \in {"clear", "calm"} THEN w.all
                                ELSE IF pc[t] = "list" THEN {} ELSE passed
        [] w.op = "instant" -> IF pc[t] = "store" THEN w.all \ w.todo ELSE {}
        [] w.op = "tick" -> w.all \ w.todo
        [] OTHER -> {}

SentBy(t) ==
  LET w == work[t] IN
  CASE w.op \in {"set", "persist"} -> w.all \ w.todo
    [] w.op = "fade" -> IF pc[t] \in {"store", "set"} THEN w.all \ w.todo ELSE {}
    [] w.op = "blackout" -> IF pc[t] \in {"clear", "calm"} THEN w.all \ w.todo ELSE {}
    [] w.op = "instant" -> IF pc[t] = "store" THEN w.all
                           ELSE IF pc[t] = "write" THEN w.all \ w.todo ELSE {}
    [] w.op = "tick" -> w.all \ (w.todo \cup w.out)
    [] OTHER -> {}

\* How far the job of t has got with channel c, which no other job touches.
Progress(t, c) ==
  LET w == work[t] IN
  /\ w.op # "patch"
  /\ w.op # "rebuild" => /\ want[c] = w.to[c]
                         /\ c \in StoredBy(t) => stored[c] = w.to[c]
                         /\ c \in SentBy(t) => frame[c] = w.to[c]
  /\ w.op = "rebuild" =>
       /\ latest # "blackout"
       /\ stored[c] = want[c]
       /\ c \in EnabledChannels =>
            /\ pc[t] = "replace" => w.to[c] = stored[c]
            /\ c \notin w.todo => frame[c] = stored[c]

\* Channel c when no job is writing it.
Agreed(c) ==
  /\ stored[c] = want[c]
  /\ c \in EnabledChannels \/ latest = "blackout" => frame[c] = want[c]

Unowned(c) == \A t \in Threads : c \notin work[t].all

ValuesInv ==
  \A c \in Channels \ contested :
    /\ \A t, u \in Threads : c \in work[t].all /\ c \in work[u].all => t = u
    /\ \A t \in Threads : c \in work[t].all => Progress(t, c)
    /\ Unowned(c) => Agreed(c)

\* After a clean shutdown() has begun, nothing but the main thread and the tick
\* that is joined stores anything.
ShutdownInv ==
  /\ \A f \in Fades : work[f].token <= token
  /\ clean =>
       /\ pc[Main] # "running"
       /\ \A r \in Requesters : pc[r] = "idle"
       /\ \A f \in Fades :
            /\ pc[f] \in {"off", "check", "pass"}
            /\ pc[f] # "off" => work[f].token < token
            /\ pc[f] = "pass" => work[f].at # FadeSteps
       /\ pc[Main] # "join" \/ leaving => pc[Audio] = "off"
       /\ pc[Main] \in {"store", "set"} =>
            /\ \A c \in Channels \ work[Main].todo : stored[c] = 0
            /\ pc[Main] = "set" => stored[Least(work[Main].todo)] = 0
       /\ pc[Main] \in {"halt", "done"} \/ (pc[Main] = "join" /\ leaving) => stored = Black

IInv == TypeOK /\ ControlInv /\ ValuesInv /\ ShutdownInv

-----------------------------------------------------------------------------
(***************************************************************************)
(* Facts about the constants and the operators                             *)
(***************************************************************************)

\* The assumptions on the constants, under one name.
LEMMA Constants ==
  /\ Channels \subseteq Nat
  /\ FixtureOf \in [Channels -> Fixtures]
  /\ UniverseOf \in [Channels -> Nat]
  /\ Requesters \cap Fades = {}
  /\ Audio \notin Requesters \cup Fades /\ Main \notin Requesters \cup Fades
  /\ Audio # Main
  /\ MaxValue \in Nat /\ FadeSteps \in Nat \ {0} /\ MaxRequests \in Nat
BY ChannelsAssumption, ThreadNamesAssumption, NumbersAssumption

\* Least() is the least element of a set that has any.
LessOnNat == {ss \in Nat \X Nat : ss[1] < ss[2]}

LEMMA LessOnNatWF == IsWellFoundedOn(LessOnNat, Nat)
BY NatLessThanWellFounded DEF OpToRel, LessOnNat

LEMMA LeastIn ==
  ASSUME NEW S \in SUBSET Nat, S # {}
  PROVE  Least(S) \in S
<1>1. PICK x \in S : \A y \in S : ~(<<y, x>> \in LessOnNat)
  BY LessOnNatWF, WFMin
<1>2. \A y \in S : ~(y < x)
  BY <1>1 DEF LessOnNat
<1>3. \A y \in S : x <= y
  BY <1>2
<1> QED
  BY <1>3 DEF Least

LEMMA LeastChannel ==
  ASSUME NEW S \in SUBSET Channels, S # {}
  PROVE  Least(S) \in S /\ Least(S) \in Channels
BY LeastIn, Constants

\* A transition stays between the values it starts from and ends at.
LEMMA BlendInRange ==
  ASSUME NEW a \in Values, NEW b \in Values, NEW k \in 0 .. FadeSteps
  PROVE  Blend(a, b, k) \in Values
<1> DEFINE n == a * FadeSteps + (b - a) * k
<1>1. a \in Int /\ b \in Int /\ k \in Int /\ FadeSteps \in Int /\ MaxValue \in Int
  BY Constants DEF Values
<1>2. 0 <= a /\ a <= MaxValue /\ 0 <= b /\ b <= MaxValue /\ 0 <= k /\ k <= FadeSteps /\ 1 <= FadeSteps
  BY Constants DEF Values
<1>3. n = a * (FadeSteps - k) + b * k
  BY <1>1
<1>4. a * (FadeSteps - k) >= 0 /\ b * k >= 0
  BY <1>1, <1>2
<1>5. a * (FadeSteps - k) <= MaxValue * (FadeSteps - k) /\ b * k <= MaxValue * k
  BY <1>1, <1>2
<1>6. MaxValue * (FadeSteps - k) + MaxValue * k = MaxValue * FadeSteps
  BY <1>1
<1>7. n \in Int /\ 0 <= n /\ n <= MaxValue * FadeSteps
  BY <1>1, <1>3, <1>4, <1>5, <1>6
<1> DEFINE q == (2 * n + FadeSteps) \div (2 * FadeSteps)
<1>8. q \in Int /\ (2 * FadeSteps) * q <= 2 * n + FadeSteps
      /\ 2 * n + FadeSteps < (2 * FadeSteps) * (q + 1)
  BY <1>1, <1>2, <1>7
<1>9. q >= 0 /\ q <= MaxValue
  BY <1>1, <1>2, <1>7, <1>8
<1> QED
  BY <1>8, <1>9 DEF Blend, Values

LEMMA Looks ==
  /\ Black \in Look
  /\ \A v \in Look : Patched(v) \in Look
  /\ \A S \in SUBSET Channels : \A v \in [S -> Values] : Only(v) \in Look
BY Constants DEF Look, Black, Patched, Only, Values

LEMMA NoWorkType ==
  /\ NoWork \in Work
  /\ NoWork.op = "none" /\ NoWork.all = {} /\ NoWork.todo = {} /\ NoWork.out = {}
  /\ NoWork.token = 0
BY Looks, Constants DEF NoWork, Work, Ops

LEMMA JobType ==
  ASSUME NEW op \in Ops, NEW S \in SUBSET Channels, NEW to \in Look
  PROVE  /\ Job(op, S, to) \in Work
         /\ Job(op, S, to).op = op /\ Job(op, S, to).all = S /\ Job(op, S, to).todo = S
         /\ Job(op, S, to).out = {} /\ Job(op, S, to).to = to
         /\ Job(op, S, to).token = 0
BY NoWorkType DEF Job, Work

\* What Go() changes, and what it leaves alone.
LEMMA GoFrame ==
  ASSUME TypeOK, NEW t \in Threads, NEW p, NEW w, Go(t, p, w)
  PROVE  /\ pc'[t] = p /\ work'[t] = w
         /\ \A u \in Threads \ {t} : pc'[u] = pc[u] /\ work'[u] = work[u]
BY DEF TypeOK, Go

LEMMA GoType ==
  ASSUME TypeOK, NEW t \in Threads, NEW w \in Work,
         NEW p \in RequesterPc \cup FadePc \cup AudioPc \cup MainPc, Go(t, p, w)
  PROVE  /\ pc' \in [Threads -> RequesterPc \cup FadePc \cup AudioPc \cup MainPc]
         /\ work' \in [Threads -> Work]
BY DEF TypeOK, Go

\* A step of one thread keeps the control of the others.
LEMMA ControlStep ==
  ASSUME TypeOK, ControlInv, NEW t \in Threads, NEW p, NEW w, Go(t, p, w), ThreadInv(t)',
         leaving' = leaving \/ t = Main
  PROVE  ControlInv'
<1> SUFFICES ASSUME NEW u \in Threads, u # t PROVE ThreadInv(u)'
  BY DEF ControlInv
<1>1. pc'[u] = pc[u] /\ work'[u] = work[u]
  BY GoFrame
<1>2. ThreadInv(u)
  BY DEF ControlInv
<1>3. u = Main => leaving' = leaving
  OBVIOUS
<1> QED
  BY <1>1, <1>2, <1>3 DEF ThreadInv, RequesterInv, FadeInv, AudioInv, MainInv, JobInv
\* Progress() and Agreed() of channels that a step leaves alone.
LEMMA ProgressFrame ==
  ASSUME NEW u \in Threads, NEW c \in Channels, Progress(u, c),
         pc'[u] = pc[u], work'[u] = work[u],
         want'[c] = want[c], stored'[c] = stored[c], frame'[c] = frame[c],
         enabled' = enabled, latest' = latest \/ latest' # "blackout"
  PROVE  Progress(u, c)'
BY DEF Progress, StoredBy, SentBy, EnabledChannels

LEMMA AgreedFrame ==
  ASSUME NEW c \in Channels, Agreed(c),
         want'[c] = want[c], stored'[c] = stored[c], frame'[c] = frame[c],
         enabled' = enabled, latest' = latest \/ latest' # "blackout"
  PROVE  Agreed(c)'
BY DEF Agreed, EnabledChannels

\* A step of the job of t: other jobs are not disturbed.
LEMMA ValuesStep ==
  ASSUME TypeOK, ValuesInv, NEW t \in Threads, NEW p, NEW w, Go(t, p, w),
         w.all \subseteq work[t].all,
         want' = want, contested \subseteq contested', enabled' = enabled, latest' = latest,
         \A c \in Channels \ work[t].all : stored'[c] = stored[c] /\ frame'[c] = frame[c],
         \A c \in Channels \ contested' : c \in w.all /\ Progress(t, c) => Progress(t, c)',
         \A c \in Channels \ contested' :
           c \in work[t].all \ w.all /\ Progress(t, c) => Agreed(c)'
  PROVE  ValuesInv'
<1> SUFFICES ASSUME NEW c \in Channels, c \notin contested'
             PROVE  /\ \A u, v \in Threads : c \in work'[u].all /\ c \in work'[v].all => u = v
                    /\ \A u \in Threads : c \in work'[u].all => Progress(u, c)'
                    /\ Unowned(c)' => Agreed(c)'
  BY DEF ValuesInv
<1>1. /\ \A u, v \in Threads : c \in work[u].all /\ c \in work[v].all => u = v
      /\ \A u \in Threads : c \in work[u].all => Progress(u, c)
      /\ Unowned(c) => Agreed(c)
  BY DEF ValuesInv
<1>2. pc'[t] = p /\ work'[t] = w
      /\ \A u \in Threads \ {t} : pc'[u] = pc[u] /\ work'[u] = work[u]
  BY GoFrame
<1>3. \A u \in Threads : c \in work'[u].all => c \in work[u].all
  BY <1>2
<1>4. \A u, v \in Threads : c \in work'[u].all /\ c \in work'[v].all => u = v
  BY <1>1, <1>3
<1>5. ASSUME NEW u \in Threads, c \in work'[u].all PROVE Progress(u, c)'
  <2>1. CASE u = t
    BY <2>1, <1>1, <1>2, <1>3, <1>5
  <2>2. CASE u # t
    <3>1. c \in work[u].all /\ c \notin work[t].all
      BY <2>2, <1>1, <1>3, <1>5
    <3>2. Progress(u, c)
      BY <3>1, <1>1
    <3> QED
      BY <2>2, <3>1, <3>2, <1>2, ProgressFrame
  <2> QED
    BY <2>1, <2>2
<1>6. ASSUME Unowned(c)' PROVE Agreed(c)'
  <2>1. \A u \in Threads : c \notin work'[u].all
    BY <1>6 DEF Unowned
  <2>2. CASE c \in work[t].all
    BY <2>1, <2>2, <1>1, <1>2
  <2>3. CASE c \notin work[t].all
    <3>1. Unowned(c)
      BY <2>1, <2>3, <1>2 DEF Unowned
    <3> QED
      BY <2>3, <3>1, <1>1, AgreedFrame
  <2> QED
    BY <2>2, <2>3
<1> QED
  BY <1>4, <1>5, <1>6

\* A thread that takes channels is the only one to write those not contested.
Takes(t, S) ==
  /\ want' \in Look /\ contested' \subseteq Channels
  /\ \A c \in S \ contested' : \A u \in Threads \ {t} : c \notin work[u].all
  /\ \A c \in Channels \ S : c \notin contested' => c \notin contested /\ want'[c] = want[c]

LEMMA BeginTakes ==
  ASSUME TypeOK, NEW t \in Threads, NEW S \in SUBSET Channels, NEW to \in Look, Begin(t, S, to)
  PROVE  Takes(t, S) /\ \A c \in S : want'[c] = to[c]
BY DEF TypeOK, Begin, Takes, Look

\* An idle thread begins a job on some channels.
LEMMA BeginStep ==
  ASSUME TypeOK, ValuesInv, NEW t \in Threads, NEW p, NEW w, NEW S \in SUBSET Channels,
         Go(t, p, w), Takes(t, S), w.all = S, work[t].all = {},
         stored' = stored, frame' = frame,
         enabled' = enabled \/ S = Channels,
         latest' = latest \/ latest' # "blackout" \/ S = Channels,
         \A c \in S \ contested' : Progress(t, c)'
  PROVE  ValuesInv'
<1> SUFFICES ASSUME NEW c \in Channels, c \notin contested'
             PROVE  /\ \A u, v \in Threads : c \in work'[u].all /\ c \in work'[v].all => u = v
                    /\ \A u \in Threads : c \in work'[u].all => Progress(u, c)'
                    /\ Unowned(c)' => Agreed(c)'
  BY DEF ValuesInv
<1>1. pc'[t] = p /\ work'[t] = w
      /\ \A u \in Threads \ {t} : pc'[u] = pc[u] /\ work'[u] = work[u]
  BY GoFrame
<1>2. CASE c \in S
  <2>1. \A u \in Threads \ {t} : c \notin work[u].all
    BY <1>2 DEF Takes
  <2>2. \A u \in Threads : c \in work'[u].all => u = t
    BY <2>1, <1>1
  <2>3. c \in work'[t].all
    BY <1>1, <1>2
  <2> QED
    BY <2>2, <2>3, <1>2 DEF Unowned
<1>3. CASE c \notin S
  <2>1. c \notin contested /\ want'[c] = want[c]
    BY <1>3 DEF Takes
  <2>2. enabled' = enabled /\ (latest' = latest \/ latest' # "blackout")
    BY <1>3
  <2>3. /\ \A u, v \in Threads : c \in work[u].all /\ c \in work[v].all => u = v
        /\ \A u \in Threads : c \in work[u].all => Progress(u, c)
        /\ Unowned(c) => Agreed(c)
    BY <2>1 DEF ValuesInv
  <2>4. \A u \in Threads : c \in work'[u].all => u # t /\ c \in work[u].all
    BY <1>1, <1>3
  <2>5. \A u, v \in Threads : c \in work'[u].all /\ c \in work'[v].all => u = v
    BY <2>3, <2>4
  <2>6. \A u \in Threads : c \in work'[u].all => Progress(u, c)'
    BY <2>1, <2>2, <2>3, <2>4, <1>1, ProgressFrame
  <2>7. Unowned(c)' => Unowned(c)
    BY <1>1, <1>3 DEF Unowned
  <2>8. Unowned(c)' => Agreed(c)'
    BY <2>1, <2>2, <2>3, <2>7, AgreedFrame
  <2> QED
    BY <2>5, <2>6, <2>8
<1> QED
  BY <1>2, <1>3

\* Requests that start no job.
LEMMA QuietStep ==
  ASSUME ValuesInv, pc' = pc, work' = work, stored' = stored, frame' = frame, want' = want,
         enabled' = enabled, contested' = contested, latest' = latest \/ latest' # "blackout"
  PROVE  ValuesInv'
<1> SUFFICES ASSUME NEW c \in Channels \ contested
             PROVE  /\ \A u \in Threads : c \in work[u].all => Progress(u, c)'
                    /\ Unowned(c)' => Agreed(c)'
  BY DEF ValuesInv
<1>1. \A u \in Threads : c \in work[u].all => Progress(u, c)'
  BY ProgressFrame DEF ValuesInv
<1>2. Unowned(c)' => Agreed(c)'
  BY AgreedFrame DEF ValuesInv, Unowned
<1> QED
  BY <1>1, <1>2

\* While anything but a clean shutdown goes on.
LEMMA NotClean ==
  ASSUME ~clean', \A f \in Fades : work'[f].token <= token'
  PROVE  ShutdownInv'
BY DEF ShutdownInv

\* Locals with a new set of channels to write.
LEMMA TodoType ==
  ASSUME NEW w \in Work, NEW T \in SUBSET Channels
  PROVE  /\ [w EXCEPT !.todo = T] \in Work
         /\ [w EXCEPT !.todo = T].op = w.op /\ [w EXCEPT !.todo = T].all = w.all
         /\ [w EXCEPT !.todo = T].todo = T /\ [w EXCEPT !.todo = T].out = w.out
         /\ [w EXCEPT !.todo = T].to = w.to /\ [w EXCEPT !.todo = T].from = w.from
         /\ [w EXCEPT !.todo = T].at = w.at /\ [w EXCEPT !.todo = T].token = w.token
BY DEF Work

LEMMA WorkFields ==
  ASSUME NEW w \in Work
  PROVE  /\ w.op \in Ops /\ w.all \subseteq Channels /\ w.todo \subseteq Channels
         /\ w.out \subseteq Channels /\ w.to \in Look /\ w.from \in Look
         /\ w.at \in 0 .. FadeSteps /\ w.token \in Nat
BY DEF Work

LEMMA LookExcept ==
  ASSUME NEW f \in Look, NEW c \in Channels, NEW x \in Values
  PROVE  /\ [f EXCEPT ![c] = x] \in Look
         /\ [f EXCEPT ![c] = x][c] = x
         /\ \A d \in Channels \ {c} : [f EXCEPT ![c] = x][d] = f[d]
BY DEF Look

\* What the steps within a job have in common.
PlainFrame == UNCHANGED <<enabled, scenes, reactive, token, leaving, history>>

LEMMA PlainStep ==
  ASSUME IInv, NEW t \in Threads, NEW w \in Work,
         NEW p \in RequesterPc \cup FadePc \cup AudioPc \cup MainPc,
         Go(t, p, w), PlainFrame, stored' \in Look, frame' \in Look,
         ThreadInv(t)', w.all \subseteq work[t].all, t \in Fades => w.token <= token,
         \A c \in Channels \ work[t].all : stored'[c] = stored[c] /\ frame'[c] = frame[c],
         \A c \in Channels \ contested : c \in w.all /\ Progress(t, c) => Progress(t, c)',
         \A c \in Channels \ contested :
           c \in work[t].all \ w.all /\ Progress(t, c) => Agreed(c)',
         clean => ShutdownInv'
  PROVE  IInv'
<1>1. TypeOK /\ ControlInv /\ ValuesInv /\ ShutdownInv
  BY DEF IInv
<1>2. /\ enabled' = enabled /\ scenes' = scenes /\ reactive' = reactive /\ token' = token
      /\ leaving' = leaving /\ spent' = spent /\ latest' = latest /\ want' = want
      /\ contested' = contested /\ clean' = clean
  BY DEF PlainFrame, history
<1>3. TypeOK'
  <2>1. /\ pc' \in [Threads -> RequesterPc \cup FadePc \cup AudioPc \cup MainPc]
        /\ work' \in [Threads -> Work]
    BY <1>1, GoType
  <2> QED
    BY <1>1, <1>2, <2>1 DEF TypeOK
<1>4. ControlInv'
  BY <1>1, <1>2, ControlStep
<1>5. ValuesInv'
  BY <1>1, <1>2, ValuesStep
<1>6. ShutdownInv'
  <2>1. \A f \in Fades : work'[f].token <= token'
    BY <1>1, <1>2, GoFrame DEF ShutdownInv, Threads
  <2> QED
    BY <1>2, <2>1, NotClean DEF TypeOK
<1> QED
  BY <1>3, <1>4, <1>5, <1>6 DEF IInv

\* No request is served after a shutdown that began clean.
LEMMA BusyNotClean ==
  ASSUME IInv, NEW r \in Requesters, pc[r] # "idle"
  PROVE  ~clean
BY DEF IInv, ShutdownInv

\* What is known of a thread.
LEMMA ThreadFacts ==
  ASSUME IInv, NEW t \in Threads
  PROVE  /\ work[t] \in Work /\ ThreadInv(t)
         /\ pc[t] \in RequesterPc \cup FadePc \cup AudioPc \cup MainPc
         /\ stored \in Look /\ frame \in Look /\ want \in Look /\ token \in Nat
         /\ t \in Fades => work[t].token <= token
         /\ t \notin Fades => t \in Requesters \/ t = Audio \/ t = Main
BY DEF IInv, TypeOK, ControlInv, ShutdownInv, Threads

-----------------------------------------------------------------------------
(***************************************************************************)
(* The loops of the handlers                                               *)
(***************************************************************************)

LEMMA StoreChannelStep ==
  ASSUME IInv, NEW t \in Threads, StoreChannel(t)
  PROVE  IInv'
<1> DEFINE w == work[t]
           c == Least(w.todo)
<1>1. /\ w \in Work /\ ThreadInv(t)
      /\ stored \in Look /\ frame \in Look /\ want \in Look /\ token \in Nat
      /\ t \in Fades => w.token <= token
      /\ t \notin Fades => t \in Requesters \/ t = Main
  BY ThreadFacts DEF StoreChannel
<1>2. pc[t] = "store" /\ t # Audio /\ PlainFrame /\ frame' = frame
      /\ stored' = [stored EXCEPT ![c] = w.to[c]]
  BY DEF StoreChannel, PlainFrame
<1>3. w.op \in {"set", "blackout", "instant", "fade", "persist"}
  BY <1>1, <1>2, Constants DEF ThreadInv, RequesterInv, FadeInv, MainInv
<1>4. w.todo # {} /\ w.todo \subseteq w.all /\ w.todo \subseteq Channels /\ w.all \subseteq Channels
      /\ w.to \in Look
  BY <1>1, <1>2, WorkFields DEF ThreadInv, JobInv
<1>5. c \in w.todo /\ c \in Channels /\ w.to[c] \in Values
  BY <1>4, LeastChannel DEF Look
<1>6. /\ stored' \in Look /\ stored'[c] = w.to[c]
      /\ \A d \in Channels \ {c} : stored'[d] = stored[d]
  BY <1>1, <1>2, <1>5 DEF Look
<1>7. \A d \in Channels \ w.all : stored'[d] = stored[d] /\ frame'[d] = frame[d]
  BY <1>2, <1>4, <1>5, <1>6
<1>8. t \in Requesters => ~clean
  BY <1>2, BusyNotClean
<1>9. t \in Fades => ~clean
  BY <1>2 DEF IInv, ShutdownInv
<1>10. want' = want /\ latest' = latest /\ enabled' = enabled
  BY <1>2 DEF PlainFrame, history
<1>11. CASE w.op # "instant"
  <2>1. Go(t, "set", w)
    BY <1>11 DEF StoreChannel
  <2>2. pc'[t] = "set" /\ work'[t] = w
    BY <2>1, GoFrame DEF IInv
  <2>3. ThreadInv(t)'
    BY <1>1, <1>2, <1>3, <1>11, <2>2, Constants
       DEF ThreadInv, RequesterInv, FadeInv, AudioInv, MainInv, JobInv, FadePc, RequesterPc, MainPc
  <2>4. \A d \in Channels \ contested : d \in w.all /\ Progress(t, d) => Progress(t, d)'
    <3> SUFFICES ASSUME NEW d \in Channels, d \in w.all, Progress(t, d) PROVE Progress(t, d)'
      OBVIOUS
    <3>1. want[d] = w.to[d] /\ w.op # "patch" /\ w.op # "rebuild"
      BY <1>3 DEF Progress
    <3>2. d \in StoredBy(t)' => d \in StoredBy(t) \/ d = c
      BY <1>2, <1>3, <1>11, <2>2 DEF StoredBy
    <3>3. d \in SentBy(t)' => d \in SentBy(t)
      BY <1>2, <1>3, <1>11, <2>2 DEF SentBy
    <3>4. d \in StoredBy(t)' => stored'[d] = w.to[d]
      BY <1>6, <3>1, <3>2 DEF Progress
    <3>5. d \in SentBy(t)' => frame'[d] = w.to[d]
      BY <1>2, <3>1, <3>3 DEF Progress
    <3> QED
      BY <1>10, <2>2, <3>1, <3>4, <3>5 DEF Progress
  <2>5. clean => ShutdownInv'
    <3> SUFFICES ASSUME clean, t = Main PROVE ShutdownInv'
      BY <1>1, <1>8, <1>9
    <3>1. ShutdownInv
      BY DEF IInv
    <3>2. \A u \in Threads \ {Main} : pc'[u] = pc[u] /\ work'[u] = work[u]
      BY <2>1, GoFrame DEF IInv
    <3>3. w.to = Black
      BY <1>1, <1>2, Constants DEF ThreadInv, MainInv, JobInv
    <3>4. stored'[c] = 0
      BY <1>5, <1>6, <3>3 DEF Black
    <3>5. token' = token /\ leaving' = leaving /\ clean' = clean
      BY <1>2 DEF PlainFrame, history
    <3> QED
      BY <1>2, <1>6, <2>2, <3>1, <3>2, <3>4, <3>5, Constants, ZenonT(30) DEF ShutdownInv, Threads
  <2> QED
    BY <1>1, <1>2, <1>6, <1>7, <2>1, <2>3, <2>4, <2>5, PlainStep DEF RequesterPc
<1>12. CASE w.op = "instant" /\ w.todo # {c}
  <2> DEFINE x == [w EXCEPT !.todo = w.todo \ {c}]
  <2>0. w.todo \ {c} \in SUBSET Channels /\ w.todo \ {c} # {}
    BY <1>4, <1>5, <1>12
  <2>1. Go(t, "store", x)
    BY <1>12, <2>0 DEF StoreChannel, Proceed
  <2>2. x \in Work /\ x.op = w.op /\ x.all = w.all /\ x.todo = w.todo \ {c} /\ x.out = w.out
        /\ x.to = w.to /\ x.token = w.token
    BY <1>1, <2>0, TodoType
  <2>3. pc'[t] = "store" /\ work'[t] = x
    BY <2>1, GoFrame DEF IInv
  <2>4. t \in Requesters
    BY <1>1, <1>2, <1>12, Constants DEF ThreadInv, FadeInv, MainInv
  <2>5. ThreadInv(t)'
    BY <1>1, <1>2, <1>12, <2>0, <2>2, <2>3, <2>4, Constants DEF ThreadInv, RequesterInv, JobInv
  <2>6. \A d \in Channels \ contested : d \in x.all /\ Progress(t, d) => Progress(t, d)'
    <3> SUFFICES ASSUME NEW d \in Channels, d \in w.all, Progress(t, d) PROVE Progress(t, d)'
      BY <2>2
    <3>1. want[d] = w.to[d]
      BY <1>12 DEF Progress
    <3>2. d \in StoredBy(t)' => stored'[d] = w.to[d]
      BY <1>2, <1>6, <1>12, <2>2, <2>3 DEF Progress, StoredBy
    <3>3. d \in SentBy(t)' => frame'[d] = w.to[d]
      BY <1>2, <1>12, <2>2, <2>3 DEF Progress, SentBy
    <3> QED
      BY <1>10, <1>12, <2>2, <2>3, <3>1, <3>2, <3>3 DEF Progress
  <2> HIDE DEF x
  <2> QED
    BY <1>1, <1>2, <1>6, <1>7, <1>8, <2>1, <2>2, <2>4, <2>5, <2>6, PlainStep DEF RequesterPc
<1>13. CASE w.op = "instant" /\ w.todo = {c}
  <2>1. t \in Requesters
    BY <1>1, <1>2, <1>13, Constants DEF ThreadInv, FadeInv, MainInv
  <2>2. Go(t, "idle", NoWork)
    BY <1>2, <1>13, <2>1, Constants DEF StoreChannel, Proceed, LoopEnd, Finish
  <2>3. pc'[t] = "idle" /\ work'[t] = NoWork
    BY <2>2, GoFrame DEF IInv
  <2>4. ThreadInv(t)'
    BY <2>1, <2>3, Constants, NoWorkType DEF ThreadInv, RequesterInv, RequesterPc, JobInv
  <2>5. \A d \in Channels \ contested : d \in work[t].all \ NoWork.all /\ Progress(t, d) => Agreed(d)'
    BY <1>2, <1>6, <1>10, <1>13 DEF Progress, StoredBy, SentBy, Agreed
  <2>6. NoWork \in Work /\ NoWork.all = {} /\ NoWork.token = 0
    BY NoWorkType
  <2> QED
    BY <1>1, <1>2, <1>6, <1>7, <1>8, <2>1, <2>2, <2>4, <2>5, <2>6, Constants,
       PlainStep DEF RequesterPc
<1> QED
  BY <1>11, <1>12, <1>13

LEMMA SetChannelStep ==
  ASSUME IInv, NEW t \in Threads, SetChannel(t)
  PROVE  IInv'
<1> DEFINE w == work[t]
           c == Least(w.todo)
           left == w.todo \ {c}
<1>1. /\ w \in Work /\ ThreadInv(t)
      /\ stored \in Look /\ frame \in Look /\ want \in Look /\ token \in Nat
      /\ t \in Fades => w.token <= token
      /\ t \notin Fades => t \in Requesters \/ t = Audio \/ t = Main
  BY ThreadFacts
<1>2. /\ pc[t] = "set" /\ PlainFrame /\ stored' = stored
      /\ frame' = [frame EXCEPT ![c] = w.to[c]]
      /\ Proceed(t, "store", left)
  BY DEF SetChannel, PlainFrame, database
<1>3. t # Audio
  BY <1>1, <1>2 DEF ThreadInv, AudioInv, AudioPc
<1>4. \/ t \in Requesters /\ w.op \in {"set", "blackout"}
      \/ t \in Fades /\ w.op = "fade"
      \/ t = Main /\ w.op = "persist"
  BY <1>1, <1>2, <1>3, Constants DEF ThreadInv, RequesterInv, FadeInv, MainInv
<1>5. w.todo # {} /\ w.todo \subseteq w.all /\ w.todo \subseteq Channels /\ w.all \subseteq Channels
      /\ w.to \in Look
  BY <1>1, <1>2, <1>3, WorkFields DEF ThreadInv, JobInv
<1>6. c \in w.todo /\ c \in Channels /\ w.to[c] \in Values
  BY <1>5, LeastChannel DEF Look
<1>7. /\ frame' \in Look /\ frame'[c] = w.to[c]
      /\ \A d \in Channels \ {c} : frame'[d] = frame[d]
  BY <1>1, <1>2, <1>6 DEF Look
<1>8. \A d \in Channels \ w.all : stored'[d] = stored[d] /\ frame'[d] = frame[d]
  BY <1>2, <1>5, <1>6, <1>7
<1>9. t \in Requesters \cup Fades => ~clean
  BY <1>2, BusyNotClean DEF IInv, ShutdownInv
<1>10. want' = want /\ latest' = latest /\ enabled' = enabled
       /\ token' = token /\ leaving' = leaving /\ clean' = clean
  BY <1>2 DEF PlainFrame, history
<1>11. \A d \in Channels \ contested : d \in w.all /\ Progress(t, d) =>
         /\ want[d] = w.to[d]
         /\ d \notin w.todo \/ d = c => stored[d] = w.to[d]
         /\ d \notin w.todo /\ w.op # "blackout" => frame[d] = w.to[d]
  BY <1>2, <1>4 DEF Progress, StoredBy, SentBy
<1>12. t = Main /\ clean => \A d \in Channels \ left : stored'[d] = 0
  BY <1>2, <1>5, <1>6 DEF IInv, ShutdownInv
<1>13. CASE left # {}
  <2> DEFINE x == [w EXCEPT !.todo = left]
  <2>1. Go(t, "store", x)
    BY <1>2, <1>13 DEF Proceed
  <2>2. x \in Work /\ x.op = w.op /\ x.all = w.all /\ x.todo = left /\ x.out = w.out
        /\ x.to = w.to /\ x.token = w.token
    BY <1>1, <1>5, TodoType
  <2> HIDE DEF x
  <2>3. /\ pc'[t] = "store" /\ work'[t] = x
        /\ \A u \in Threads \ {t} : pc'[u] = pc[u] /\ work'[u] = work[u]
    BY <2>1, GoFrame DEF IInv
  <2>4. ThreadInv(t)'
    BY <1>1, <1>2, <1>4, <1>13, <2>2, <2>3, Constants
       DEF ThreadInv, RequesterInv, FadeInv, MainInv, JobInv, FadePc, RequesterPc, MainPc
  <2>5. \A d \in Channels \ contested : d \in x.all /\ Progress(t, d) => Progress(t, d)'
    <3> SUFFICES ASSUME NEW d \in Channels \ contested, d \in w.all, Progress(t, d)
                 PROVE  Progress(t, d)'
      BY <2>2
    <3>1. /\ want[d] = w.to[d]
          /\ d \notin w.todo \/ d = c => stored[d] = w.to[d]
          /\ d \notin w.todo /\ w.op # "blackout" => frame[d] = w.to[d]
      BY <1>11
    <3>2. d \in StoredBy(t)' => stored'[d] = w.to[d]
      BY <1>2, <1>4, <2>2, <2>3, <3>1 DEF StoredBy
    <3>3. d \in SentBy(t)' => frame'[d] = w.to[d]
      BY <1>2, <1>4, <1>7, <2>2, <2>3, <3>1 DEF SentBy
    <3> QED
      BY <1>4, <1>10, <2>2, <2>3, <3>1, <3>2, <3>3 DEF Progress
  <2>6. clean => ShutdownInv'
    <3> SUFFICES ASSUME clean, t = Main PROVE ShutdownInv'
      BY <1>4, <1>9
    <3> QED
      BY <1>2, <1>10, <1>12, <2>2, <2>3, Constants, ZenonT(30) DEF IInv, ShutdownInv, Threads
  <2> QED
    BY <1>1, <1>2, <1>7, <1>8, <2>1, <2>2, <2>4, <2>5, <2>6, PlainStep DEF RequesterPc
<1>14. CASE left = {} /\ w.op = "blackout"
  <2> DEFINE x == [w EXCEPT !.todo = Channels]
  <2>1. Go(t, "clear", x)
    BY <1>2, <1>14 DEF Proceed, LoopEnd
  <2>2. x \in Work /\ x.op = w.op /\ x.all = w.all /\ x.todo = Channels /\ x.out = w.out
        /\ x.to = w.to /\ x.token = w.token
    BY <1>1, <1>5, TodoType
  <2> HIDE DEF x
  <2>3. pc'[t] = "clear" /\ work'[t] = x
    BY <2>1, GoFrame DEF IInv
  <2>4. t \in Requesters /\ w.all = Channels /\ w.to = Black
    BY <1>1, <1>4, <1>14 DEF ThreadInv, JobInv
  <2>5. ThreadInv(t)'
    BY <1>1, <1>14, <2>2, <2>3, <2>4, Constants DEF ThreadInv, RequesterInv, RequesterPc, JobInv
  <2>6. \A d \in Channels \ contested : d \in x.all /\ Progress(t, d) => Progress(t, d)'
    <3> SUFFICES ASSUME NEW d \in Channels \ contested, d \in w.all, Progress(t, d)
                 PROVE  Progress(t, d)'
      BY <2>2
    <3>1. want[d] = w.to[d] /\ stored[d] = w.to[d]
      BY <1>11, <1>14
    <3>2. d \notin SentBy(t)'
      BY <1>14, <2>2, <2>3, <2>4 DEF SentBy
    <3> QED
      BY <1>2, <1>10, <1>14, <2>2, <2>3, <3>1, <3>2 DEF Progress
  <2> QED
    BY <1>1, <1>2, <1>7, <1>8, <1>9, <2>1, <2>2, <2>4, <2>5, <2>6, Constants, PlainStep
       DEF RequesterPc
<1>15. CASE left = {} /\ w.op # "blackout"
  <2> DEFINE p == IF t = Main THEN "halt" ELSE IF t \in Fades THEN "off" ELSE "idle"
  <2>1. Go(t, p, NoWork)
    BY <1>2, <1>4, <1>15, Constants DEF Proceed, LoopEnd, Finish
  <2>2. /\ pc'[t] = p /\ work'[t] = NoWork
        /\ \A u \in Threads \ {t} : pc'[u] = pc[u] /\ work'[u] = work[u]
    BY <2>1, GoFrame DEF IInv
  <2>3. ThreadInv(t)'
    BY <1>4, <2>2, Constants, NoWorkType
       DEF ThreadInv, RequesterInv, RequesterPc, FadeInv, FadePc, MainInv, MainPc, JobInv
  <2>4. \A d \in Channels \ contested : d \in work[t].all \ NoWork.all /\ Progress(t, d) => Agreed(d)'
    BY <1>2, <1>7, <1>10, <1>11, <1>15 DEF Agreed
  <2>5. clean => ShutdownInv'
    <3> SUFFICES ASSUME clean, t = Main PROVE ShutdownInv'
      BY <1>4, <1>9
    <3>1. stored' = Black
      BY <1>1, <1>2, <1>12, <1>15 DEF Black, Look
    <3> QED
      BY <1>2, <1>10, <2>2, <3>1, Constants DEF IInv, ShutdownInv, Threads
  <2>6. NoWork \in Work /\ NoWork.all = {} /\ NoWork.token = 0
    BY NoWorkType
  <2>7. p \in RequesterPc \cup FadePc \cup AudioPc \cup MainPc
    BY DEF RequesterPc, FadePc, MainPc
  <2>8. NoWork.all \subseteq work[t].all /\ (t \in Fades => NoWork.token <= token)
    BY <1>1, <2>6
  <2>9. stored' \in Look /\ frame' \in Look
    BY <1>1, <1>2, <1>7
  <2>10. \A d \in Channels \ contested : d \in NoWork.all /\ Progress(t, d) => Progress(t, d)'
    BY <2>6
  <2> HIDE DEF p
  <2> QED
    BY <1>2, <1>8, <2>1, <2>3, <2>4, <2>5, <2>6, <2>7, <2>8, <2>9, <2>10, PlainStep
<1> QED
  BY <1>13, <1>14, <1>15

\* The last step of a job.
LEMMA EndStep ==
  ASSUME IInv, NEW t \in Threads,
         NEW p \in RequesterPc \cup FadePc \cup AudioPc \cup MainPc,
         Go(t, p, NoWork), PlainFrame, stored' \in Look, frame' \in Look,
         ThreadInv(t)',
         \A c \in Channels \ work[t].all : stored'[c] = stored[c] /\ frame'[c] = frame[c],
         \A c \in Channels \ contested : c \in work[t].all /\ Progress(t, c) => Agreed(c)',
         clean => ShutdownInv'
  PROVE  IInv'
<1>1. NoWork \in Work /\ NoWork.all = {} /\ NoWork.token = 0
  BY NoWorkType
<1>2. NoWork.all \subseteq work[t].all /\ (t \in Fades => NoWork.token <= token)
  BY <1>1, ThreadFacts
<1>3. \A c \in Channels \ contested : c \in NoWork.all /\ Progress(t, c) => Progress(t, c)'
  BY <1>1
<1>4. \A c \in Channels \ contested :
        c \in work[t].all \ NoWork.all /\ Progress(t, c) => Agreed(c)'
  OBVIOUS
<1> QED
  BY <1>1, <1>2, <1>3, <1>4, PlainStep

\* What is known of an HTTP thread that serves a request.
LEMMA RequesterFacts ==
  ASSUME IInv, NEW r \in Requesters, pc[r] # "idle"
  PROVE  /\ r \in Threads /\ r \notin Fades /\ r # Audio /\ r # Main
         /\ work[r] \in Work /\ RequesterInv(r) /\ JobInv(r)
         /\ work[r].all \subseteq Channels /\ work[r].todo \subseteq Channels
         /\ work[r].to \in Look
         /\ stored \in Look /\ frame \in Look
         /\ ~clean
<1>1. r \in Threads /\ r \notin Fades /\ r # Audio /\ r # Main
  BY Constants DEF Threads
<1> QED
  BY <1>1, ThreadFacts, BusyNotClean, WorkFields DEF ThreadInv

LEMMA PlainFrameIs ==
  ASSUME PlainFrame
  PROVE  /\ enabled' = enabled /\ want' = want /\ latest' = latest /\ token' = token
         /\ contested' = contested /\ leaving' = leaving /\ clean' = clean
BY DEF PlainFrame, history

LEMMA WriteChannelStep ==
  ASSUME IInv, NEW r \in Requesters, WriteChannel(r)
  PROVE  IInv'
<1> DEFINE w == work[r]
           c == Least(w.todo)
           left == w.todo \ {c}
<1>1. /\ pc[r] = "write" /\ PlainFrame /\ stored' = stored
      /\ frame' = [frame EXCEPT ![c] = w.to[c]]
      /\ Proceed(r, "write", left)
  BY DEF WriteChannel, PlainFrame, database
<1>2. /\ r \in Threads /\ r \notin Fades /\ r # Audio /\ r # Main
      /\ w \in Work /\ RequesterInv(r) /\ JobInv(r)
      /\ w.all \subseteq Channels /\ w.todo \subseteq Channels /\ w.to \in Look
      /\ stored \in Look /\ frame \in Look
      /\ ~clean
  BY <1>1, RequesterFacts
<1>3. w.op \in {"patch", "instant"} /\ w.todo # {} /\ w.todo \subseteq w.all
  BY <1>1, <1>2 DEF RequesterInv, JobInv
<1>4. c \in w.todo /\ c \in Channels /\ w.to[c] \in Values
  BY <1>2, <1>3, LeastChannel DEF Look
<1>5. /\ frame' \in Look /\ frame'[c] = w.to[c]
      /\ \A d \in Channels \ {c} : frame'[d] = frame[d]
  BY <1>1, <1>2, <1>4 DEF Look
<1>6. \A d \in Channels \ w.all : stored'[d] = stored[d] /\ frame'[d] = frame[d]
  BY <1>1, <1>3, <1>4, <1>5
<1>7. \A d \in Channels \ contested : d \in w.all /\ Progress(r, d) =>
        /\ w.op = "instant" /\ want[d] = w.to[d]
        /\ d \notin left => frame'[d] = w.to[d]
  BY <1>1, <1>3, <1>5 DEF Progress, SentBy
<1>8. enabled' = enabled /\ want' = want /\ latest' = latest
  BY <1>1, PlainFrameIs
<1>9. CASE left # {} \/ w.op = "instant"
  <2> DEFINE p == IF left # {} THEN "write" ELSE "store"
             T == IF left # {} THEN left ELSE w.all
             x == [w EXCEPT !.todo = T]
  <2>1. Go(r, p, x)
    BY <1>1, <1>9 DEF Proceed, LoopEnd
  <2>2. T \in SUBSET Channels /\ T \subseteq w.all /\ T # {}
    BY <1>2, <1>3, <1>9
  <2>3. x \in Work /\ x.op = w.op /\ x.all = w.all /\ x.todo = T /\ x.out = w.out
        /\ x.to = w.to
    BY <1>2, <2>2, TodoType
  <2> HIDE DEF x
  <2>4. pc'[r] = p /\ work'[r] = x
    BY <1>2, <2>1, GoFrame DEF IInv
  <2>5. p \in RequesterPc
    BY DEF RequesterPc
  <2>6. ThreadInv(r)'
    BY <1>2, <1>3, <1>9, <2>2, <2>3, <2>4, <2>5 DEF ThreadInv, RequesterInv, JobInv
  <2>7. \A d \in Channels \ contested : d \in x.all /\ Progress(r, d) => Progress(r, d)'
    BY <1>7, <1>8, <2>3, <2>4 DEF Progress, StoredBy, SentBy
  <2> HIDE DEF p, T
  <2> QED
    BY <1>1, <1>2, <1>5, <1>6, <2>1, <2>3, <2>5, <2>6, <2>7, PlainStep
<1>10. CASE left = {} /\ w.op = "patch"
  <2>1. Go(r, "idle", NoWork)
    BY <1>1, <1>2, <1>10 DEF Proceed, LoopEnd, Finish
  <2>2. pc'[r] = "idle" /\ work'[r] = NoWork
    BY <1>2, <2>1, GoFrame DEF IInv
  <2>3. ThreadInv(r)'
    BY <1>2, <2>2, NoWorkType DEF ThreadInv, RequesterInv, RequesterPc, JobInv
  <2>4. \A d \in Channels \ contested : d \in work[r].all /\ Progress(r, d) => Agreed(d)'
    BY <1>7, <1>10
  <2> QED
    BY <1>1, <1>2, <1>5, <1>6, <2>1, <2>3, <2>4, EndStep DEF RequesterPc
<1> QED
  BY <1>3, <1>9, <1>10

LEMMA LoadUniverseStep ==
  ASSUME IInv, NEW r \in Requesters, LoadUniverse(r)
  PROVE  IInv'
<1> DEFINE w == work[r]
           x == [w EXCEPT !.to = Patched(stored)]
<1>1. pc[r] = "load" /\ PlainFrame /\ stored' = stored /\ frame' = frame /\ Go(r, "replace", x)
  BY DEF LoadUniverse, PlainFrame, database
<1>2. /\ r \in Threads /\ r \notin Fades /\ r # Audio /\ r # Main
      /\ w \in Work /\ RequesterInv(r) /\ JobInv(r)
      /\ stored \in Look /\ frame \in Look
      /\ ~clean
  BY <1>1, RequesterFacts
<1>3. w.op = "rebuild" /\ w.all = Channels
  BY <1>1, <1>2 DEF RequesterInv, JobInv
<1>4. Patched(stored) \in Look /\ \A d \in EnabledChannels : Patched(stored)[d] = stored[d]
  BY <1>2, Looks DEF Patched, EnabledChannels
<1>5. x \in Work /\ x.op = w.op /\ x.all = w.all /\ x.todo = w.todo /\ x.out = w.out
      /\ x.to = Patched(stored)
  BY <1>2, <1>4 DEF Work
<1> HIDE DEF x
<1>6. pc'[r] = "replace" /\ work'[r] = x
  BY <1>1, <1>2, GoFrame DEF IInv
<1>7. ThreadInv(r)'
  BY <1>2, <1>3, <1>5, <1>6 DEF ThreadInv, RequesterInv, RequesterPc, JobInv
<1>8. enabled' = enabled /\ want' = want /\ latest' = latest
  BY <1>1, PlainFrameIs
<1>9. \A d \in Channels \ contested : d \in x.all /\ Progress(r, d) => Progress(r, d)'
  BY <1>1, <1>3, <1>4, <1>5, <1>6, <1>8 DEF Progress, EnabledChannels
<1> QED
  BY <1>1, <1>2, <1>5, <1>7, <1>9, PlainStep DEF RequesterPc

LEMMA ReplaceUniverseStep ==
  ASSUME IInv, NEW r \in Requesters, ReplaceUniverse(r)
  PROVE  IInv'
<1> DEFINE w == work[r]
           S == FirstUniverse(w.todo)
           left == w.todo \ S
<1>1. /\ pc[r] = "replace" /\ PlainFrame /\ stored' = stored
      /\ frame' = [d \in Channels |-> IF d \in S THEN w.to[d] ELSE frame[d]]
      /\ Proceed(r, "load", left)
  BY DEF ReplaceUniverse, PlainFrame, database
<1>2. /\ r \in Threads /\ r \notin Fades /\ r # Audio /\ r # Main
      /\ w \in Work /\ RequesterInv(r) /\ JobInv(r)
      /\ w.todo \subseteq Channels /\ w.to \in Look
      /\ stored \in Look /\ frame \in Look
      /\ ~clean
  BY <1>1, RequesterFacts
<1>3. w.op = "rebuild" /\ w.all = Channels
  BY <1>1, <1>2 DEF RequesterInv, JobInv
<1>4. frame' \in Look
  BY <1>1, <1>2 DEF Look
<1>5. \A d \in Channels \ w.all : stored'[d] = stored[d] /\ frame'[d] = frame[d]
  BY <1>3
<1>6. enabled' = enabled /\ want' = want /\ latest' = latest
  BY <1>1, PlainFrameIs
<1>7. \A d \in Channels \ contested : Progress(r, d) =>
        /\ latest # "blackout" /\ stored[d] = want[d]
        /\ d \in EnabledChannels /\ d \notin left => frame'[d] = stored[d]
  BY <1>1, <1>3 DEF Progress
<1>8. CASE left # {}
  <2> DEFINE x == [w EXCEPT !.todo = left]
  <2>1. Go(r, "load", x)
    BY <1>1, <1>8 DEF Proceed
  <2>2. x \in Work /\ x.op = w.op /\ x.all = w.all /\ x.todo = left /\ x.out = w.out
    BY <1>2, TodoType
  <2> HIDE DEF x
  <2>3. pc'[r] = "load" /\ work'[r] = x
    BY <1>2, <2>1, GoFrame DEF IInv
  <2>4. ThreadInv(r)'
    BY <1>2, <1>3, <2>2, <2>3 DEF ThreadInv, RequesterInv, RequesterPc, JobInv
  <2>5. \A d \in Channels \ contested : d \in x.all /\ Progress(r, d) => Progress(r, d)'
    BY <1>1, <1>3, <1>6, <1>7, <2>2, <2>3 DEF Progress, EnabledChannels
  <2> QED
    BY <1>1, <1>2, <1>4, <1>5, <2>1, <2>2, <2>4, <2>5, PlainStep DEF RequesterPc
<1>9. CASE left = {}
  <2>1. Go(r, "idle", NoWork)
    BY <1>1, <1>2, <1>3, <1>9 DEF Proceed, LoopEnd, Finish
  <2>2. pc'[r] = "idle" /\ work'[r] = NoWork
    BY <1>2, <2>1, GoFrame DEF IInv
  <2>3. ThreadInv(r)'
    BY <1>2, <2>2, NoWorkType DEF ThreadInv, RequesterInv, RequesterPc, JobInv
  <2>4. \A d \in Channels \ contested : d \in work[r].all /\ Progress(r, d) => Agreed(d)'
    BY <1>1, <1>6, <1>7, <1>9 DEF Agreed, EnabledChannels
  <2> QED
    BY <1>1, <1>2, <1>4, <1>5, <2>1, <2>3, <2>4, EndStep DEF RequesterPc
<1> QED
  BY <1>8, <1>9

LEMMA BlackoutListStep ==
  ASSUME IInv, NEW r \in Requesters, BlackoutList(r)
  PROVE  IInv'
<1> DEFINE w == work[r]
           p == IF Lit = {} THEN "clear" ELSE "store"
           T == IF Lit = {} THEN Channels ELSE Lit
           x == [w EXCEPT !.todo = T]
<1>1. pc[r] = "list" /\ w.op = "blackout" /\ PlainFrame /\ stored' = stored /\ frame' = frame
  BY DEF BlackoutList, PlainFrame, database
<1>2. Go(r, p, x)
  BY <1>1 DEF BlackoutList, LoopEnd
<1>3. /\ r \in Threads /\ r \notin Fades /\ r # Audio /\ r # Main
      /\ w \in Work /\ RequesterInv(r) /\ JobInv(r)
      /\ stored \in Look /\ frame \in Look
      /\ ~clean
  BY <1>1, RequesterFacts
<1>4. w.all = Channels /\ w.to = Black
  BY <1>1, <1>3 DEF JobInv
<1>5. T \in SUBSET Channels /\ (p = "store" => T # {})
  BY DEF Lit
<1>6. x \in Work /\ x.op = w.op /\ x.all = w.all /\ x.todo = T /\ x.out = w.out
      /\ x.to = w.to
  BY <1>3, <1>5, TodoType
<1> HIDE DEF x
<1>7. pc'[r] = p /\ work'[r] = x
  BY <1>2, <1>3, GoFrame DEF IInv
<1>8. p \in RequesterPc /\ p \in {"clear", "store"}
  BY DEF RequesterPc
<1>9. ThreadInv(r)'
  <2>1. RequesterInv(r)'
    BY <1>1, <1>6, <1>7, <1>8 DEF RequesterInv
  <2>2. JobInv(r)'
    BY <1>1, <1>3, <1>4, <1>5, <1>6, <1>7 DEF JobInv
  <2> QED
    BY <1>3, <2>1, <2>2 DEF ThreadInv
<1>10. \A d \in Channels \ contested : d \in x.all /\ Progress(r, d) => Progress(r, d)'
  <2> SUFFICES ASSUME NEW d \in Channels \ contested, Progress(r, d) PROVE Progress(r, d)'
    OBVIOUS
  <2>1. want'[d] = w.to[d]
    BY <1>1, PlainFrameIs DEF Progress
  <2>2. d \in StoredBy(r)' => d \notin Lit
    BY <1>1, <1>6, <1>7 DEF StoredBy
  <2>3. d \in StoredBy(r)' => stored'[d] = w.to[d]
    BY <1>1, <1>4, <2>2 DEF Lit, Black
  <2>4. d \notin SentBy(r)'
    BY <1>1, <1>4, <1>6, <1>7 DEF SentBy
  <2> QED
    BY <1>1, <1>6, <1>7, <2>1, <2>3, <2>4 DEF Progress
<1> HIDE DEF p, T
<1> QED
  BY <1>1, <1>2, <1>3, <1>6, <1>8, <1>9, <1>10, PlainStep

LEMMA ClearUniverseStep ==
  ASSUME IInv, NEW r \in Requesters, ClearUniverse(r)
  PROVE  IInv'
<1> DEFINE w == work[r]
           S == FirstUniverse(w.todo)
           left == w.todo \ S
           p == IF left = {} THEN "calm" ELSE "clear"
           x == [w EXCEPT !.todo = left]
<1>1. /\ pc[r] = "clear" /\ PlainFrame /\ stored' = stored
      /\ frame' = [d \in Channels |-> IF d \in S THEN 0 ELSE frame[d]]
      /\ Go(r, p, x)
  BY DEF ClearUniverse, PlainFrame, database
<1>2. /\ r \in Threads /\ r \notin Fades /\ r # Audio /\ r # Main
      /\ w \in Work /\ RequesterInv(r) /\ JobInv(r)
      /\ w.todo \subseteq Channels
      /\ stored \in Look /\ frame \in Look
      /\ ~clean
  BY <1>1, RequesterFacts
<1>3. w.op = "blackout" /\ w.all = Channels /\ w.to = Black
  BY <1>1, <1>2 DEF RequesterInv, JobInv
<1>4. frame' \in Look
  BY <1>1, <1>2, Constants DEF Look, Values
<1>5. x \in Work /\ x.op = w.op /\ x.all = w.all /\ x.todo = left /\ x.out = w.out
      /\ x.to = w.to
  BY <1>2, TodoType
<1> HIDE DEF x
<1>6. pc'[r] = p /\ work'[r] = x
  BY <1>1, <1>2, GoFrame DEF IInv
<1>7. p \in RequesterPc /\ p \in {"clear", "calm"}
  BY DEF RequesterPc
<1>8. ThreadInv(r)'
  BY <1>2, <1>3, <1>5, <1>6, <1>7 DEF ThreadInv, RequesterInv, JobInv
<1>9. \A d \in Channels \ contested : d \in x.all /\ Progress(r, d) => Progress(r, d)'
  <2> SUFFICES ASSUME NEW d \in Channels \ contested, Progress(r, d) PROVE Progress(r, d)'
    OBVIOUS
  <2>1. want'[d] = w.to[d] /\ stored'[d] = w.to[d]
    BY <1>1, <1>3, PlainFrameIs DEF Progress, StoredBy
  <2>2. d \notin left => frame'[d] = w.to[d]
    BY <1>1, <1>3 DEF Progress, SentBy, Black
  <2>3. d \in SentBy(r)' => d \notin left
    BY <1>3, <1>5, <1>6 DEF SentBy
  <2> QED
    BY <1>3, <1>5, <1>6, <2>1, <2>2, <2>3 DEF Progress
<1>10. \A d \in Channels \ w.all : stored'[d] = stored[d] /\ frame'[d] = frame[d]
  BY <1>3
<1> HIDE DEF p
<1> QED
  BY <1>1, <1>2, <1>4, <1>5, <1>7, <1>8, <1>9, <1>10, PlainStep

LEMMA CalmStep ==
  ASSUME IInv, NEW r \in Requesters, Calm(r)
  PROVE  IInv'
<1>1. pc[r] = "calm" /\ PlainFrame /\ stored' = stored /\ frame' = frame
  BY DEF Calm, PlainFrame, database
<1>2. /\ r \in Threads /\ r \notin Fades /\ r # Audio /\ r # Main
      /\ RequesterInv(r) /\ JobInv(r)
      /\ stored \in Look /\ frame \in Look
      /\ ~clean
  BY <1>1, RequesterFacts
<1>3. work[r].op = "blackout" /\ work[r].all = Channels /\ work[r].to = Black /\ work[r].todo = {}
  BY <1>1, <1>2 DEF RequesterInv, JobInv
<1>4. Go(r, "idle", NoWork)
  BY <1>2 DEF Calm, Finish
<1>5. pc'[r] = "idle" /\ work'[r] = NoWork
  BY <1>2, <1>4, GoFrame DEF IInv
<1>6. ThreadInv(r)'
  BY <1>2, <1>5, NoWorkType DEF ThreadInv, RequesterInv, RequesterPc, JobInv
<1>7. \A d \in Channels \ contested : d \in work[r].all /\ Progress(r, d) => Agreed(d)'
  BY <1>1, <1>3, PlainFrameIs DEF Progress, StoredBy, SentBy, Agreed
<1> QED
  BY <1>1, <1>2, <1>4, <1>6, <1>7, EndStep DEF RequesterPc

LEMMA RecallListStep ==
  ASSUME IInv, NEW r \in Requesters, RecallList(r)
  PROVE  IInv'
<1> DEFINE w == work[r]
           x == [w EXCEPT !.from = stored]
<1>1. pc[r] = "list" /\ w.op \in {"instant", "fade"} /\ PlainFrame /\ stored' = stored
      /\ frame' = frame /\ Go(r, "start", x)
  BY DEF RecallList, PlainFrame, database
<1>2. /\ r \in Threads /\ r \notin Fades /\ r # Audio /\ r # Main
      /\ w \in Work /\ RequesterInv(r) /\ JobInv(r)
      /\ stored \in Look /\ frame \in Look
      /\ ~clean
  BY <1>1, RequesterFacts
<1>3. x \in Work /\ x.op = w.op /\ x.all = w.all /\ x.todo = w.todo /\ x.out = w.out
      /\ x.to = w.to
  BY <1>2 DEF Work
<1> HIDE DEF x
<1>4. pc'[r] = "start" /\ work'[r] = x
  BY <1>1, <1>2, GoFrame DEF IInv
<1>5. ThreadInv(r)'
  BY <1>1, <1>2, <1>3, <1>4 DEF ThreadInv, RequesterInv, RequesterPc, JobInv
<1>6. \A d \in Channels \ contested : d \in x.all /\ Progress(r, d) => Progress(r, d)'
  BY <1>1, <1>3, <1>4, PlainFrameIs DEF Progress, StoredBy, SentBy
<1> QED
  BY <1>1, <1>2, <1>3, <1>5, <1>6, PlainStep DEF RequesterPc

LEMMA RecallStartStep ==
  ASSUME IInv, NEW r \in Requesters, RecallStart(r)
  PROVE  IInv'
<1> DEFINE w == work[r]
<1>1. /\ pc[r] = "start" /\ token' = token + 1
      /\ stored' = stored /\ enabled' = enabled /\ scenes' = scenes /\ frame' = frame
      /\ reactive' = reactive /\ leaving' = leaving /\ spent' = spent /\ latest' = latest
      /\ want' = want /\ contested' = contested /\ clean' = clean
  BY DEF RecallStart, database, history
<1>2. TypeOK /\ ControlInv /\ ValuesInv /\ ShutdownInv
  BY DEF IInv
<1>3. /\ r \in Threads /\ r \notin Fades /\ r # Audio /\ r # Main
      /\ w \in Work /\ RequesterInv(r) /\ JobInv(r)
      /\ ~clean
  BY <1>1, RequesterFacts
<1>4. /\ w.op \in {"instant", "fade"} /\ token \in Nat
      /\ w.todo = w.all /\ w.all # {}
  BY <1>1, <1>2, <1>3 DEF RequesterInv, JobInv, TypeOK
<1>5. CASE w.op = "instant" /\ Go(r, "write", w)
  <2>1. /\ pc'[r] = "write" /\ work'[r] = w
        /\ \A u \in Threads \ {r} : pc'[u] = pc[u] /\ work'[u] = work[u]
    BY <1>2, <1>3, <1>5, GoFrame
  <2>2. TypeOK'
    <3>1. /\ pc' \in [Threads -> RequesterPc \cup FadePc \cup AudioPc \cup MainPc]
          /\ work' \in [Threads -> Work]
      BY <1>2, <1>3, <1>5, GoType DEF RequesterPc
    <3> QED
      BY <1>1, <1>2, <3>1 DEF TypeOK
  <2>3. ThreadInv(r)'
    BY <1>3, <1>4, <1>5, <2>1 DEF ThreadInv, RequesterInv, RequesterPc, JobInv
  <2>4. ControlInv'
    BY <1>1, <1>2, <1>3, <1>5, <2>3, ControlStep
  <2>5. \A c \in Channels \ contested' : c \in w.all /\ Progress(r, c) => Progress(r, c)'
    BY <1>1, <1>4, <1>5, <2>1 DEF Progress, StoredBy, SentBy
  <2>6. ValuesInv'
    BY <1>1, <1>2, <1>3, <1>5, <2>5, ValuesStep
  <2>7. \A f \in Fades : work'[f].token <= token'
    BY <1>1, <1>2, <1>3, <1>4, <2>1 DEF ShutdownInv, TypeOK, Threads, Work
  <2> QED
    BY <1>1, <1>3, <2>2, <2>4, <2>6, <2>7, NotClean DEF IInv
<1>6. ASSUME NEW f \in Fades, w.op = "fade", pc[f] = "off",
             pc' = [pc EXCEPT ![r] = "idle", ![f] = "check"],
             work' = [work EXCEPT ![r] = NoWork, ![f] = [w EXCEPT !.token = token + 1]]
      PROVE  IInv'
  <2> DEFINE x == [w EXCEPT !.token = token + 1]
  <2>1. x \in Work /\ x.op = w.op /\ x.all = w.all /\ x.todo = w.todo /\ x.out = w.out
        /\ x.to = w.to /\ x.token = token + 1
    BY <1>3, <1>4 DEF Work
  <2>2. f \in Threads /\ f # r /\ f # Audio /\ f # Main /\ f \notin Requesters
    BY <1>3, Constants DEF Threads
  <2>3. /\ pc'[r] = "idle" /\ work'[r] = NoWork /\ pc'[f] = "check" /\ work'[f] = x
        /\ \A u \in Threads \ {r, f} : pc'[u] = pc[u] /\ work'[u] = work[u]
    BY <1>2, <1>3, <1>6, <2>2 DEF TypeOK
  <2>4. TypeOK'
    <3>1. /\ pc' \in [Threads -> RequesterPc \cup FadePc \cup AudioPc \cup MainPc]
          /\ work' \in [Threads -> Work]
      BY <1>2, <1>6, <2>1, NoWorkType DEF TypeOK, RequesterPc, FadePc
    <3>2. token' \in Nat
      BY <1>1, <1>4
    <3> QED
      BY <1>1, <1>2, <3>1, <3>2 DEF TypeOK
  <2> HIDE DEF x
  <2>5. ControlInv'
    <3> SUFFICES ASSUME NEW u \in Threads PROVE ThreadInv(u)'
      BY DEF ControlInv
    <3>1. CASE u = r
      BY <1>3, <2>3, <3>1, NoWorkType DEF ThreadInv, RequesterInv, RequesterPc, JobInv
    <3>2. CASE u = f
      BY <1>3, <1>4, <1>6, <2>1, <2>2, <2>3, <3>2 DEF ThreadInv, FadeInv, FadePc, JobInv
    <3>3. CASE u \notin {r, f}
      <4>1. ThreadInv(u) /\ pc'[u] = pc[u] /\ work'[u] = work[u]
        BY <1>2, <2>3, <3>3 DEF ControlInv
      <4> QED
        BY <1>1, <4>1 DEF ThreadInv, RequesterInv, FadeInv, AudioInv, MainInv, JobInv
    <3> QED
      BY <3>1, <3>2, <3>3
  <2>6. ValuesInv'
    <3> SUFFICES ASSUME NEW c \in Channels \ contested
                 PROVE  /\ \A u, v \in Threads : c \in work'[u].all /\ c \in work'[v].all => u = v
                        /\ \A u \in Threads : c \in work'[u].all => Progress(u, c)'
                        /\ Unowned(c)' => Agreed(c)'
      BY <1>1 DEF ValuesInv
    <3>1. /\ \A u, v \in Threads : c \in work[u].all /\ c \in work[v].all => u = v
          /\ \A u \in Threads : c \in work[u].all => Progress(u, c)
          /\ Unowned(c) => Agreed(c)
      BY <1>2 DEF ValuesInv
    <3>2. work[f].all = {}
      <4>1. work[f] = NoWork
        BY <1>2, <1>6, <2>2 DEF ControlInv, ThreadInv, FadeInv
      <4> QED
        BY <4>1, NoWorkType
    <3>3. /\ c \notin work'[r].all /\ (c \in work'[f].all <=> c \in work[r].all)
          /\ \A u \in Threads \ {r, f} : c \in work'[u].all <=> c \in work[u].all
      BY <2>1, <2>3, NoWorkType
    <3>4. \A u, v \in Threads : c \in work'[u].all /\ c \in work'[v].all => u = v
      BY <1>3, <3>1, <3>3
    <3>5. ASSUME NEW u \in Threads, c \in work'[u].all PROVE Progress(u, c)'
      <4>1. CASE u = f
        <5>1. Progress(r, c)
          BY <1>3, <3>1, <3>3, <3>5, <4>1
        <5>2. c \notin StoredBy(f)' /\ c \notin SentBy(f)'
          BY <1>6, <2>1, <2>3 DEF StoredBy, SentBy
        <5> QED
          BY <1>1, <1>6, <2>1, <2>3, <4>1, <5>1, <5>2 DEF Progress
      <4>2. CASE u # f
        <5>1. u # r /\ c \in work[u].all
          BY <3>3, <3>5, <4>2
        <5> QED
          BY <1>1, <2>3, <3>1, <4>2, <5>1, ProgressFrame
      <4> QED
        BY <4>1, <4>2
    <3>6. Unowned(c)' => Unowned(c)
      BY <1>3, <2>2, <3>2, <3>3 DEF Unowned
    <3>7. Unowned(c)' => Agreed(c)'
      BY <1>1, <3>1, <3>6, AgreedFrame
    <3> QED
      BY <3>4, <3>5, <3>7
  <2>7. \A g \in Fades : work'[g].token <= token'
    <3> SUFFICES ASSUME NEW g \in Fades PROVE work'[g].token <= token'
      OBVIOUS
    <3>1. CASE g = f
      BY <1>1, <1>4, <2>1, <2>3, <3>1
    <3>2. CASE g # f
      <4>1. work'[g] = work[g] /\ work[g].token <= token /\ work[g].token \in Nat
        BY <1>2, <1>3, <2>3, <3>2 DEF ShutdownInv, Threads, TypeOK, Work
      <4> QED
        BY <1>1, <1>4, <4>1
    <3> QED
      BY <3>1, <3>2
  <2> QED
    BY <1>1, <1>3, <2>4, <2>5, <2>6, <2>7, NotClean DEF IInv
<1> QED
  BY <1>4, <1>5, <1>6 DEF RecallStart

-----------------------------------------------------------------------------
(***************************************************************************)
(* The threads of scene transitions                                        *)
(***************************************************************************)

LEMMA FadeFacts ==
  ASSUME IInv, NEW f \in Fades, pc[f] # "off"
  PROVE  /\ f \in Threads /\ f \notin Requesters /\ f # Audio /\ f # Main
         /\ work[f] \in Work /\ FadeInv(f) /\ JobInv(f) /\ work[f].op = "fade"
         /\ work[f].all # {} /\ work[f].all \subseteq Channels
         /\ work[f].todo \subseteq work[f].all
         /\ work[f].to \in Look /\ work[f].from \in Look /\ work[f].at \in 0 .. FadeSteps
         /\ work[f].token <= token
         /\ stored \in Look /\ frame \in Look
<1>1. f \in Threads /\ f \notin Requesters /\ f # Audio /\ f # Main
  BY Constants DEF Threads
<1>2. ThreadInv(f) /\ work[f] \in Work /\ work[f].token <= token
      /\ stored \in Look /\ frame \in Look
  BY <1>1, ThreadFacts
<1> QED
  BY <1>1, <1>2, WorkFields DEF ThreadInv, FadeInv, JobInv

LEMMA FadeSupersededStep ==
  ASSUME IInv, NEW f \in Fades, FadeSuperseded(f)
  PROVE  IInv'
<1>1. /\ pc[f] = "check" /\ contested' = contested \cup work[f].all
      /\ Finish(f)
      /\ stored' = stored /\ enabled' = enabled /\ scenes' = scenes /\ frame' = frame
      /\ reactive' = reactive /\ token' = token /\ leaving' = leaving /\ spent' = spent
      /\ latest' = latest /\ want' = want /\ clean' = clean
  BY DEF FadeSuperseded, database
<1>2. TypeOK /\ ControlInv /\ ValuesInv /\ ShutdownInv
  BY DEF IInv
<1>3. /\ f \in Threads /\ f \notin Requesters /\ f # Audio /\ f # Main
      /\ work[f].all \subseteq Channels /\ token \in Nat
  BY <1>1, <1>2, FadeFacts DEF TypeOK
<1>4. Go(f, "off", NoWork)
  BY <1>1 DEF Finish
<1>5. /\ pc'[f] = "off" /\ work'[f] = NoWork
      /\ \A u \in Threads \ {f} : pc'[u] = pc[u] /\ work'[u] = work[u]
  BY <1>2, <1>3, <1>4, GoFrame
<1>6. TypeOK'
  <2>1. /\ pc' \in [Threads -> RequesterPc \cup FadePc \cup AudioPc \cup MainPc]
        /\ work' \in [Threads -> Work]
    BY <1>2, <1>3, <1>4, NoWorkType, GoType DEF FadePc
  <2> QED
    BY <1>1, <1>2, <1>3, <2>1 DEF TypeOK
<1>7. ControlInv'
  <2>1. ThreadInv(f)'
    BY <1>3, <1>5, NoWorkType DEF ThreadInv, FadeInv, FadePc, JobInv
  <2> QED
    BY <1>1, <1>2, <1>3, <1>4, <2>1, ControlStep
<1>8. ValuesInv'
  <2>1. NoWork.all \subseteq work[f].all
    BY NoWorkType
  <2>2. \A c \in Channels \ contested' :
          c \in NoWork.all /\ Progress(f, c) => Progress(f, c)'
    BY NoWorkType
  <2>3. \A c \in Channels \ contested' :
          c \in work[f].all \ NoWork.all /\ Progress(f, c) => Agreed(c)'
    BY <1>1
  <2> QED
    BY <1>1, <1>2, <1>3, <1>4, <2>1, <2>2, <2>3, ValuesStep
<1>9. ShutdownInv'
  <2>1. \A g \in Fades : work'[g].token <= token'
    BY <1>1, <1>2, <1>3, <1>5, NoWorkType DEF ShutdownInv, Threads
  <2> QED
    BY <1>1, <1>2, <1>3, <1>5, <2>1, Constants DEF ShutdownInv, Threads
<1> QED
  BY <1>6, <1>7, <1>8, <1>9 DEF IInv

LEMMA FadeCheckStep ==
  ASSUME IInv, NEW f \in Fades, NEW k \in 0 .. FadeSteps, FadeCheck(f, k)
  PROVE  IInv'
<1> DEFINE w == work[f]
           x == [w EXCEPT !.at = k, !.todo = w.all]
<1>1. /\ pc[f] = "check" /\ w.token = token /\ Go(f, "pass", x) /\ PlainFrame
      /\ stored' = stored /\ frame' = frame
  BY DEF FadeCheck, PlainFrame, database
<1>2. /\ f \in Threads /\ f \notin Requesters /\ f # Audio /\ f # Main
      /\ w \in Work /\ FadeInv(f) /\ JobInv(f) /\ w.op = "fade"
      /\ w.all # {} /\ w.all \subseteq Channels
      /\ w.token <= token /\ stored \in Look /\ frame \in Look
  BY <1>1, FadeFacts
<1>3. x \in Work /\ x.op = w.op /\ x.all = w.all /\ x.todo = w.all /\ x.out = w.out
      /\ x.to = w.to /\ x.token = w.token
  BY <1>2 DEF Work
<1> HIDE DEF x
<1>4. pc'[f] = "pass" /\ work'[f] = x
  BY <1>1, <1>2, GoFrame DEF IInv
<1>5. ThreadInv(f)'
  BY <1>2, <1>3, <1>4 DEF ThreadInv, FadeInv, FadePc, JobInv
<1>6. \A d \in Channels \ contested : d \in x.all /\ Progress(f, d) => Progress(f, d)'
  BY <1>1, <1>2, <1>3, <1>4, PlainFrameIs DEF Progress, StoredBy, SentBy
<1>7. ~clean
  <2>1. token \in Nat
    BY DEF IInv, TypeOK
  <2> QED
    BY <1>1, <2>1 DEF IInv, ShutdownInv
<1> QED
  BY <1>1, <1>2, <1>3, <1>5, <1>6, <1>7, PlainStep DEF FadePc

LEMMA FadeChannelStep ==
  ASSUME IInv, NEW f \in Fades, FadeChannel(f)
  PROVE  IInv'
<1> DEFINE w == work[f]
           c == Least(w.todo)
           left == w.todo \ {c}
<1>1. /\ pc[f] = "pass" /\ PlainFrame /\ stored' = stored
      /\ frame' = [frame EXCEPT ![c] = Blend(w.from[c], w.to[c], w.at)]
      /\ Proceed(f, "pass", left)
  BY DEF FadeChannel, PlainFrame, database
<1>2. /\ f \in Threads /\ f \notin Requesters /\ f # Audio /\ f # Main
      /\ w \in Work /\ FadeInv(f) /\ JobInv(f) /\ w.op = "fade"
      /\ w.all # {} /\ w.all \subseteq Channels /\ w.todo \subseteq w.all
      /\ w.to \in Look /\ w.from \in Look /\ w.at \in 0 .. FadeSteps
      /\ w.token <= token /\ stored \in Look /\ frame \in Look
  BY <1>1, FadeFacts
<1>3. c \in w.todo /\ c \in Channels
  <2>1. w.todo # {} /\ w.todo \in SUBSET Channels
    BY <1>1, <1>2 DEF JobInv
  <2> QED
    BY <2>1, LeastChannel
<1>4. Blend(w.from[c], w.to[c], w.at) \in Values
  <2>1. w.from[c] \in Values /\ w.to[c] \in Values
    BY <1>2, <1>3 DEF Look
  <2> QED
    BY <1>2, <2>1, BlendInRange
<1>5. frame' \in Look /\ \A d \in Channels \ {c} : frame'[d] = frame[d]
  BY <1>1, <1>2, <1>3, <1>4 DEF Look
<1>6. \A d \in Channels \ w.all : stored'[d] = stored[d] /\ frame'[d] = frame[d]
  BY <1>1, <1>2, <1>3, <1>5
<1>7. want' = want /\ latest' = latest /\ token' = token /\ leaving' = leaving /\ clean' = clean
  BY <1>1, PlainFrameIs
\* The next channel of the pass, the next pass, or the values to be stored.
<1>8. PICK p \in {"pass", "check", "store"}, x \in Work :
        /\ Go(f, p, x)
        /\ x.op = "fade" /\ x.all = w.all /\ x.to = w.to /\ x.out = w.out
        /\ x.token = w.token
        /\ x.todo \subseteq x.all /\ (p # "check" => x.todo # {})
        /\ p = "pass" => x.at = w.at
        /\ p = "store" => x.todo = x.all /\ w.at = FadeSteps
  <2>1. CASE left # {}
    <3> DEFINE x == [w EXCEPT !.todo = left]
    <3>1. Go(f, "pass", x)
      BY <1>1, <2>1 DEF Proceed
    <3>2. left \in SUBSET Channels /\ left \subseteq w.all
      BY <1>2
    <3>3. /\ x \in Work /\ x.op = w.op /\ x.all = w.all /\ x.todo = left /\ x.out = w.out
          /\ x.to = w.to /\ x.at = w.at /\ x.token = w.token
      BY <1>2, <3>2, TodoType
    <3> HIDE DEF x
    <3> QED
      BY <1>2, <2>1, <3>1, <3>2, <3>3
  <2>2. CASE left = {} /\ w.at = FadeSteps
    <3> DEFINE x == [w EXCEPT !.todo = w.all]
    <3>1. Go(f, "store", x)
      BY <1>1, <1>2, <2>2 DEF Proceed, LoopEnd
    <3>2. /\ x \in Work /\ x.op = w.op /\ x.all = w.all /\ x.todo = w.all /\ x.out = w.out
          /\ x.to = w.to /\ x.at = w.at /\ x.token = w.token
      BY <1>2, TodoType
    <3> HIDE DEF x
    <3> QED
      BY <1>2, <2>2, <3>1, <3>2
  <2>3. CASE left = {} /\ w.at # FadeSteps
    <3> DEFINE x == [w EXCEPT !.at = w.at + 1]
    <3>1. Go(f, "check", x)
      BY <1>1, <1>2, <2>3 DEF Proceed, LoopEnd
    <3>2. w.at + 1 \in 0 .. FadeSteps
      BY <1>2, <2>3, Constants
    <3>3. /\ x \in Work /\ x.op = w.op /\ x.all = w.all /\ x.todo = w.todo /\ x.out = w.out
          /\ x.to = w.to /\ x.token = w.token
      BY <1>2, <3>2 DEF Work
    <3> HIDE DEF x
    <3> QED
      BY <1>2, <2>3, <3>1, <3>3
  <2> QED
    BY <2>1, <2>2, <2>3
<1>9. /\ pc'[f] = p /\ work'[f] = x
      /\ \A u \in Threads \ {f} : pc'[u] = pc[u] /\ work'[u] = work[u]
  BY <1>2, <1>8, GoFrame DEF IInv
<1>10. ThreadInv(f)'
  BY <1>2, <1>8, <1>9 DEF ThreadInv, FadeInv, FadePc, JobInv
<1>11. \A d \in Channels \ contested : d \in x.all /\ Progress(f, d) => Progress(f, d)'
  <2> SUFFICES ASSUME NEW d \in Channels \ contested, Progress(f, d) PROVE Progress(f, d)'
    OBVIOUS
  <2>1. d \notin StoredBy(f)' /\ d \notin SentBy(f)'
    BY <1>8, <1>9 DEF StoredBy, SentBy
  <2> QED
    BY <1>2, <1>7, <1>8, <1>9, <2>1 DEF Progress
<1>12. clean => ShutdownInv'
  <2> SUFFICES ASSUME clean PROVE ShutdownInv'
    OBVIOUS
  <2>1. w.at # FadeSteps /\ w.token < token
    BY <1>1 DEF IInv, ShutdownInv
  <2>2. p # "store"
    BY <1>8, <2>1
  <2> QED
    BY <1>1, <1>2, <1>7, <1>8, <1>9, <2>1, <2>2, Constants DEF IInv, ShutdownInv, Threads
<1> QED
  BY <1>1, <1>2, <1>5, <1>6, <1>8, <1>10, <1>11, <1>12, PlainStep DEF FadePc, RequesterPc

-----------------------------------------------------------------------------
(***************************************************************************)
(* Requests                                                                *)
(***************************************************************************)

RequestKinds == {"set", "group", "patch", "blackout", "enable", "reactive", "capture", "recall"}

\* A request is made by an idle thread, and no shutdown is clean with it.
LEMMA AcceptFacts ==
  ASSUME IInv, NEW r \in Requesters, NEW kind \in RequestKinds, Accept(r, kind)
  PROVE  /\ r \in Threads /\ r \notin Fades /\ r # Audio /\ r # Main
         /\ pc[r] = "idle" /\ work[r] = NoWork
         /\ spent' \in 0 .. MaxRequests /\ latest' = kind /\ clean' = FALSE
         /\ stored \in Look /\ frame \in Look /\ want \in Look /\ scenes \in [Scenes -> Look]
         /\ enabled \in [Fixtures -> BOOLEAN]
         /\ \A f \in Fades : work[f].token <= token
<1>1. r \in Threads /\ r \notin Fades /\ r # Audio /\ r # Main
  BY Constants DEF Threads
<1>2. ThreadInv(r)
  BY <1>1, ThreadFacts
<1>3. pc[r] = "idle" /\ work[r] = NoWork
  BY <1>2 DEF Accept, ThreadInv, RequesterInv
<1>4. spent' \in 0 .. MaxRequests
  BY Constants DEF Accept, IInv, TypeOK
<1> QED
  BY <1>1, <1>3, <1>4 DEF Accept, IInv, TypeOK, ShutdownInv

\* A request that begins a job on the channels S.
LEMMA RequestStep ==
  ASSUME IInv, NEW r \in Requesters, NEW kind \in RequestKinds, Accept(r, kind),
         NEW w \in Work, NEW p \in RequesterPc, NEW S \in SUBSET Channels,
         Go(r, p, w), Takes(r, S), w.all = S,
         stored' = stored, frame' = frame, scenes' = scenes, token' = token,
         leaving' = leaving, reactive' \in BOOLEAN, enabled' \in [Fixtures -> BOOLEAN],
         enabled' = enabled \/ S = Channels,
         kind # "blackout" \/ S = Channels,
         ThreadInv(r)',
         \A c \in S \ contested' : Progress(r, c)'
  PROVE  IInv'
<1>1. TypeOK /\ ControlInv /\ ValuesInv /\ ShutdownInv
  BY DEF IInv
<1>2. /\ r \in Threads /\ r \notin Fades /\ work[r] = NoWork
      /\ spent' \in 0 .. MaxRequests /\ latest' = kind /\ clean' = FALSE
      /\ \A f \in Fades : work[f].token <= token
  BY AcceptFacts
<1>3. /\ pc' \in [Threads -> RequesterPc \cup FadePc \cup AudioPc \cup MainPc]
      /\ work' \in [Threads -> Work]
  BY <1>1, <1>2, GoType
<1>4. TypeOK'
  BY <1>1, <1>2, <1>3 DEF TypeOK, Takes, RequestKinds
<1>5. ControlInv'
  BY <1>1, <1>2, ControlStep
<1>6. ValuesInv'
  <2>1. work[r].all = {}
    BY <1>2, NoWorkType
  <2>2. latest' = latest \/ latest' # "blackout" \/ S = Channels
    BY <1>2
  <2> QED
    BY <1>1, <1>2, <2>1, <2>2, BeginStep
<1>7. ShutdownInv'
  <2>1. \A f \in Fades : work'[f].token <= token'
    BY <1>1, <1>2, GoFrame DEF Threads
  <2> QED
    BY <1>2, <2>1, NotClean
<1> QED
  BY <1>4, <1>5, <1>6, <1>7 DEF IInv

\* A request that begins no job.
LEMMA QuietRequestStep ==
  ASSUME IInv, NEW r \in Requesters, NEW kind \in RequestKinds \ {"blackout"}, Accept(r, kind),
         stored' = stored, frame' = frame, token' = token, leaving' = leaving,
         enabled' = enabled, scenes' \in [Scenes -> Look], reactive' \in BOOLEAN,
         pc' = pc, work' = work, want' = want, contested' = contested
  PROVE  IInv'
<1>1. TypeOK /\ ControlInv /\ ValuesInv /\ ShutdownInv
  BY DEF IInv
<1>2. /\ spent' \in 0 .. MaxRequests /\ latest' = kind /\ clean' = FALSE
      /\ \A f \in Fades : work[f].token <= token
  BY AcceptFacts
<1>3. TypeOK'
  BY <1>1, <1>2 DEF TypeOK, RequestKinds
<1>4. ControlInv'
  BY <1>1 DEF ControlInv, ThreadInv, RequesterInv, FadeInv, AudioInv, MainInv, JobInv
<1>5. ValuesInv'
  BY <1>1, <1>2, QuietStep
<1>6. ShutdownInv'
  BY <1>2, NotClean
<1> QED
  BY <1>3, <1>4, <1>5, <1>6 DEF IInv

\* The first state of a request that stores values one by one, sends raw ones or
\* recalls a scene.
LEMMA JobStart ==
  ASSUME IInv, NEW r \in Requesters, NEW kind \in RequestKinds \ {"blackout"}, Accept(r, kind),
         NEW S \in SUBSET Channels, S # {}, NEW to \in Look,
         NEW op \in {"set", "patch", "instant", "fade"},
         NEW p, Go(r, p, Job(op, S, to)), Takes(r, S),
         op = "patch" => S \subseteq contested',
         op # "patch" => \A c \in S : want'[c] = to[c],
         p = CASE op = "set" -> "store" [] op = "patch" -> "write" [] OTHER -> "list",
         stored' = stored, frame' = frame, scenes' = scenes, token' = token,
         leaving' = leaving, reactive' = reactive, enabled' = enabled
  PROVE  IInv'
<1> DEFINE w == Job(op, S, to)
<1>1. TypeOK
  BY DEF IInv
<1>2. r \in Threads /\ r \notin Fades /\ r # Audio /\ r # Main
  BY AcceptFacts
<1>3. /\ w \in Work /\ w.op = op /\ w.all = S /\ w.todo = S /\ w.out = {} /\ w.to = to
  <2>1. op \in Ops
    BY DEF Ops
  <2> QED
    BY <2>1, JobType
<1> HIDE DEF w
<1>4. pc'[r] = p /\ work'[r] = w
  BY <1>1, <1>2, GoFrame DEF w
<1>5. p \in RequesterPc
  BY DEF RequesterPc
<1>6. ThreadInv(r)'
  BY <1>2, <1>3, <1>4, <1>5 DEF ThreadInv, RequesterInv, RequesterPc, JobInv
<1>7. \A c \in S \ contested' : Progress(r, c)'
  BY <1>3, <1>4 DEF Progress, StoredBy, SentBy
<1>8. reactive' \in BOOLEAN /\ enabled' \in [Fixtures -> BOOLEAN]
  BY <1>1 DEF TypeOK
<1>9. Go(r, p, w)
  BY DEF w
<1> QED
  BY <1>3, <1>5, <1>6, <1>7, <1>8, <1>9, RequestStep

LEMMA SetRequestStep ==
  ASSUME IInv, NEW r \in Requesters, NEW c \in Channels, NEW x \in Values, SetRequest(r, c, x)
  PROVE  IInv'
<1> DEFINE to == Only([d \in {c} |-> x])
<1>1. to \in Look
  BY Looks
<1>2. TypeOK /\ r \in Threads /\ Accept(r, "set")
  BY Constants DEF IInv, SetRequest, Threads
<1>3. Takes(r, {c}) /\ \A d \in {c} : want'[d] = to[d]
  BY <1>1, <1>2, BeginTakes DEF SetRequest
<1>4. Go(r, "store", Job("set", {c}, to))
  BY DEF SetRequest
<1>5. /\ stored' = stored /\ frame' = frame /\ scenes' = scenes /\ token' = token
      /\ leaving' = leaving /\ reactive' = reactive /\ enabled' = enabled
  BY DEF SetRequest, database
<1> HIDE DEF to
<1> QED
  BY <1>1, <1>2, <1>3, <1>4, <1>5, JobStart DEF RequestKinds

LEMMA GroupRequestStep ==
  ASSUME IInv, NEW r \in Requesters, NEW S \in SUBSET Channels, S # {},
         NEW v \in [S -> Values], GroupRequest(r, v)
  PROVE  IInv'
<1> DEFINE to == Only(v)
<1>1. to \in Look /\ DOMAIN v = S
  BY Looks
<1>2. TypeOK /\ r \in Threads /\ Accept(r, "group")
  BY Constants DEF IInv, GroupRequest, Threads
<1>3. Takes(r, S) /\ \A d \in S : want'[d] = to[d]
  BY <1>1, <1>2, BeginTakes DEF GroupRequest
<1>4. Go(r, "store", Job("set", S, to))
  BY <1>1 DEF GroupRequest
<1>5. /\ stored' = stored /\ frame' = frame /\ scenes' = scenes /\ token' = token
      /\ leaving' = leaving /\ reactive' = reactive /\ enabled' = enabled
  BY DEF GroupRequest, database
<1> HIDE DEF to
<1> QED
  BY <1>1, <1>2, <1>3, <1>4, <1>5, JobStart DEF RequestKinds

LEMMA PatchRequestStep ==
  ASSUME IInv, NEW r \in Requesters, NEW S \in SUBSET Channels, S # {},
         NEW v \in [S -> Values], PatchRequest(r, v)
  PROVE  IInv'
<1> DEFINE to == Only(v)
<1>1. to \in Look /\ DOMAIN v = S
  BY Looks
<1>2. TypeOK /\ Accept(r, "patch") /\ want' = want /\ contested' = contested \cup S
  BY <1>1 DEF IInv, PatchRequest
<1>3. Takes(r, S)
  BY <1>2 DEF TypeOK, Takes
<1>4. Go(r, "write", Job("patch", S, to))
  BY <1>1 DEF PatchRequest
<1>5. /\ stored' = stored /\ frame' = frame /\ scenes' = scenes /\ token' = token
      /\ leaving' = leaving /\ reactive' = reactive /\ enabled' = enabled
  BY DEF PatchRequest, database
<1> HIDE DEF to
<1> QED
  BY <1>1, <1>2, <1>3, <1>4, <1>5, JobStart DEF RequestKinds

LEMMA RecallRequestStep ==
  ASSUME IInv, NEW r \in Requesters, NEW s \in Scenes, NEW op \in {"instant", "fade"},
         RecallRequest(r, s, op)
  PROVE  IInv'
<1>1. TypeOK /\ r \in Threads /\ Accept(r, "recall")
  BY Constants DEF IInv, RecallRequest, Threads
<1>2. /\ stored' = stored /\ frame' = frame /\ scenes' = scenes /\ token' = token
      /\ leaving' = leaving /\ reactive' = reactive /\ enabled' = enabled
  BY DEF RecallRequest, database
<1>3. CASE EnabledChannels = {}
  BY <1>1, <1>2, <1>3, QuietRequestStep DEF RecallRequest, RequestKinds, TypeOK
<1>4. CASE EnabledChannels # {}
  <2>1. scenes[s] \in Look /\ EnabledChannels \in SUBSET Channels
    BY <1>1 DEF TypeOK, EnabledChannels
  <2>2. Takes(r, EnabledChannels) /\ \A d \in EnabledChannels : want'[d] = scenes[s][d]
    BY <1>1, <1>4, <2>1, BeginTakes DEF RecallRequest
  <2>3. Go(r, "list", Job(op, EnabledChannels, scenes[s]))
    BY <1>4 DEF RecallRequest
  <2> QED
    BY <1>1, <1>2, <1>4, <2>1, <2>2, <2>3, JobStart DEF RequestKinds
<1> QED
  BY <1>3, <1>4

LEMMA CaptureRequestStep ==
  ASSUME IInv, NEW r \in Requesters, NEW s \in Scenes, CaptureRequest(r, s)
  PROVE  IInv'
<1>1. scenes' \in [Scenes -> Look] /\ reactive' \in BOOLEAN
  BY DEF IInv, TypeOK, CaptureRequest
<1> QED
  BY <1>1, QuietRequestStep DEF CaptureRequest, RequestKinds

LEMMA BlackoutRequestStep ==
  ASSUME IInv, NEW r \in Requesters, BlackoutRequest(r)
  PROVE  IInv'
<1> DEFINE w == Job("blackout", Channels, Black)
<1>1. TypeOK /\ Accept(r, "blackout")
  BY DEF IInv, BlackoutRequest
<1>2. r \in Threads /\ r \notin Fades /\ r # Audio /\ r # Main
  BY <1>1, AcceptFacts DEF RequestKinds
<1>3. /\ w \in Work /\ w.op = "blackout" /\ w.all = Channels /\ w.todo = Channels
      /\ w.out = {} /\ w.to = Black
  BY Looks, JobType DEF Ops
<1> HIDE DEF w
<1>4. Go(r, "list", w)
  BY DEF BlackoutRequest, w
<1>5. pc'[r] = "list" /\ work'[r] = w
  BY <1>1, <1>2, <1>4, GoFrame
<1>6. Takes(r, Channels) /\ \A d \in Channels : want'[d] = Black[d]
  BY <1>1, <1>2, Looks, BeginTakes DEF BlackoutRequest
<1>7. ThreadInv(r)'
  BY <1>2, <1>3, <1>5 DEF ThreadInv, RequesterInv, RequesterPc, JobInv
<1>8. \A c \in Channels \ contested' : Progress(r, c)'
  BY <1>3, <1>5, <1>6 DEF Progress, StoredBy, SentBy
<1>9. /\ stored' = stored /\ frame' = frame /\ scenes' = scenes /\ token' = token
      /\ leaving' = leaving /\ reactive' \in BOOLEAN /\ enabled' = enabled
      /\ enabled' \in [Fixtures -> BOOLEAN]
  BY <1>1 DEF BlackoutRequest, database, TypeOK
<1> QED
  BY <1>1, <1>3, <1>4, <1>6, <1>7, <1>8, <1>9, RequestStep DEF RequestKinds, RequesterPc

\* A handler that ends in rebuilding all universes.
LEMMA RebuildStep ==
  ASSUME IInv, NEW r \in Requesters, NEW kind \in {"enable", "reactive"}, Accept(r, kind),
         Rebuild(r), stored' = stored, frame' = frame, scenes' = scenes, token' = token,
         leaving' = leaving, reactive' \in BOOLEAN, enabled' \in [Fixtures -> BOOLEAN]
  PROVE  IInv'
<1> DEFINE w == Job("rebuild", Channels, Black)
<1>1. TypeOK /\ kind \in RequestKinds
  BY DEF IInv, RequestKinds
<1>2. /\ r \in Threads /\ r \notin Fades /\ r # Audio /\ r # Main
      /\ latest' = kind /\ stored \in Look
  BY <1>1, AcceptFacts
<1>3. /\ w \in Work /\ w.op = "rebuild" /\ w.all = Channels /\ w.todo = Channels
      /\ w.out = {} /\ w.to = Black
  BY Looks, JobType DEF Ops
<1> HIDE DEF w
<1>4. Go(r, "load", w)
  BY DEF Rebuild, w
<1>5. pc'[r] = "load" /\ work'[r] = w
  BY <1>1, <1>2, <1>4, GoFrame
<1>6. Takes(r, Channels) /\ \A d \in Channels : want'[d] = stored[d]
  BY <1>1, <1>2, BeginTakes DEF Rebuild
<1>7. ThreadInv(r)'
  BY <1>2, <1>3, <1>5 DEF ThreadInv, RequesterInv, RequesterPc, JobInv
<1>8. \A c \in Channels \ contested' : Progress(r, c)'
  BY <1>2, <1>3, <1>5, <1>6 DEF Progress, EnabledChannels
<1> QED
  BY <1>1, <1>3, <1>4, <1>6, <1>7, <1>8, RequestStep DEF RequesterPc

LEMMA EnableRequestStep ==
  ASSUME IInv, NEW r \in Requesters, NEW f \in Fixtures, NEW on \in BOOLEAN,
         EnableRequest(r, f, on)
  PROVE  IInv'
<1>1. enabled' \in [Fixtures -> BOOLEAN] /\ reactive' \in BOOLEAN
  BY DEF IInv, TypeOK, EnableRequest
<1> QED
  BY <1>1, RebuildStep DEF EnableRequest

LEMMA ReactiveRequestStep ==
  ASSUME IInv, NEW r \in Requesters, NEW on \in BOOLEAN, ReactiveRequest(r, on)
  PROVE  IInv'
<1>1. /\ enabled' = enabled /\ enabled' \in [Fixtures -> BOOLEAN] /\ reactive' \in BOOLEAN
      /\ stored' = stored /\ frame' = frame /\ scenes' = scenes /\ token' = token
      /\ leaving' = leaving /\ scenes' \in [Scenes -> Look] /\ Accept(r, "reactive")
  BY DEF IInv, TypeOK, ReactiveRequest, database
<1>2. CASE on
  BY <1>1, <1>2, QuietRequestStep DEF ReactiveRequest, RequestKinds
<1>3. CASE ~on
  BY <1>1, <1>3, RebuildStep DEF ReactiveRequest
<1> QED
  BY <1>2, <1>3

-----------------------------------------------------------------------------
(***************************************************************************)
(* The audio thread                                                        *)
(***************************************************************************)

LEMMA AudioFacts ==
  ASSUME IInv
  PROVE  /\ Audio \in Threads /\ Audio \notin Fades /\ Audio \notin Requesters /\ Audio # Main
         /\ work[Audio] \in Work /\ AudioInv /\ JobInv(Audio)
         /\ stored \in Look /\ frame \in Look /\ want \in Look
<1>1. Audio \in Threads /\ Audio \notin Fades /\ Audio \notin Requesters /\ Audio # Main
  BY Constants DEF Threads
<1> QED
  BY <1>1, ThreadFacts DEF ThreadInv

\* While the audio thread lives, a shutdown has not stored anything.
LEMMA AudioLives ==
  ASSUME IInv, clean, pc[Audio] # "off"
  PROVE  pc[Main] = "join" /\ ~leaving
<1>1. pc[Main] # "join" \/ leaving => pc[Audio] = "off"
  BY DEF IInv, ShutdownInv
<1>2. leaving \in BOOLEAN
  BY DEF IInv, TypeOK
<1> QED
  BY <1>1, <1>2

LEMMA AudioCleanStep ==
  ASSUME IInv, NEW p, NEW w, Go(Audio, p, w), pc[Audio] # "off",
         token' = token, leaving' = leaving, clean' = clean, clean
  PROVE  ShutdownInv'
<1>1. \A u \in Threads \ {Audio} : pc'[u] = pc[u] /\ work'[u] = work[u]
  BY AudioFacts, GoFrame DEF IInv
<1>2. pc'[Main] = "join" /\ ~leaving'
  BY <1>1, AudioLives, Constants DEF Threads
<1> QED
  BY <1>1, <1>2, Constants DEF IInv, ShutdownInv, Threads

\* The audio thread goes on without a job.
LEMMA AudioIdleStep ==
  ASSUME IInv, work[Audio] = NoWork, pc[Audio] # "off",
         NEW p \in {"idle", "listen", "tick", "off"}, Go(Audio, p, NoWork), PlainFrame,
         stored' = stored, frame' = frame
  PROVE  IInv'
<1>1. /\ Audio \in Threads /\ Audio \notin Fades /\ Audio \notin Requesters /\ Audio # Main
      /\ stored \in Look /\ frame \in Look
  BY AudioFacts
<1>2. pc'[Audio] = p /\ work'[Audio] = NoWork
  BY <1>1, GoFrame DEF IInv
<1>3. ThreadInv(Audio)'
  BY <1>1, <1>2, NoWorkType DEF ThreadInv, AudioInv, AudioPc, JobInv
<1>4. clean => ShutdownInv'
  BY AudioCleanStep, PlainFrameIs
<1>5. \A c \in Channels \ contested : c \in work[Audio].all /\ Progress(Audio, c) => Agreed(c)'
  BY NoWorkType
<1> QED
  BY <1>1, <1>3, <1>4, <1>5, EndStep DEF AudioPc, RequesterPc

LEMMA AudioLoopStep ==
  ASSUME IInv, AudioLoop
  PROVE  IInv'
<1> DEFINE p == IF pc[Main] = "running" THEN "listen" ELSE "off"
<1>1. work[Audio] = NoWork /\ pc[Audio] # "off"
  BY AudioFacts DEF AudioLoop, AudioInv
<1>2. Go(Audio, p, NoWork)
  BY <1>1, AudioFacts DEF AudioLoop, Go, IInv, TypeOK
<1>3. PlainFrame /\ stored' = stored /\ frame' = frame
  BY DEF AudioLoop, PlainFrame, database
<1> QED
  BY <1>1, <1>2, <1>3, AudioIdleStep

LEMMA AudioTickStep ==
  ASSUME IInv, NEW ticks \in BOOLEAN, AudioTick(ticks)
  PROVE  IInv'
<1> DEFINE p == IF ticks THEN "tick" ELSE "idle"
<1>1. work[Audio] = NoWork /\ pc[Audio] # "off"
  BY AudioFacts DEF AudioTick, AudioInv
<1>2. Go(Audio, p, NoWork)
  BY <1>1, AudioFacts DEF AudioTick, Go, IInv, TypeOK
<1>3. PlainFrame /\ stored' = stored /\ frame' = frame
  BY DEF AudioTick, PlainFrame, database
<1> QED
  BY <1>1, <1>2, <1>3, AudioIdleStep

LEMMA TickSenseStep ==
  ASSUME IInv, NEW to \in Look, TickSense(to)
  PROVE  IInv'
<1> DEFINE changed == {c \in EnabledChannels : to[c] # stored[c]}
           w == Job("tick", changed, to)
<1>1. /\ Audio \in Threads /\ Audio \notin Fades /\ Audio \notin Requesters /\ Audio # Main
      /\ work[Audio] = NoWork /\ pc[Audio] # "off"
  BY AudioFacts DEF TickSense, AudioInv
<1>2. /\ enabled' = enabled /\ scenes' = scenes /\ stored' = stored /\ frame' = frame
      /\ reactive' = reactive /\ token' = token /\ leaving' = leaving
      /\ spent' = spent /\ latest' = latest /\ clean' = clean
  BY DEF TickSense, database
<1>3. TypeOK /\ ControlInv /\ ValuesInv /\ ShutdownInv
  BY DEF IInv
<1>4. CASE changed = {}
  <2>1. Go(Audio, "idle", NoWork) /\ want' = want /\ contested' = contested
    BY <1>1, <1>4 DEF TickSense, Finish
  <2>2. PlainFrame
    BY <1>2, <2>1 DEF PlainFrame, history
  <2> QED
    BY <1>1, <1>2, <2>1, <2>2, AudioIdleStep
<1>5. CASE changed # {}
  <2>1. changed \in SUBSET Channels
    BY DEF EnabledChannels
  <2>2. Go(Audio, "store", w) /\ Begin(Audio, changed, to)
    BY <1>5 DEF TickSense
  <2>3. Takes(Audio, changed) /\ \A c \in changed : want'[c] = to[c]
    BY <1>1, <1>3, <2>1, <2>2, BeginTakes
  <2> HIDE DEF changed
  <2>4. /\ w \in Work /\ w.op = "tick" /\ w.all = changed /\ w.todo = changed /\ w.out = {}
        /\ w.to = to
    BY <2>1, JobType DEF Ops
  <2> HIDE DEF w
  <2>5. /\ pc'[Audio] = "store" /\ work'[Audio] = w
        /\ \A u \in Threads \ {Audio} : pc'[u] = pc[u] /\ work'[u] = work[u]
    BY <1>1, <1>3, <2>2, GoFrame
  <2>6. /\ pc' \in [Threads -> RequesterPc \cup FadePc \cup AudioPc \cup MainPc]
        /\ work' \in [Threads -> Work]
    BY <1>1, <1>3, <2>2, <2>4, GoType DEF RequesterPc
  <2>7. TypeOK'
    BY <1>2, <1>3, <2>3, <2>6 DEF TypeOK, Takes
  <2>8. ThreadInv(Audio)'
    BY <1>1, <1>5, <2>4, <2>5 DEF ThreadInv, AudioInv, AudioPc, JobInv
  <2>9. ControlInv'
    BY <1>1, <1>2, <1>3, <2>2, <2>8, ControlStep
  <2>10. ValuesInv'
    <3>1. \A c \in changed \ contested' : Progress(Audio, c)'
      BY <2>3, <2>4, <2>5 DEF Progress, StoredBy, SentBy
    <3>2. work[Audio].all = {}
      BY <1>1, NoWorkType
    <3> QED
      BY <1>1, <1>2, <1>3, <2>1, <2>2, <2>3, <2>4, <3>1, <3>2, BeginStep
  <2>11. ShutdownInv'
    <3>1. CASE clean
      BY <1>1, <1>2, <2>2, <3>1, AudioCleanStep
    <3>2. CASE ~clean
      <4>1. \A f \in Fades : work'[f].token <= token'
        BY <1>1, <1>2, <1>3, <2>5 DEF ShutdownInv, Threads
      <4> QED
        BY <1>2, <3>2, <4>1, NotClean
    <3> QED
      BY <3>1, <3>2
  <2> QED
    BY <2>7, <2>9, <2>10, <2>11 DEF IInv
<1> QED
  BY <1>4, <1>5

LEMMA TickStoreStep ==
  ASSUME IInv, TickStore
  PROVE  IInv'
<1> DEFINE w == work[Audio]
           here == FirstFixture(w.todo \cup w.out) \cap w.todo
           c == Least(here)
           x == [w EXCEPT !.todo = @ \ {c}, !.out = @ \cup {c}]
<1>1. /\ Audio \in Threads /\ Audio \notin Fades /\ Audio \notin Requesters /\ Audio # Main
      /\ w \in Work /\ AudioInv /\ JobInv(Audio) /\ stored \in Look /\ frame \in Look
  BY AudioFacts
<1>2. /\ pc[Audio] = "store" /\ here # {} /\ PlainFrame /\ frame' = frame
      /\ stored' = [stored EXCEPT ![c] = w.to[c]]
      /\ Go(Audio, "store", x)
  BY DEF TickStore, PlainFrame
<1>3. /\ w.all \subseteq Channels /\ w.todo \subseteq w.all /\ w.out \subseteq w.all
      /\ w.todo \subseteq Channels /\ w.to \in Look /\ w.op = "tick"
  BY <1>1, <1>2, WorkFields DEF AudioInv, JobInv
<1>4. c \in w.todo /\ c \in Channels /\ w.to[c] \in Values
  <2>1. here \in SUBSET Channels
    BY <1>3
  <2>2. c \in here
    BY <1>2, <2>1, LeastChannel
  <2> QED
    BY <1>3, <2>2 DEF Look
<1> HIDE DEF c, here
<1>5. /\ x \in Work /\ x.op = w.op /\ x.all = w.all /\ x.to = w.to
      /\ x.todo = w.todo \ {c} /\ x.out = w.out \cup {c}
  BY <1>1, <1>3, <1>4 DEF Work
<1> HIDE DEF x
<1>6. stored' \in Look /\ stored'[c] = w.to[c] /\ \A d \in Channels \ {c} : stored'[d] = stored[d]
  BY <1>1, <1>2, <1>4 DEF Look
<1>7. pc'[Audio] = "store" /\ work'[Audio] = x
  BY <1>1, <1>2, GoFrame DEF IInv
<1>8. ThreadInv(Audio)'
  BY <1>1, <1>3, <1>4, <1>5, <1>7 DEF ThreadInv, AudioInv, AudioPc, JobInv
<1>9. \A d \in Channels \ contested : d \in x.all /\ Progress(Audio, d) => Progress(Audio, d)'
  <2> SUFFICES ASSUME NEW d \in Channels \ contested, Progress(Audio, d) PROVE Progress(Audio, d)'
    OBVIOUS
  <2>1. want' = want
    BY <1>2, PlainFrameIs
  <2>2. /\ want[d] = w.to[d]
        /\ d \in w.all \ w.todo => stored[d] = w.to[d]
        /\ d \in w.all \ (w.todo \cup w.out) => frame[d] = w.to[d]
    BY <1>3 DEF Progress, StoredBy, SentBy
  <2> QED
    BY <1>2, <1>3, <1>4, <1>5, <1>6, <1>7, <2>1, <2>2 DEF Progress, StoredBy, SentBy
<1>10. clean => ShutdownInv'
  BY <1>2, AudioCleanStep, PlainFrameIs
<1>11. /\ \A d \in Channels \ w.all : stored'[d] = stored[d] /\ frame'[d] = frame[d]
       /\ frame' \in Look
       /\ x.all \subseteq w.all
       /\ \A d \in Channels \ contested : d \in w.all \ x.all /\ Progress(Audio, d) => Agreed(d)'
  BY <1>1, <1>2, <1>3, <1>4, <1>5, <1>6
<1> QED
  BY <1>1, <1>2, <1>5, <1>6, <1>8, <1>9, <1>10, <1>11, PlainStep DEF RequesterPc

LEMMA TickSendStep ==
  ASSUME IInv, TickSend
  PROVE  IInv'
<1> DEFINE w == work[Audio]
           c == Least(w.out)
           x == [w EXCEPT !.out = @ \ {c}]
<1>1. /\ Audio \in Threads /\ Audio \notin Fades /\ Audio \notin Requesters /\ Audio # Main
      /\ w \in Work /\ AudioInv /\ JobInv(Audio) /\ stored \in Look /\ frame \in Look
  BY AudioFacts
<1>2. /\ pc[Audio] = "store" /\ w.out # {} /\ PlainFrame /\ stored' = stored
      /\ frame' = [frame EXCEPT ![c] = w.to[c]]
  BY DEF TickSend, PlainFrame, database
<1>3. /\ w.all \subseteq Channels /\ w.todo \subseteq w.all /\ w.out \subseteq w.all
      /\ w.to \in Look /\ w.op = "tick" /\ w.out \subseteq Channels
  BY <1>1, <1>2, WorkFields DEF AudioInv, JobInv
<1>4. c \in w.out /\ c \in Channels /\ w.to[c] \in Values
  <2>1. w.out \in SUBSET Channels
    BY <1>3
  <2>2. c \in w.out
    BY <1>2, <2>1, LeastChannel
  <2> QED
    BY <1>3, <2>2 DEF Look
<1>5. /\ x \in Work /\ x.op = w.op /\ x.all = w.all /\ x.to = w.to
      /\ x.todo = w.todo /\ x.out = w.out \ {c}
  BY <1>1, <1>3 DEF Work
<1>6. frame' \in Look /\ frame'[c] = w.to[c] /\ \A d \in Channels \ {c} : frame'[d] = frame[d]
  BY <1>1, <1>2, <1>4 DEF Look
<1>7. \A d \in Channels \ w.all : stored'[d] = stored[d] /\ frame'[d] = frame[d]
  BY <1>2, <1>3, <1>4, <1>6
<1>8. want' = want
  BY <1>2, PlainFrameIs
<1>9. \A d \in Channels : Progress(Audio, d) =>
        /\ want[d] = w.to[d]
        /\ d \in w.all \ w.todo => stored[d] = w.to[d]
        /\ d \in w.all \ (w.todo \cup w.out) => frame[d] = w.to[d]
  BY <1>3 DEF Progress, StoredBy, SentBy
<1>10. CASE w.todo = {} /\ w.out = {c}
  <2>1. Go(Audio, "idle", NoWork)
    BY <1>1, <1>10 DEF TickSend, Finish
  <2>2. pc'[Audio] = "idle" /\ work'[Audio] = NoWork
    BY <1>1, <2>1, GoFrame DEF IInv
  <2>3. ThreadInv(Audio)'
    BY <1>1, <2>2, NoWorkType DEF ThreadInv, AudioInv, AudioPc, JobInv
  <2>4. \A d \in Channels \ contested : d \in w.all /\ Progress(Audio, d) => Agreed(d)'
    BY <1>2, <1>6, <1>8, <1>9, <1>10 DEF Agreed
  <2>5. clean => ShutdownInv'
    BY <1>2, <2>1, AudioCleanStep, PlainFrameIs
  <2> QED
    BY <1>1, <1>2, <1>6, <1>7, <2>1, <2>3, <2>4, <2>5, EndStep DEF AudioPc
<1>11. CASE ~(w.todo = {} /\ w.out = {c})
  <2>1. Go(Audio, "store", x)
    BY <1>11 DEF TickSend
  <2> HIDE DEF x
  <2>2. pc'[Audio] = "store" /\ work'[Audio] = x
    BY <1>1, <2>1, GoFrame DEF IInv
  <2>3. x.todo \cup x.out # {}
    BY <1>4, <1>5, <1>11
  <2>4. ThreadInv(Audio)'
    BY <1>1, <1>3, <1>5, <2>2, <2>3 DEF ThreadInv, AudioInv, AudioPc, JobInv
  <2>5. \A d \in Channels \ contested : d \in x.all /\ Progress(Audio, d) => Progress(Audio, d)'
    BY <1>2, <1>3, <1>5, <1>6, <1>8, <1>9, <2>2 DEF Progress, StoredBy, SentBy
  <2>6. clean => ShutdownInv'
    BY <1>2, <2>1, AudioCleanStep, PlainFrameIs
  <2>7. \A d \in Channels \ contested : d \in w.all \ x.all /\ Progress(Audio, d) => Agreed(d)'
    BY <1>5
  <2> QED
    BY <1>1, <1>2, <1>5, <1>6, <1>7, <2>1, <2>4, <2>5, <2>6, <2>7, PlainStep DEF RequesterPc
<1> QED
  BY <1>10, <1>11

-----------------------------------------------------------------------------
(***************************************************************************)
(* The main thread                                                         *)
(***************************************************************************)

LEMMA MainFacts ==
  ASSUME IInv
  PROVE  /\ Main \in Threads /\ Main \notin Fades /\ Main \notin Requesters /\ Main # Audio
         /\ work[Main] \in Work /\ MainInv /\ JobInv(Main)
         /\ stored \in Look /\ frame \in Look /\ want \in Look /\ token \in Nat
<1>1. Main \in Threads /\ Main \notin Fades /\ Main \notin Requesters /\ Main # Audio
  BY Constants DEF Threads
<1> QED
  BY <1>1, ThreadFacts DEF ThreadInv

\* The main thread goes on without a job, and the values stay as they are.
LEMMA MainIdleStep ==
  ASSUME IInv, work[Main] = NoWork, NEW p \in {"join", "done"},
         pc' = [pc EXCEPT ![Main] = p], work' = work,
         stored' = stored, enabled' = enabled, scenes' = scenes, frame' = frame,
         reactive' = reactive, want' = want, contested' = contested,
         spent' = spent, latest' = latest,
         token' \in {token, token + 1}, leaving' \in BOOLEAN, clean' \in BOOLEAN,
         clean' => ShutdownInv'
  PROVE  IInv'
<1>1. TypeOK /\ ControlInv /\ ValuesInv /\ ShutdownInv
  BY DEF IInv
<1>2. Main \in Threads /\ Main \notin Fades /\ Main \notin Requesters /\ Main # Audio
  BY MainFacts
<1>3. Go(Main, p, NoWork)
  BY <1>1, <1>2 DEF Go, TypeOK
<1>4. /\ pc' \in [Threads -> RequesterPc \cup FadePc \cup AudioPc \cup MainPc]
      /\ work' \in [Threads -> Work]
  BY <1>1, <1>2, <1>3, NoWorkType, GoType DEF MainPc
<1>5. TypeOK'
  <2>1. token' \in Nat
    BY <1>1 DEF TypeOK
  <2> QED
    BY <1>1, <1>4, <2>1 DEF TypeOK
<1>6. pc'[Main] = p /\ work'[Main] = NoWork
  BY <1>1, <1>2, <1>3, GoFrame
<1>7. ThreadInv(Main)'
  BY <1>2, <1>6, NoWorkType DEF ThreadInv, MainInv, MainPc, JobInv
<1>8. ControlInv'
  BY <1>1, <1>2, <1>3, <1>7, ControlStep
<1>9. ValuesInv'
  <2>1. NoWork.all = {}
    BY NoWorkType
  <2> QED
    BY <1>1, <1>2, <1>3, <2>1, ValuesStep
<1>10. ShutdownInv'
  <2>1. \A f \in Fades : work[f].token \in Nat /\ work[f].token <= token
    BY <1>1, WorkFields DEF TypeOK, ShutdownInv, Threads
  <2>2. \A f \in Fades : work'[f].token <= token'
    BY <1>1, <2>1 DEF TypeOK
  <2> QED
    BY <2>2, NotClean
<1> QED
  BY <1>5, <1>8, <1>9, <1>10 DEF IInv

LEMMA ShutdownBeginStep ==
  ASSUME IInv, ShutdownBegin
  PROVE  IInv'
<1>1. /\ Main \in Threads /\ Main \notin Fades /\ Main \notin Requesters /\ Main # Audio
      /\ work[Main] = NoWork /\ ~leaving /\ token \in Nat
  BY MainFacts DEF ShutdownBegin, MainInv
<1>2. /\ stored' = stored /\ enabled' = enabled /\ scenes' = scenes /\ frame' = frame
      /\ reactive' = reactive /\ want' = want /\ contested' = contested
      /\ spent' = spent /\ latest' = latest /\ leaving' = leaving /\ work' = work
      /\ token' = token + 1 /\ pc' = [pc EXCEPT ![Main] = "join"] /\ clean' \in BOOLEAN
  BY DEF ShutdownBegin, database
<1>3. pc'[Main] = "join" /\ \A u \in Threads \ {Main} : pc'[u] = pc[u]
  BY <1>1, <1>2 DEF IInv, TypeOK
<1>4. ASSUME clean' PROVE ShutdownInv'
  <2>1. /\ \A r \in Requesters : pc[r] = "idle"
        /\ \A f \in Fades : ~Landing(f)
    BY <1>4 DEF ShutdownBegin
  <2>2. \A r \in Requesters : pc'[r] = "idle"
    BY <1>1, <1>3, <2>1 DEF Threads
  <2>3. ASSUME NEW f \in Fades
        PROVE  /\ pc'[f] \in {"off", "check", "pass"}
               /\ work'[f].token < token'
               /\ pc'[f] = "pass" => work'[f].at # FadeSteps
    <3>1. f \in Threads /\ f # Main /\ pc'[f] = pc[f] /\ work'[f] = work[f]
      BY <1>1, <1>2, <1>3 DEF Threads
    <3>2. /\ FadeInv(f) /\ work[f].token <= token /\ work[f].token \in Nat
      BY <3>1, ThreadFacts, WorkFields DEF ThreadInv
    <3> QED
      BY <1>1, <1>2, <2>1, <3>1, <3>2 DEF FadeInv, FadePc, Landing
  <2>4. \A f \in Fades : work'[f].token <= token'
    BY <1>1, <1>2, <2>3, ThreadFacts, WorkFields DEF Threads
  <2> QED
    BY <1>1, <1>2, <1>3, <2>2, <2>3, <2>4 DEF ShutdownInv
<1>5. leaving' \in BOOLEAN
  BY <1>2 DEF IInv, TypeOK
<1> QED
  BY <1>1, <1>2, <1>4, <1>5, MainIdleStep

LEMMA ShutdownAgainStep ==
  ASSUME IInv, ShutdownAgain
  PROVE  IInv'
<1>1. /\ Main \in Threads /\ Main \notin Fades /\ Main \notin Requesters /\ Main # Audio
      /\ work[Main] = NoWork /\ token \in Nat /\ pc[Main] = "halt"
  BY MainFacts DEF ShutdownAgain, MainInv
<1>2. /\ stored' = stored /\ enabled' = enabled /\ scenes' = scenes /\ frame' = frame
      /\ reactive' = reactive /\ want' = want /\ contested' = contested
      /\ spent' = spent /\ latest' = latest /\ leaving' = TRUE /\ work' = work
      /\ token' = token + 1 /\ pc' = [pc EXCEPT ![Main] = "join"] /\ clean' = clean
  BY DEF ShutdownAgain, database, history
<1>3. pc'[Main] = "join" /\ \A u \in Threads \ {Main} : pc'[u] = pc[u]
  BY <1>1, <1>2 DEF IInv, TypeOK
<1>4. ASSUME clean' PROVE ShutdownInv'
  <2>1. /\ \A r \in Requesters : pc[r] = "idle"
        /\ pc[Audio] = "off" /\ stored = Black
        /\ \A f \in Fades : /\ pc[f] \in {"off", "check", "pass"}
                            /\ pc[f] # "off" => work[f].token < token
                            /\ pc[f] = "pass" => work[f].at # FadeSteps
                            /\ work[f].token <= token
    BY <1>1, <1>2, <1>4 DEF IInv, ShutdownInv
  <2>2. \A f \in Fades : work[f].token \in Nat
    BY ThreadFacts, WorkFields DEF Threads
  <2>3. \A f \in Fades : work'[f].token <= token' /\ (pc[f] # "off" => work'[f].token < token')
    BY <1>1, <1>2, <2>1, <2>2
  <2> QED
    BY <1>1, <1>2, <1>3, <2>1, <2>3, AudioFacts DEF ShutdownInv, Threads
<1>5. clean' \in BOOLEAN
  BY <1>2 DEF IInv, TypeOK
<1> QED
  BY <1>1, <1>2, <1>4, <1>5, MainIdleStep

LEMMA ShutdownEndStep ==
  ASSUME IInv, ShutdownEnd
  PROVE  IInv'
<1>1. /\ Main \in Threads /\ Main \notin Fades /\ Main \notin Requesters /\ Main # Audio
      /\ work[Main] = NoWork /\ pc[Main] = "halt"
  BY MainFacts DEF ShutdownEnd, MainInv
<1>2. /\ stored' = stored /\ enabled' = enabled /\ scenes' = scenes /\ frame' = frame
      /\ reactive' = reactive /\ want' = want /\ contested' = contested
      /\ spent' = spent /\ latest' = latest /\ leaving' = leaving /\ work' = work
      /\ token' = token /\ pc' = [pc EXCEPT ![Main] = "done"] /\ clean' = clean
  BY DEF ShutdownEnd, database, history
<1>3. pc'[Main] = "done" /\ \A u \in Threads \ {Main} : pc'[u] = pc[u]
  BY <1>1, <1>2 DEF IInv, TypeOK
<1>4. ASSUME clean' PROVE ShutdownInv'
  BY <1>1, <1>2, <1>3, <1>4, AudioFacts DEF IInv, ShutdownInv, Threads
<1>5. clean' \in BOOLEAN /\ leaving' \in BOOLEAN
  BY <1>2 DEF IInv, TypeOK
<1> QED
  BY <1>1, <1>2, <1>4, <1>5, MainIdleStep

LEMMA ShutdownJoinStep ==
  ASSUME IInv, ShutdownJoin
  PROVE  IInv'
<1> DEFINE w == IF Lit = {} THEN NoWork ELSE Job("persist", Lit, Black)
           p == IF Lit = {} THEN "halt" ELSE "store"
<1>1. /\ Main \in Threads /\ Main \notin Fades /\ Main \notin Requesters /\ Main # Audio
      /\ work[Main] = NoWork /\ pc[Main] = "join" /\ pc[Audio] = "off" /\ stored \in Look
  BY MainFacts DEF ShutdownJoin, MainInv
<1>2. /\ stored' = stored /\ enabled' = enabled /\ scenes' = scenes /\ frame' = frame
      /\ reactive' = reactive /\ token' = token /\ leaving' = leaving
      /\ spent' = spent /\ latest' = latest /\ clean' = clean
  BY DEF ShutdownJoin, database
<1>3. TypeOK /\ ControlInv /\ ValuesInv /\ ShutdownInv
  BY DEF IInv
<1>4. Lit \in SUBSET Channels /\ \A c \in Channels \ Lit : stored[c] = 0
  BY DEF Lit
<1>5. Go(Main, p, w)
  BY DEF ShutdownJoin
<1>6. /\ w \in Work /\ w.all = Lit /\ w.todo = Lit /\ w.out = {}
      /\ Lit # {} => w.op = "persist" /\ w.to = Black
      /\ Lit = {} => w = NoWork
  <2>1. CASE Lit = {}
    BY <2>1, NoWorkType
  <2>2. CASE Lit # {}
    BY <1>4, <2>2, Looks, JobType DEF Ops
  <2> QED
    BY <2>1, <2>2
<1> HIDE DEF w
<1>7. Takes(Main, Lit) /\ \A c \in Lit : want'[c] = 0
  <2>1. Begin(Main, Lit, Black)
    BY DEF ShutdownJoin
  <2>2. Takes(Main, Lit) /\ \A c \in Lit : want'[c] = Black[c]
    BY <1>1, <1>3, <1>4, <2>1, Looks, BeginTakes
  <2> QED
    BY <1>4, <2>2 DEF Black
<1>8. /\ pc'[Main] = p /\ work'[Main] = w
      /\ \A u \in Threads \ {Main} : pc'[u] = pc[u] /\ work'[u] = work[u]
  BY <1>1, <1>3, <1>5, GoFrame
<1>9. TypeOK'
  <2>1. /\ pc' \in [Threads -> RequesterPc \cup FadePc \cup AudioPc \cup MainPc]
        /\ work' \in [Threads -> Work]
    BY <1>1, <1>3, <1>5, <1>6, GoType DEF MainPc
  <2> QED
    BY <1>2, <1>3, <1>7, <2>1 DEF TypeOK, Takes
<1>10. ThreadInv(Main)'
  BY <1>1, <1>6, <1>8, NoWorkType DEF ThreadInv, MainInv, MainPc, JobInv
<1>11. ControlInv'
  BY <1>1, <1>3, <1>5, <1>10, ControlStep
<1>12. ValuesInv'
  <2>1. \A c \in Lit \ contested' : Progress(Main, c)'
    BY <1>4, <1>6, <1>7, <1>8 DEF Progress, StoredBy, SentBy, Black
  <2>2. work[Main].all = {}
    BY <1>1, NoWorkType
  <2> HIDE DEF p
  <2> QED
    BY <1>1, <1>2, <1>3, <1>4, <1>5, <1>6, <1>7, <2>1, <2>2, BeginStep
<1>13. ShutdownInv'
  <2>1. \A f \in Fades : work'[f].token <= token'
    BY <1>1, <1>2, <1>3, <1>8 DEF ShutdownInv, Threads
  <2>2. Lit = {} => stored' = Black
    BY <1>1, <1>2, <1>4 DEF Look, Black
  <2>3. \A c \in Channels \ Lit : stored'[c] = 0
    BY <1>2, <1>4
  <2> QED
    BY <1>1, <1>2, <1>3, <1>6, <1>8, <2>1, <2>2, <2>3 DEF ShutdownInv, Threads
<1> QED
  BY <1>9, <1>11, <1>12, <1>13 DEF IInv

-----------------------------------------------------------------------------
(***************************************************************************)
(* The invariant holds                                                     *)
(***************************************************************************)

LEMMA InitEstablishes == Init => IInv
<1> SUFFICES ASSUME Init PROVE IInv
  OBVIOUS
<1>1. \A t \in Threads : work[t] = NoWork
  BY DEF Init
<1>2. \A r \in Requesters : pc[r] = "idle"
  BY Constants DEF Init, Threads
<1>3. \A f \in Fades : pc[f] = "off"
  BY DEF Init, Threads
<1>4. pc[Audio] = "idle" /\ pc[Main] = "running"
  BY Constants DEF Init, Threads
<1>5. TypeOK
  <2>1. frame \in Look
    BY Looks DEF Init
  <2>2. work \in [Threads -> Work]
    BY NoWorkType DEF Init
  <2>3. pc \in [Threads -> RequesterPc \cup FadePc \cup AudioPc \cup MainPc]
    BY DEF Init, RequesterPc, FadePc, AudioPc, MainPc
  <2>4. spent \in 0 .. MaxRequests
    BY Constants DEF Init
  <2> QED
    BY <2>1, <2>2, <2>3, <2>4 DEF Init, TypeOK
<1>6. ControlInv
  <2> SUFFICES ASSUME NEW t \in Threads PROVE ThreadInv(t)
    BY DEF ControlInv
  <2>1. JobInv(t)
    BY <1>1, <1>2, <1>3, <1>4, NoWorkType DEF JobInv, Threads
  <2>2. t \in Requesters => RequesterInv(t)
    BY <1>1, <1>2 DEF RequesterInv, RequesterPc
  <2>3. t \in Fades => FadeInv(t)
    BY <1>1, <1>3 DEF FadeInv, FadePc
  <2>4. t = Audio => AudioInv
    BY <1>1, <1>4 DEF AudioInv, AudioPc
  <2>5. t = Main => MainInv
    BY <1>1, <1>4 DEF MainInv, MainPc, Init
  <2> QED
    BY <2>1, <2>2, <2>3, <2>4, <2>5 DEF ThreadInv
<1>7. ValuesInv
  <2>1. \A c \in Channels, t \in Threads : c \notin work[t].all
    BY <1>1, NoWorkType
  <2>2. \A c \in Channels : Agreed(c)
    BY DEF Init, Agreed, Patched
  <2> QED
    BY <2>1, <2>2 DEF ValuesInv
<1>8. ShutdownInv
  <2>1. \A f \in Fades : work[f].token = 0
    BY <1>1, NoWorkType DEF Threads
  <2> QED
    BY <2>1 DEF Init, ShutdownInv
<1> QED
  BY <1>5, <1>6, <1>7, <1>8 DEF IInv

LEMMA StutterStep ==
  ASSUME IInv, UNCHANGED vars
  PROVE  IInv'
<1>1. /\ stored' = stored /\ enabled' = enabled /\ scenes' = scenes /\ frame' = frame
      /\ reactive' = reactive /\ token' = token /\ leaving' = leaving /\ pc' = pc
      /\ work' = work /\ spent' = spent /\ latest' = latest /\ want' = want
      /\ contested' = contested /\ clean' = clean
  BY DEF vars, database, history
<1>2. TypeOK'
  BY <1>1 DEF IInv, TypeOK
<1>3. ControlInv'
  <2> SUFFICES ASSUME NEW t \in Threads PROVE ThreadInv(t)'
    BY DEF ControlInv
  <2>1. ThreadInv(t)
    BY DEF IInv, ControlInv
  <2> QED
    BY <1>1, <2>1 DEF ThreadInv, RequesterInv, FadeInv, AudioInv, MainInv, JobInv
<1>4. ValuesInv'
  BY <1>1, QuietStep DEF IInv
<1>5. ShutdownInv'
  BY <1>1 DEF IInv, ShutdownInv
<1> QED
  BY <1>2, <1>3, <1>4, <1>5 DEF IInv

LEMMA NextPreserves == IInv /\ [Next]_vars => IInv'
<1> SUFFICES ASSUME IInv, [Next]_vars PROVE IInv'
  OBVIOUS
<1>1. ASSUME NEW r \in Requesters, NewRequest(r) PROVE IInv'
  <2>1. CASE \E c \in Channels, x \in Values : SetRequest(r, c, x)
    BY <2>1, SetRequestStep
  <2>2. CASE \E S \in (SUBSET Channels) \ {{}} : \E v \in [S -> Values] :
               GroupRequest(r, v) \/ PatchRequest(r, v)
    <3>1. PICK S \in (SUBSET Channels) \ {{}} : \E v \in [S -> Values] :
                 GroupRequest(r, v) \/ PatchRequest(r, v)
      BY <2>2
    <3>2. PICK v \in [S -> Values] : GroupRequest(r, v) \/ PatchRequest(r, v)
      BY <3>1
    <3>3. S \in SUBSET Channels /\ S # {}
      OBVIOUS
    <3>4. GroupRequest(r, v) => IInv'
      BY <3>3, GroupRequestStep
    <3>5. PatchRequest(r, v) => IInv'
      BY <3>3, PatchRequestStep
    <3> QED
      BY <3>2, <3>4, <3>5
  <2>3. CASE BlackoutRequest(r)
    BY <2>3, BlackoutRequestStep
  <2>4. CASE \E f \in Fixtures, on \in BOOLEAN : EnableRequest(r, f, on)
    BY <2>4, EnableRequestStep
  <2>5. CASE \E on \in BOOLEAN : ReactiveRequest(r, on)
    BY <2>5, ReactiveRequestStep
  <2>6. CASE \E s \in Scenes : CaptureRequest(r, s)
    BY <2>6, CaptureRequestStep
  <2>7. CASE \E s \in Scenes, op \in {"instant", "fade"} : RecallRequest(r, s, op)
    BY <2>7, RecallRequestStep
  <2> QED
    BY <1>1, <2>1, <2>2, <2>3, <2>4, <2>5, <2>6, <2>7 DEF NewRequest
<1>2. ASSUME NEW r \in Requesters, RequesterStep(r) PROVE IInv'
  <2>1. r \in Threads
    BY DEF Threads
  <2> QED
    BY <1>2, <2>1, StoreChannelStep, SetChannelStep, WriteChannelStep, LoadUniverseStep,
       ReplaceUniverseStep, BlackoutListStep, ClearUniverseStep, CalmStep, RecallListStep,
       RecallStartStep DEF RequesterStep
<1>3. ASSUME NEW f \in Fades, FadeStep(f) PROVE IInv'
  <2>1. f \in Threads
    BY DEF Threads
  <2> QED
    BY <1>3, <2>1, FadeSupersededStep, FadeCheckStep, FadeChannelStep, StoreChannelStep,
       SetChannelStep DEF FadeStep
<1>4. CASE AudioStep
  BY <1>4, AudioLoopStep, AudioTickStep, TickSenseStep, TickStoreStep, TickSendStep
     DEF AudioStep
<1>5. CASE ShutdownBegin \/ ShutdownStep
  BY <1>5, ShutdownBeginStep, ShutdownJoinStep, MainFacts, StoreChannelStep, SetChannelStep,
     ShutdownAgainStep, ShutdownEndStep DEF ShutdownStep
<1>6. CASE Terminated \/ UNCHANGED vars
  BY <1>6, StutterStep DEF Terminated
<1> QED
  BY <1>1, <1>2, <1>3, <1>4, <1>5, <1>6 DEF Next

-----------------------------------------------------------------------------
(***************************************************************************)
(* Theorems                                                                *)
(***************************************************************************)

\* The inductive invariant holds in every state the program reaches.
THEOREM Inductive == Spec => []IInv
BY InitEstablishes, NextPreserves, PTL DEF Spec

\* Every variable keeps its type: no job writes a value out of range, whatever
\* the transition it blends.
THEOREM TypeCorrect == Spec => []TypeOK
<1>1. IInv => TypeOK
  BY DEF IInv
<1> QED
  BY <1>1, Inductive, PTL

\* What the engine sends for an enabled fixture is what the database stores, once
\* the jobs on the channel are over and none of them overlapped.
THEOREM Agreement == Spec => []StoreAndOutputAgree
<1>1. IInv => StoreAndOutputAgree
  BY DEF IInv, ValuesInv, Unowned, Agreed, Settled, StoreAndOutputAgree, EnabledChannels
<1> QED
  BY <1>1, Inductive, PTL

\* The value in the database is the one the latest job on the channel was after,
\* however many threads write the other channels meanwhile.
THEOREM LatestWins == Spec => []LatestJobWins
<1>1. IInv => LatestJobWins
  BY DEF IInv, ValuesInv, Unowned, Agreed, Settled, LatestJobWins
<1> QED
  BY <1>1, Inductive, PTL

\* After a blackout the channels of disabled fixtures are dark too.
THEOREM BlackoutReachesAll == Spec => []BlackoutIsTotal
<1>1. IInv => BlackoutIsTotal
  BY DEF IInv, ValuesInv, Unowned, Agreed, Settled, BlackoutIsTotal
<1> QED
  BY <1>1, Inductive, PTL

\* shutdown() leaves zeros in the database when no request and no final pass of a
\* transition meets it.
THEOREM CleanShutdown == Spec => []CleanShutdownSavesZeros
<1>1. IInv => CleanShutdownSavesZeros
  BY DEF IInv, ShutdownInv, CleanShutdownSavesZeros
<1> QED
  BY <1>1, Inductive, PTL
=============================================================================
