------------------------- MODULE FixturePatch_proofs -------------------------
(***************************************************************************)
(* Theorems about FixturePatch, for any number of templates, fixtures,     *)
(* channels, groups, scenes and threads, any size of a universe and any    *)
(* range of int.                                                           *)
(*                                                                         *)
(* Finite sets of numbers have a largest element, and the fixtures that    *)
(* normalizeFixtureSortOrder() numbers get the numbers from 1 without gaps *)
(* in the order they had: both are proved here, the first by looking at    *)
(* a smallest set without a largest element.                               *)
(***************************************************************************)
EXTENDS FixturePatch, FiniteSetTheorems, TLAPS

-----------------------------------------------------------------------------
(***************************************************************************)
(* The inductive invariant                                                 *)
(***************************************************************************)

Tables == UNION {[S -> Channel] : S \in SUBSET Indices}
Template == [footprint : Nat, channels : Tables]
Lists == UNION {[1 .. n -> Values] : n \in 1 .. MaxInt}
Fixture == [template : Templates, universe : Universes, start : Nat, count : Nat,
            order : Nat, enabled : BOOLEAN, values : Lists]
Ids == 1 .. MaxFixtures
Listed == [template : Templates, for : Ids]
Writes == [id : Ids, index : Int, value : Values, for : Ids]
Work == [members : SUBSET Ids, listed : UNION {[S -> Listed] : S \in SUBSET Ids},
         kind : Kinds \cup {""}, value : Values, scene : Scenes \cup {""},
         todo : SUBSET Writes]

\* The footprint of a template is its last channel, unless a crash or a failure tore them apart.
TemplatesInv ==
  /\ DOMAIN templates \subseteq Templates
  /\ \A t \in DOMAIN templates :
       /\ templates[t] \in Template
       /\ templates[t].footprint <= FootprintOf(templates[t].channels)
       /\ t \notin torn => templates[t].footprint = FootprintOf(templates[t].channels)
  /\ torn \subseteq DOMAIN templates

FixtureInv(f) ==
  LET x == fixtures[f] IN
  /\ f \in 1 .. created
  /\ x \in Fixture
  /\ x.template \in DOMAIN templates
  /\ x.universe >= 1 /\ x.start \in 1 .. LastAddress /\ x.count \in 1 .. MaxInt
  /\ Last(x) <= LastAddress \/ Last(x) > MaxInt
  /\ x.values \in [1 .. x.count -> Values]

FixturesInv == \A f \in DOMAIN fixtures : FixtureInv(f)

\* The sort order numbers the fixtures.
OrderInv ==
  /\ \A f \in DOMAIN fixtures : fixtures[f].order \in 1 .. Cardinality(DOMAIN fixtures)
  /\ \A f, g \in DOMAIN fixtures : fixtures[f].order = fixtures[g].order => f = g

\* Whether a fixture is enabled does not matter: it may be enabled again.
OverlapInv ==
  /\ tolerated \subseteq SUBSET (DOMAIN fixtures)
  /\ \A f, g \in DOMAIN fixtures :
       f < g /\ Overlapping(fixtures[f], fixtures[g])
         => {f, g} \in tolerated \/ Last(fixtures[g]) > MaxInt

ReferencesInv ==
  /\ DOMAIN groups \subseteq Groups
  /\ \A g \in DOMAIN groups : groups[g] \subseteq DOMAIN fixtures
  /\ DOMAIN scenes \subseteq Scenes
  /\ \A s \in DOMAIN scenes : \A r \in DOMAIN scenes[s] :
       r \in Rows /\ scenes[s][r] \in Values

\* Ids are given once, so what a handler listed stays what the ids stand for.
CountersInv ==
  /\ created \in Nat /\ created = births /\ births <= MaxFixtures
  /\ DOMAIN born = 1 .. created /\ \A f \in 1 .. created : born[f] \in Ids
  /\ spent \in 0 .. MaxCalls /\ up \in BOOLEAN

HandlerInv(r) ==
  /\ pc[r] \in {"idle", "fixtures", "templates", "scene", "write"}
  /\ work[r] \in Work
  /\ \A f \in DOMAIN work[r].listed : f \in 1 .. created /\ work[r].listed[f].for = born[f]
  /\ \A w \in work[r].todo : w.id \in 1 .. created /\ w.for = born[w.id]

HandlersInv ==
  /\ DOMAIN pc = Requesters /\ DOMAIN work = Requesters
  /\ \A r \in Requesters : HandlerInv(r)

IInv ==
  /\ TemplatesInv /\ FixturesInv /\ OrderInv /\ OverlapInv /\ ReferencesInv
  /\ CountersInv /\ HandlersInv

-----------------------------------------------------------------------------
(***************************************************************************)
(* The largest element of a set, and numberings                            *)
(***************************************************************************)

\* A finite set of numbers that is not empty has a largest element.
LEMMA LargestExists ==
  ASSUME NEW S \in SUBSET Int, IsFiniteSet(S), S # {}
  PROVE  \E m \in S : \A n \in S : n <= m
<1> DEFINE Bad == {T \in FiniteSubsetsOf(S) : T # {} /\ ~ \E m \in T : \A n \in T : n <= m}
<1> SUFFICES ASSUME Bad # {} PROVE FALSE
  BY DEF FiniteSubsetsOf
<1>1. PICK T \in Bad : \A U \in Bad : ~(<<U, T>> \in StrictSubsetOrdering(S))
  BY FS_StrictSubsetOrderingWellFounded, WFMin, Zenon
<1>2. T \in SUBSET S /\ IsFiniteSet(T) /\ T # {} /\ ~ \E m \in T : \A n \in T : n <= m
  BY DEF FiniteSubsetsOf
<1>3. PICK x \in T : TRUE
  BY <1>2
<1> DEFINE U == T \ {x}
<1>4. IsFiniteSet(U) /\ U \in SUBSET S
  BY <1>2, FS_RemoveElement
<1>5. U \notin Bad
  BY <1>1, <1>2, <1>3, <1>4 DEF StrictSubsetOrdering
<1>6. CASE U = {}
  BY <1>2, <1>3, <1>6
<1>7. CASE U # {}
  <2>1. PICK m \in U : \A n \in U : n <= m
    BY <1>4, <1>5, <1>7 DEF FiniteSubsetsOf
  <2>2. m \in Int /\ x \in Int /\ \A n \in T : n \in Int
    BY <1>2, <1>3, <2>1
  <2>3. CASE x <= m
    BY <1>2, <2>1, <2>2, <2>3
  <2>4. CASE ~(x <= m)
    <3>1. \A n \in T : n <= x
      BY <2>1, <2>2, <2>4
    <3> QED
      BY <1>2, <1>3, <3>1
  <2> QED
    BY <2>3, <2>4
<1> QED
  BY <1>6, <1>7

LEMMA LargestIn ==
  ASSUME NEW S \in SUBSET Int, IsFiniteSet(S)
  PROVE  /\ Largest(S) \in Int
         /\ S # {} => Largest(S) \in S
         /\ \A n \in S : n <= Largest(S)
<1>1. CASE S = {}
  <2>1. Largest(S) = 0
    BY <1>1 DEF Largest
  <2> QED
    BY <1>1, <2>1
<1>2. CASE S # {}
  <2>1. \E m \in S : \A n \in S : n <= m
    BY <1>2, LargestExists
  <2>2. Largest(S) = CHOOSE m \in S : \A n \in S : n <= m
    BY <1>2 DEF Largest
  <2>3. Largest(S) \in S /\ \A n \in S : n <= Largest(S)
    BY <2>1, <2>2
  <2> QED
    BY <1>2, <2>3
<1> QED
  BY <1>1, <1>2

LEMMA LargestIs ==
  ASSUME NEW S \in SUBSET Int, NEW m \in S, \A n \in S : n <= m
  PROVE  Largest(S) = m
<1>1. Largest(S) \in S /\ \A n \in S : n <= Largest(S)
  BY DEF Largest
<1>2. Largest(S) \in Int /\ m \in Int /\ Largest(S) <= m /\ m <= Largest(S)
  BY <1>1
<1> QED
  BY <1>2

LEMMA LargestOfTwo ==
  ASSUME NEW a \in Int, NEW b \in Int
  PROVE  Largest({a, b}) = IF a <= b THEN b ELSE a
BY LargestIs

\* What one more element makes of the largest.
LEMMA LargestWith ==
  ASSUME NEW S \in SUBSET Int, IsFiniteSet(S), S # {}, NEW i \in Int
  PROVE  Largest(S \cup {i}) = Largest({Largest(S), i})
<1>1. /\ Largest(S) \in Int
      /\ S # {} => Largest(S) \in S
      /\ \A n \in S : n <= Largest(S)
  BY LargestIn
<1> DEFINE m == IF Largest(S) <= i THEN i ELSE Largest(S)
<1>2. m \in S \cup {i} /\ \A n \in S \cup {i} : n <= m
  BY <1>1
<1>3. Largest(S \cup {i}) = m
  BY <1>2, LargestIs
<1> QED
  BY <1>1, <1>3, LargestOfTwo

\* Different numbers of n things, none above n, are all the numbers up to n.
LEMMA NumberingIsOnto ==
  ASSUME NEW S, IsFiniteSet(S), NEW p \in [S -> 1 .. Cardinality(S)],
         \A x, y \in S : p[x] = p[y] => x = y
  PROVE  {p[x] : x \in S} = 1 .. Cardinality(S)
<1> DEFINE n == Cardinality(S)
<1>1. n \in Nat
  BY FS_CardinalityType
<1>2. IsFiniteSet(1 .. n) /\ Cardinality(1 .. n) = n
  BY <1>1, FS_Interval
<1>3. p \in Injection(S, 1 .. n)
  BY DEF Injection, IsInjective
<1>4. p \in Surjection(S, 1 .. n)
  BY <1>2, <1>3, FS_Injection, Zenon
<1> QED
  BY <1>4 DEF Surjection

\* The fixtures before f when they are numbered.
Earlier(F, f) == {g \in DOMAIN F : Before(F, g, f)}

\* normalizeFixtureSortOrder() numbers the fixtures from 1 and keeps their order.
LEMMA NormalizedNumbers ==
  ASSUME NEW F, IsFiniteSet(DOMAIN F), DOMAIN F \subseteq Nat,
         \A f \in DOMAIN F : F[f] \in Fixture
  PROVE  LET N == Normalized(F) IN
         /\ DOMAIN N = DOMAIN F
         /\ \A f \in DOMAIN F : N[f] = [F[f] EXCEPT !.order = N[f].order]
         /\ \A f \in DOMAIN F : N[f].order \in 1 .. Cardinality(DOMAIN F)
         /\ \A f, g \in DOMAIN F : Before(F, f, g) => N[f].order < N[g].order
         /\ \A f, g \in DOMAIN F : N[f].order = N[g].order => f = g
<1> DEFINE D == DOMAIN F
           N == Normalized(F)
           c(f) == Cardinality(Earlier(F, f))
<1>1. \A f \in D : F[f].order \in Nat /\ f \in Nat
  BY DEF Fixture
<1>2. \A f \in D : Earlier(F, f) \in SUBSET D /\ f \notin Earlier(F, f)
  BY <1>1 DEF Earlier, Before
<1>3. ASSUME NEW f \in D PROVE IsFiniteSet(Earlier(F, f)) /\ c(f) \in 0 .. Cardinality(D) - 1
  <2>1. IsFiniteSet(D \ {f}) /\ Cardinality(D \ {f}) = Cardinality(D) - 1
    BY FS_RemoveElement
  <2>2. Earlier(F, f) \in SUBSET (D \ {f})
    BY <1>2
  <2>3. IsFiniteSet(Earlier(F, f)) /\ c(f) <= Cardinality(D) - 1
    BY <2>1, <2>2, FS_Subset
  <2>4. c(f) \in Nat
    BY <2>3, FS_CardinalityType
  <2>5. Cardinality(D) \in Nat
    BY FS_CardinalityType
  <2> QED
    BY <2>3, <2>4, <2>5
<1>4. ASSUME NEW f \in D, NEW g \in D, Before(F, f, g) PROVE c(f) < c(g)
  <2>1. Earlier(F, f) \cup {f} \in SUBSET Earlier(F, g)
    BY <1>1, <1>4 DEF Earlier, Before
  <2>2. Cardinality(Earlier(F, f) \cup {f}) = c(f) + 1
    BY <1>2, <1>3, FS_AddElement
  <2>3. c(f) + 1 <= c(g)
    BY <1>3, <2>1, <2>2, FS_Subset
  <2> QED
    BY <1>3, <2>3
<1>5. DOMAIN N = D
  BY DEF Normalized
<1>6. \A f \in D : N[f] = [F[f] EXCEPT !.order = 1 + c(f)]
  BY DEF Normalized, Earlier
<1>7. \A f \in D : N[f].order = 1 + c(f)
  BY <1>6 DEF Fixture
<1>8. \A f \in D : N[f].order \in 1 .. Cardinality(D)
  <2>1. Cardinality(D) \in Nat
    BY FS_CardinalityType
  <2> QED
    BY <1>3, <1>7, <2>1
<1>9. \A f, g \in D : Before(F, f, g) => N[f].order < N[g].order
  BY <1>3, <1>4, <1>7
<1>10. \A f, g \in D : f # g => Before(F, f, g) \/ Before(F, g, f)
  BY <1>1 DEF Before
<1>11. \A f, g \in D : N[f].order = N[g].order => f = g
  BY <1>8, <1>9, <1>10
<1> QED
  BY <1>5, <1>6, <1>7, <1>8, <1>9, <1>11

-----------------------------------------------------------------------------
(***************************************************************************)
(* The types of tables and records                                         *)
(***************************************************************************)

LEMMA Constants ==
  /\ MaxValue \in Nat /\ LastAddress \in Nat /\ MaxFixtures \in Nat /\ MaxCalls \in Nat
  /\ MaxInt \in Nat /\ LastAddress <= MaxInt
  /\ Overrides \subseteq Ints /\ Universes \subseteq Ints /\ Ints \subseteq Int
  /\ Indices \subseteq Ints /\ IsFiniteSet(Indices)
  /\ Mira \in Templates /\ Par \in Templates /\ Mira # Par
  /\ MiraChannels \in Tables /\ ParChannels \in Tables
  /\ 0 \in Values
<1>1. /\ MaxValue \in Nat /\ LastAddress \in Nat /\ MaxFixtures \in Nat /\ MaxCalls \in Nat
      /\ MaxInt \in Nat /\ LastAddress <= MaxInt
      /\ Overrides \subseteq Ints /\ Universes \subseteq Ints /\ Indices \subseteq Ints
  BY BoundsAssumption, IndicesAssumption
<1>2. Ints \subseteq Int /\ IsFiniteSet(Ints)
  BY <1>1, FS_Interval DEF Ints
<1>3. IsFiniteSet(Indices)
  BY <1>1, <1>2, FS_Subset
<1> QED
  BY <1>1, <1>2, <1>3, SeedsAssumption DEF Tables, Values

LEMMA TableFacts ==
  ASSUME NEW c \in Tables
  PROVE  /\ DOMAIN c \in SUBSET Indices /\ DOMAIN c \in SUBSET Int
         /\ \A i \in DOMAIN c : c[i] \in Channel
         /\ IsFiniteSet(DOMAIN c)
<1>1. DOMAIN c \in SUBSET Indices /\ \A i \in DOMAIN c : c[i] \in Channel
  BY DEF Tables
<1>2. IsFiniteSet(DOMAIN c)
  BY <1>1, Constants, FS_Subset
<1> QED
  BY <1>1, <1>2, Constants

LEMMA TableWith ==
  ASSUME NEW c \in Tables, NEW i \in Indices, NEW ch \in Channel
  PROVE  With(c, i, ch) \in Tables /\ DOMAIN With(c, i, ch) = DOMAIN c \cup {i}
<1>1. DOMAIN c \cup {i} \in SUBSET Indices /\ \A x \in DOMAIN c : c[x] \in Channel
  BY TableFacts
<1>2. With(c, i, ch) \in [DOMAIN c \cup {i} -> Channel]
  BY <1>1 DEF With
<1> QED
  BY <1>1, <1>2 DEF Tables

\* The last channel of a template, or 0: indices may be negative.
LEMMA FootprintIs ==
  ASSUME NEW c \in Tables
  PROVE  /\ {0} \cup DOMAIN c \in SUBSET Int /\ IsFiniteSet({0} \cup DOMAIN c)
         /\ FootprintOf(c) \in Nat
<1>1. {0} \cup DOMAIN c \in SUBSET Int /\ IsFiniteSet({0} \cup DOMAIN c)
  BY TableFacts, FS_AddElement
<1>2. FootprintOf(c) \in Int /\ \A n \in {0} \cup DOMAIN c : n <= FootprintOf(c)
  BY <1>1, LargestIn DEF FootprintOf
<1> QED
  BY <1>1, <1>2

LEMMA EmptyTable == Empty \in Tables /\ DOMAIN Empty = {} /\ FootprintOf(Empty) = 0
<1>1. Empty \in Tables /\ DOMAIN Empty = {}
  BY DEF Empty, Tables
<1>2. Largest({0}) = 0
  BY LargestIs
<1> QED
  BY <1>1, <1>2 DEF FootprintOf

LEMMA TableUpdate ==
  ASSUME NEW c \in Tables, NEW i \in DOMAIN c, NEW ch \in Channel
  PROVE  [c EXCEPT ![i] = ch] \in Tables /\ DOMAIN [c EXCEPT ![i] = ch] = DOMAIN c
<1>1. DOMAIN c \in SUBSET Indices /\ \A x \in DOMAIN c : c[x] \in Channel
  BY TableFacts
<1>2. [c EXCEPT ![i] = ch] \in [DOMAIN c -> Channel]
  BY <1>1
<1> QED
  BY <1>1, <1>2 DEF Tables

\* The values of a fixture.
LEMMA ListFacts ==
  ASSUME NEW n \in 1 .. MaxInt, NEW v \in [1 .. n -> Values]
  PROVE  /\ v \in Lists
         /\ \A i \in 1 .. n, x \in Values : [v EXCEPT ![i] = x] \in [1 .. n -> Values]
BY DEF Lists

LEMMA NoWorkType ==
  NoWork \in Work /\ NoWork.listed = Empty /\ DOMAIN NoWork.listed = {} /\ NoWork.todo = {}
<1>1. Empty \in UNION {[S -> Listed] : S \in SUBSET Ids} /\ DOMAIN Empty = {}
  BY DEF Empty
<1> QED
  BY <1>1, Constants DEF NoWork, Work

-----------------------------------------------------------------------------
(***************************************************************************)
(* What a step leaves alone                                                *)
(***************************************************************************)

LEMMA Frames ==
  ASSUME IInv
  PROVE  /\ templates' = templates /\ torn' = torn => TemplatesInv'
         /\ fixtures' = fixtures => OrderInv'
         /\ fixtures' = fixtures /\ created' = created /\ DOMAIN templates \subseteq DOMAIN templates'
              => FixturesInv'
         /\ fixtures' = fixtures /\ tolerated' = tolerated => OverlapInv'
         /\ fixtures' = fixtures /\ groups' = groups /\ scenes' = scenes => ReferencesInv'
<1>1. TemplatesInv /\ FixturesInv /\ OrderInv /\ OverlapInv /\ ReferencesInv
  BY DEF IInv
<1>2. templates' = templates /\ torn' = torn => TemplatesInv'
  BY <1>1 DEF TemplatesInv
<1>3. fixtures' = fixtures => OrderInv'
  BY <1>1 DEF OrderInv
<1>4. fixtures' = fixtures /\ created' = created /\ DOMAIN templates \subseteq DOMAIN templates'
        => FixturesInv'
  BY <1>1 DEF FixturesInv, FixtureInv
<1>5. fixtures' = fixtures /\ tolerated' = tolerated => OverlapInv'
  BY <1>1 DEF OverlapInv
<1>6. fixtures' = fixtures /\ groups' = groups /\ scenes' = scenes => ReferencesInv'
  BY <1>1 DEF ReferencesInv, Rows
<1> QED
  BY <1>2, <1>3, <1>4, <1>5, <1>6

LEMMA HandlersFrame ==
  ASSUME IInv, pc' = pc, work' = work, created' \in Nat, created <= created',
         \A f \in 1 .. created : born'[f] = born[f]
  PROVE  HandlersInv'
<1>1. created \in Nat /\ 1 .. created \subseteq 1 .. created'
  BY DEF IInv, CountersInv
<1>2. ASSUME NEW r \in Requesters PROVE HandlerInv(r)'
  <2>1. HandlerInv(r)
    BY DEF IInv, HandlersInv
  <2> QED
    BY <1>1, <2>1 DEF HandlerInv
<1> QED
  BY <1>2 DEF IInv, HandlersInv

LEMMA HandlersReset ==
  ASSUME pc' = [r \in Requesters |-> "idle"], work' = [r \in Requesters |-> NoWork]
  PROVE  HandlersInv'
BY NoWorkType DEF HandlersInv, HandlerInv

\* What is known of a fixture.
LEMMA FixtureFacts ==
  ASSUME IInv, NEW f \in DOMAIN fixtures
  PROVE  /\ FixtureInv(f) /\ fixtures[f] \in Fixture
         /\ fixtures[f].count \in 1 .. MaxInt
         /\ fixtures[f].values \in [1 .. fixtures[f].count -> Values]
         /\ f \in 1 .. created
BY DEF IInv, FixturesInv, FixtureInv

\* A step that changes no more of the fixtures than their order, their values and
\* whether they are enabled.
SameShape(F) ==
  /\ DOMAIN F = DOMAIN fixtures
  /\ \A f \in DOMAIN fixtures :
       /\ F[f] \in Fixture
       /\ F[f].template = fixtures[f].template
       /\ F[f].universe = fixtures[f].universe /\ F[f].start = fixtures[f].start
       /\ F[f].count = fixtures[f].count
       /\ F[f].values \in [1 .. fixtures[f].count -> Values]

LEMMA ShapeFrame ==
  ASSUME IInv, NEW F, SameShape(F), fixtures' = F
  PROVE  /\ created' = created /\ DOMAIN templates \subseteq DOMAIN templates' => FixturesInv'
         /\ tolerated' = tolerated => OverlapInv'
         /\ groups' = groups /\ scenes' = scenes => ReferencesInv'
<1>1. /\ DOMAIN fixtures' = DOMAIN fixtures
      /\ \A f \in DOMAIN fixtures :
           /\ fixtures'[f] \in Fixture
           /\ fixtures'[f].template = fixtures[f].template
           /\ fixtures'[f].universe = fixtures[f].universe
           /\ fixtures'[f].start = fixtures[f].start
           /\ fixtures'[f].count = fixtures[f].count
           /\ fixtures'[f].values \in [1 .. fixtures[f].count -> Values]
  BY DEF SameShape
<1>2. created' = created /\ DOMAIN templates \subseteq DOMAIN templates' => FixturesInv'
  BY <1>1 DEF IInv, FixturesInv, FixtureInv, Last
<1>3. tolerated' = tolerated => OverlapInv'
  BY <1>1 DEF IInv, OverlapInv, Overlapping, Hits, Last
<1>4. groups' = groups /\ scenes' = scenes => ReferencesInv'
  BY <1>1 DEF IInv, ReferencesInv, Rows
<1> QED
  BY <1>2, <1>3, <1>4

-----------------------------------------------------------------------------
(***************************************************************************)
(* Templates                                                               *)
(***************************************************************************)

LEMMA CallSpends ==
  ASSUME IInv, Call
  PROVE  spent' \in 0 .. MaxCalls
BY Constants DEF IInv, CountersInv, Call

LEMMA TemplatesStep ==
  ASSUME IInv, TemplatesInv', HandlersInv', DOMAIN templates \subseteq DOMAIN templates',
         fixtures' = fixtures, groups' = groups, scenes' = scenes, created' = created,
         births' = births, born' = born, tolerated' = tolerated,
         up' \in BOOLEAN, spent' \in 0 .. MaxCalls
  PROVE  IInv'
<1>1. FixturesInv' /\ OrderInv' /\ OverlapInv' /\ ReferencesInv'
  BY Frames
<1>2. CountersInv'
  BY DEF IInv, CountersInv
<1> QED
  BY <1>1, <1>2 DEF IInv

LEMMA TemplateFacts ==
  ASSUME IInv, NEW t \in DOMAIN templates
  PROVE  /\ t \in Templates /\ templates[t] \in Template
         /\ templates[t].footprint \in Nat /\ templates[t].channels \in Tables
         /\ templates[t].footprint <= FootprintOf(templates[t].channels)
         /\ t \notin torn => templates[t].footprint = FootprintOf(templates[t].channels)
BY DEF IInv, TemplatesInv, Template

\* One template is replaced or added.
LEMMA OneTemplate ==
  ASSUME IInv, NEW t \in Templates, NEW x \in Template,
         DOMAIN templates' = DOMAIN templates \cup {t}, templates'[t] = x,
         \A u \in DOMAIN templates \ {t} : templates'[u] = templates[u],
         x.footprint <= FootprintOf(x.channels),
         t \notin torn' => x.footprint = FootprintOf(x.channels),
         \A u \in Templates \ {t} : u \in torn' <=> u \in torn,
         torn' \subseteq DOMAIN templates'
  PROVE  TemplatesInv' /\ DOMAIN templates \subseteq DOMAIN templates'
BY DEF IInv, TemplatesInv

LEMMA CreateTemplateStep ==
  ASSUME IInv, Call, NEW t \in Templates, CreateTemplate(t)
  PROVE  IInv'
<1> DEFINE x == [footprint |-> 0, channels |-> Empty]
<1>1. x \in Template /\ x.footprint = FootprintOf(x.channels)
  BY EmptyTable DEF Template
<1>2. /\ t \notin DOMAIN templates /\ torn' = torn
      /\ DOMAIN templates' = DOMAIN templates \cup {t} /\ templates'[t] = x
      /\ \A u \in DOMAIN templates \ {t} : templates'[u] = templates[u]
  BY DEF CreateTemplate, With, history
<1>3. t \notin torn /\ torn' \subseteq DOMAIN templates'
  BY <1>2 DEF IInv, TemplatesInv
<1> HIDE DEF x
<1>4. TemplatesInv' /\ DOMAIN templates \subseteq DOMAIN templates'
  <2>1. x.footprint <= FootprintOf(x.channels)
    BY <1>1 DEF Template
  <2> QED
    BY <1>1, <1>2, <1>3, <2>1, OneTemplate
<1>5. HandlersInv' /\ up' \in BOOLEAN
  BY HandlersFrame DEF CreateTemplate, history, threads, IInv, CountersInv
<1> QED
  BY <1>4, <1>5, CallSpends, TemplatesStep DEF CreateTemplate, history

LEMMA ResetTemplateStep ==
  ASSUME IInv, Call, NEW t \in Templates, ResetTemplate(t)
  PROVE  IInv'
<1> DEFINE x == [footprint |-> 0, channels |-> Empty]
<1>1. x \in Template /\ x.footprint = FootprintOf(x.channels)
  BY EmptyTable DEF Template
<1>2. /\ t \in DOMAIN templates /\ torn' = torn \ {t}
      /\ DOMAIN templates' = DOMAIN templates \cup {t} /\ templates'[t] = x
      /\ \A u \in DOMAIN templates \ {t} : templates'[u] = templates[u]
  BY DEF ResetTemplate
<1>3. torn' \subseteq DOMAIN templates'
  BY <1>2 DEF IInv, TemplatesInv
<1> HIDE DEF x
<1>4. TemplatesInv' /\ DOMAIN templates \subseteq DOMAIN templates'
  <2>1. x.footprint <= FootprintOf(x.channels)
    BY <1>1 DEF Template
  <2> QED
    BY <1>1, <1>2, <1>3, <2>1, OneTemplate
<1>5. HandlersInv' /\ up' \in BOOLEAN
  BY HandlersFrame DEF ResetTemplate, threads, IInv, CountersInv
<1> QED
  BY <1>4, <1>5, CallSpends, TemplatesStep DEF ResetTemplate

\* The largest channel of a template that has one more.
LEMMA LastChannel ==
  ASSUME NEW c \in Tables, NEW i \in Indices, NEW ch \in Channel, NEW n \in Nat,
         n <= FootprintOf(c)
  PROVE  LET last == FootprintOf(With(c, i, ch)) IN
         /\ n <= last
         /\ Largest({n, i}) \in Nat /\ Largest({n, i}) <= last
         /\ n = FootprintOf(c) => Largest({n, i}) = last
<1> DEFINE S == {0} \cup DOMAIN c
<1>1. S \in SUBSET Int /\ IsFiniteSet(S) /\ S # {} /\ i \in Int /\ FootprintOf(c) \in Nat
  BY FootprintIs, Constants
<1>2. FootprintOf(With(c, i, ch)) = Largest(S \cup {i}) /\ FootprintOf(c) = Largest(S)
  <2>1. {0} \cup DOMAIN With(c, i, ch) = S \cup {i}
    <3>1. DOMAIN With(c, i, ch) = DOMAIN c \cup {i}
      BY TableWith
    <3> QED
      BY <3>1
  <2> QED
    BY <2>1 DEF FootprintOf
<1> HIDE DEF S
<1>3. FootprintOf(With(c, i, ch)) = Largest({FootprintOf(c), i})
  BY <1>1, <1>2, LargestWith, ZenonT(30)
<1>4. Largest({FootprintOf(c), i}) = IF FootprintOf(c) <= i THEN i ELSE FootprintOf(c)
  BY <1>1, LargestOfTwo
<1>5. Largest({n, i}) = IF n <= i THEN i ELSE n
  BY <1>1, LargestOfTwo
<1> QED
  BY <1>1, <1>3, <1>4, <1>5

LEMMA AddTemplateChannelStep ==
  ASSUME IInv, Call, NEW t \in Templates, NEW i \in Indices, NEW ch \in Channel,
         AddTemplateChannel(t, i, ch)
  PROVE  IInv'
<1> DEFINE n == templates[t].footprint
           c == templates[t].channels
           x == [footprint |-> Largest({n, i}), channels |-> With(c, i, ch)]
<1>1. /\ t \in DOMAIN templates /\ torn' = torn
      /\ DOMAIN templates' = DOMAIN templates \cup {t} /\ templates'[t] = x
      /\ \A u \in DOMAIN templates \ {t} : templates'[u] = templates[u]
  BY DEF AddTemplateChannel, history
<1>2. /\ n \in Nat /\ c \in Tables /\ n <= FootprintOf(c)
      /\ t \notin torn => n = FootprintOf(c)
  BY <1>1, TemplateFacts
<1>3. x \in Template /\ x.footprint = Largest({n, i}) /\ x.channels = With(c, i, ch)
  BY <1>2, TableWith, LastChannel DEF Template
<1>4. torn' \subseteq DOMAIN templates'
  BY <1>1 DEF IInv, TemplatesInv
<1> HIDE DEF x, n, c
<1>5. /\ x.footprint <= FootprintOf(x.channels)
      /\ t \notin torn' => x.footprint = FootprintOf(x.channels)
  BY <1>1, <1>2, <1>3, LastChannel
<1>6. TemplatesInv' /\ DOMAIN templates \subseteq DOMAIN templates'
  BY <1>1, <1>3, <1>4, <1>5, OneTemplate
<1>7. HandlersInv' /\ up' \in BOOLEAN
  BY HandlersFrame DEF AddTemplateChannel, history, threads, IInv, CountersInv
<1> QED
  BY <1>6, <1>7, CallSpends, TemplatesStep DEF AddTemplateChannel, history

LEMMA AddTemplateChannelFailsStep ==
  ASSUME IInv, Call, NEW t \in Templates, NEW i \in Indices, NEW ch \in Channel,
         AddTemplateChannelFails(t, i, ch)
  PROVE  IInv'
<1> DEFINE n == templates[t].footprint
           c == templates[t].channels
           x == [templates[t] EXCEPT !.channels = With(c, i, ch)]
<1>1. /\ t \in DOMAIN templates /\ torn' = torn \cup {t}
      /\ DOMAIN templates' = DOMAIN templates \cup {t} /\ templates'[t] = x
      /\ \A u \in DOMAIN templates \ {t} : templates'[u] = templates[u]
  BY DEF AddTemplateChannelFails, InsertChannel
<1>2. n \in Nat /\ c \in Tables /\ n <= FootprintOf(c) /\ templates[t] \in Template
  BY <1>1, TemplateFacts
<1>3. x \in Template /\ x.footprint = n /\ x.channels = With(c, i, ch)
  <2>1. With(c, i, ch) \in Tables
    BY <1>2, TableWith
  <2> QED
    BY <1>2, <2>1 DEF Template
<1>4. torn' \subseteq DOMAIN templates'
  BY <1>1 DEF IInv, TemplatesInv
<1> HIDE DEF x, n, c
<1>5. x.footprint <= FootprintOf(x.channels)
  BY <1>2, <1>3, LastChannel
<1>6. TemplatesInv' /\ DOMAIN templates \subseteq DOMAIN templates'
  BY <1>1, <1>3, <1>4, <1>5, OneTemplate
<1>7. HandlersInv' /\ up' \in BOOLEAN
  BY HandlersFrame DEF AddTemplateChannelFails, threads, IInv, CountersInv
<1> QED
  BY <1>6, <1>7, CallSpends, TemplatesStep DEF AddTemplateChannelFails

LEMMA UpdateTemplateChannelStep ==
  ASSUME IInv, Call, NEW t \in Templates, NEW i \in Indices, NEW ch \in Channel,
         UpdateTemplateChannel(t, i, ch)
  PROVE  IInv'
<1> DEFINE n == templates[t].footprint
           c == templates[t].channels
           x == [templates[t] EXCEPT !.channels = [c EXCEPT ![i] = ch]]
<1>1. /\ t \in DOMAIN templates /\ torn' = torn /\ i \in DOMAIN c
      /\ DOMAIN templates' = DOMAIN templates \cup {t} /\ templates'[t] = x
      /\ \A u \in DOMAIN templates \ {t} : templates'[u] = templates[u]
  BY DEF UpdateTemplateChannel, history
<1>2. /\ n \in Nat /\ c \in Tables /\ n <= FootprintOf(c) /\ templates[t] \in Template
      /\ t \notin torn => n = FootprintOf(c)
  BY <1>1, TemplateFacts
<1>3. x \in Template /\ x.footprint = n /\ DOMAIN x.channels = DOMAIN c
  <2>1. [c EXCEPT ![i] = ch] \in Tables /\ DOMAIN [c EXCEPT ![i] = ch] = DOMAIN c
    BY <1>1, <1>2, TableUpdate
  <2> QED
    BY <1>2, <2>1 DEF Template
<1>4. torn' \subseteq DOMAIN templates'
  BY <1>1 DEF IInv, TemplatesInv
<1> HIDE DEF x
<1>5. /\ x.footprint <= FootprintOf(x.channels)
      /\ t \notin torn' => x.footprint = FootprintOf(x.channels)
  <2>1. FootprintOf(x.channels) = FootprintOf(c)
    BY <1>3 DEF FootprintOf
  <2> QED
    BY <1>1, <1>2, <1>3, <2>1
<1>6. TemplatesInv' /\ DOMAIN templates \subseteq DOMAIN templates'
  BY <1>1, <1>3, <1>4, <1>5, OneTemplate
<1>7. HandlersInv' /\ up' \in BOOLEAN
  BY HandlersFrame DEF UpdateTemplateChannel, history, threads, IInv, CountersInv
<1> QED
  BY <1>6, <1>7, CallSpends, TemplatesStep DEF UpdateTemplateChannel, history

-----------------------------------------------------------------------------
(***************************************************************************)
(* Crashes and startup                                                     *)
(***************************************************************************)

LEMMA CrashInAddStep ==
  ASSUME IInv, Call, NEW t \in Templates, NEW i \in Indices, NEW ch \in Channel,
         CrashInAddTemplateChannel(t, i, ch)
  PROVE  IInv'
<1> DEFINE n == templates[t].footprint
           c == templates[t].channels
           x == [templates[t] EXCEPT !.channels = With(c, i, ch)]
<1>1. /\ t \in DOMAIN templates /\ torn' = torn \cup {t}
      /\ DOMAIN templates' = DOMAIN templates \cup {t} /\ templates'[t] = x
      /\ \A u \in DOMAIN templates \ {t} : templates'[u] = templates[u]
  BY DEF CrashInAddTemplateChannel, InsertChannel
<1>2. n \in Nat /\ c \in Tables /\ n <= FootprintOf(c) /\ templates[t] \in Template
  BY <1>1, TemplateFacts
<1>3. x \in Template /\ x.footprint = n /\ x.channels = With(c, i, ch)
  <2>1. With(c, i, ch) \in Tables
    BY <1>2, TableWith
  <2> QED
    BY <1>2, <2>1 DEF Template
<1>4. torn' \subseteq DOMAIN templates'
  BY <1>1 DEF IInv, TemplatesInv
<1> HIDE DEF x, n, c
<1>5. x.footprint <= FootprintOf(x.channels)
  BY <1>2, <1>3, LastChannel
<1>6. TemplatesInv' /\ DOMAIN templates \subseteq DOMAIN templates'
  BY <1>1, <1>3, <1>4, <1>5, OneTemplate
<1>7. HandlersInv' /\ up' \in BOOLEAN
  BY HandlersReset DEF CrashInAddTemplateChannel, Crash
<1> QED
  BY <1>6, <1>7, CallSpends, TemplatesStep DEF CrashInAddTemplateChannel, Crash

LEMMA CrashStep ==
  ASSUME IInv, Call, CrashBetweenCalls
  PROVE  IInv'
<1>1. TemplatesInv' /\ DOMAIN templates' = DOMAIN templates
  BY Frames DEF CrashBetweenCalls
<1>2. HandlersInv' /\ up' \in BOOLEAN
  BY HandlersReset DEF CrashBetweenCalls, Crash
<1> QED
  BY <1>1, <1>2, CallSpends, TemplatesStep DEF CrashBetweenCalls, Crash

-----------------------------------------------------------------------------
(***************************************************************************)
(* The order of the fixtures                                               *)
(***************************************************************************)

LEMMA FixturesFinite ==
  ASSUME IInv
  PROVE  /\ IsFiniteSet(DOMAIN fixtures) /\ DOMAIN fixtures \subseteq Nat
         /\ Cardinality(DOMAIN fixtures) \in Nat
<1>1. DOMAIN fixtures \in SUBSET (1 .. created) /\ created \in Nat
  BY DEF IInv, FixturesInv, FixtureInv, CountersInv
<1>2. IsFiniteSet(DOMAIN fixtures)
  <2>1. IsFiniteSet(1 .. created)
    BY <1>1, FS_Interval
  <2> QED
    BY <1>1, <2>1, FS_Subset
<1> QED
  BY <1>1, <1>2, FS_CardinalityType

\* The orders are the numbers from 1, and their largest is how many there are.
LEMMA OrdersAre ==
  ASSUME OrderInv, IsFiniteSet(DOMAIN fixtures)
  PROVE  /\ Orders = 1 .. Cardinality(DOMAIN fixtures)
         /\ Largest(Orders) = Cardinality(DOMAIN fixtures)
<1> DEFINE n == Cardinality(DOMAIN fixtures)
           p == [f \in DOMAIN fixtures |-> fixtures[f].order]
<1>1. /\ p \in [DOMAIN fixtures -> 1 .. n]
      /\ \A f, g \in DOMAIN fixtures : p[f] = p[g] => f = g
  BY DEF OrderInv
<1>2. {p[f] : f \in DOMAIN fixtures} = 1 .. n
  BY <1>1, NumberingIsOnto
<1>3. Orders = 1 .. n
  BY <1>2 DEF Orders
<1>4. n \in Nat
  BY FS_CardinalityType
<1>5. Largest(1 .. n) = n
  <2>1. CASE n = 0
    BY <2>1 DEF Largest
  <2>2. CASE n # 0
    <3>1. n \in 1 .. n /\ 1 .. n \in SUBSET Int /\ \A k \in 1 .. n : k <= n
      BY <1>4, <2>2
    <3> QED
      BY <3>1, LargestIs
  <2> QED
    BY <2>1, <2>2
<1> QED
  BY <1>3, <1>5

\* The fixtures keep all but their order.
LEMMA NormalizedFields ==
  ASSUME NEW F, IsFiniteSet(DOMAIN F), DOMAIN F \subseteq Nat,
         \A f \in DOMAIN F : F[f] \in Fixture
  PROVE  LET N == Normalized(F) IN
         /\ DOMAIN N = DOMAIN F
         /\ \A f \in DOMAIN F :
              /\ N[f] \in Fixture
              /\ N[f].template = F[f].template /\ N[f].universe = F[f].universe
              /\ N[f].start = F[f].start /\ N[f].count = F[f].count
              /\ N[f].values = F[f].values
<1> DEFINE N == Normalized(F)
<1>1. /\ DOMAIN N = DOMAIN F
      /\ \A f \in DOMAIN F : N[f] = [F[f] EXCEPT !.order = N[f].order]
      /\ \A f \in DOMAIN F : N[f].order \in 1 .. Cardinality(DOMAIN F)
  BY NormalizedNumbers
<1> HIDE DEF N
<1>2. ASSUME NEW f \in DOMAIN F
      PROVE  /\ N[f] \in Fixture
             /\ N[f].template = F[f].template /\ N[f].universe = F[f].universe
             /\ N[f].start = F[f].start /\ N[f].count = F[f].count
             /\ N[f].values = F[f].values
  <2>1. /\ F[f] \in Fixture /\ N[f].order \in Nat
        /\ N[f] = [F[f] EXCEPT !.order = N[f].order]
    BY <1>1
  <2> QED
    BY <2>1 DEF Fixture
<1> QED
  BY <1>1, <1>2 DEF N

LEMMA RestartStep ==
  ASSUME IInv, Restart
  PROVE  IInv'
<1> DEFINE N == Normalized(fixtures)
           x == [footprint |-> FootprintOf(MiraChannels), channels |-> MiraChannels]
<1>1. /\ fixtures' = N /\ groups' = groups /\ scenes' = scenes /\ created' = created
      /\ pc' = pc /\ work' = work /\ spent' = spent /\ births' = births /\ born' = born
      /\ tolerated' = tolerated /\ up' = TRUE /\ torn' = torn \ {Mira}
      /\ templates' = Seeded(templates)
  BY DEF Restart, threads
<1>2. IsFiniteSet(DOMAIN fixtures) /\ DOMAIN fixtures \subseteq Nat
  BY FixturesFinite
<1>3. \A f \in DOMAIN fixtures : fixtures[f] \in Fixture
  BY FixtureFacts
<1>4. /\ DOMAIN N = DOMAIN fixtures
      /\ \A f \in DOMAIN fixtures : N[f].order \in 1 .. Cardinality(DOMAIN fixtures)
      /\ \A f, g \in DOMAIN fixtures : N[f].order = N[g].order => f = g
  BY <1>2, <1>3, NormalizedNumbers
<1>5. SameShape(N)
  <2>1. \A f \in DOMAIN fixtures :
          /\ N[f] \in Fixture
          /\ N[f].template = fixtures[f].template /\ N[f].universe = fixtures[f].universe
          /\ N[f].start = fixtures[f].start /\ N[f].count = fixtures[f].count
          /\ N[f].values = fixtures[f].values
    BY <1>2, <1>3, NormalizedFields
  <2>2. \A f \in DOMAIN fixtures : fixtures[f].values \in [1 .. fixtures[f].count -> Values]
    BY FixtureFacts
  <2> HIDE DEF N
  <2> QED
    BY <1>4, <2>1, <2>2 DEF SameShape
<1> HIDE DEF N
<1>6. TemplatesInv' /\ DOMAIN templates \subseteq DOMAIN templates'
  <2>2. FootprintOf(MiraChannels) \in Nat
    BY Constants, FootprintIs
  <2>3. x \in Template /\ x.footprint = FootprintOf(x.channels) /\ x.footprint \in Nat
    BY <2>2, Constants DEF Template
  <2>4. /\ DOMAIN templates' = DOMAIN templates \cup {Mira} /\ templates'[Mira] = x
        /\ \A u \in DOMAIN templates \ {Mira} : templates'[u] = templates[u]
    BY <1>1 DEF Seeded, With
  <2>5. torn' \subseteq DOMAIN templates'
    BY <1>1, <2>4 DEF IInv, TemplatesInv
  <2>6. x.footprint <= FootprintOf(x.channels)
    BY <2>3
  <2> HIDE DEF x
  <2> QED
    BY <1>1, <2>3, <2>4, <2>5, <2>6, Constants, OneTemplate
<1>7. OrderInv'
  BY <1>1, <1>4 DEF OrderInv
<1>8. FixturesInv' /\ OverlapInv' /\ ReferencesInv'
  BY <1>1, <1>5, <1>6, ShapeFrame
<1>9. CountersInv' /\ created \in Nat
  BY <1>1 DEF IInv, CountersInv
<1>10. HandlersInv'
  BY <1>1, <1>9, HandlersFrame
<1> QED
  BY <1>6, <1>7, <1>8, <1>9, <1>10 DEF IInv

-----------------------------------------------------------------------------
(***************************************************************************)
(* Fixtures                                                                *)
(***************************************************************************)

\* A step that changes no more than values, flags or orders of fixtures.
LEMMA FixturesStep ==
  ASSUME IInv, NEW F, SameShape(F), fixtures' = F, OrderInv',
         templates' = templates, torn' = torn, groups' = groups, scenes' = scenes,
         created' = created, births' = births, born' = born, tolerated' = tolerated,
         up' = up, spent' \in 0 .. MaxCalls, HandlersInv'
  PROVE  IInv'
<1>1. TemplatesInv' /\ FixturesInv' /\ OverlapInv' /\ ReferencesInv'
  BY Frames, ShapeFrame
<1>2. CountersInv'
  BY DEF IInv, CountersInv
<1> QED
  BY <1>1, <1>2 DEF IInv

LEMMA HandlersKept ==
  ASSUME IInv, pc' = pc, work' = work, created' = created, born' = born
  PROVE  HandlersInv'
BY HandlersFrame DEF IInv, CountersInv

LEMMA SetFixtureEnabledStep ==
  ASSUME IInv, Call, NEW f \in DOMAIN fixtures, NEW on \in BOOLEAN, SetFixtureEnabled(f, on)
  PROVE  IInv'
<1> DEFINE F == [fixtures EXCEPT ![f].enabled = on]
<1>1. /\ fixtures' = F /\ templates' = templates /\ torn' = torn /\ groups' = groups
      /\ scenes' = scenes /\ created' = created /\ births' = births /\ born' = born
      /\ tolerated' = tolerated /\ up' = up /\ pc' = pc /\ work' = work
  BY DEF SetFixtureEnabled, threads, history
<1>2. \A g \in DOMAIN fixtures : /\ fixtures[g] \in Fixture
                                 /\ fixtures[g].values \in [1 .. fixtures[g].count -> Values]
  BY FixtureFacts
<1>3. /\ DOMAIN F = DOMAIN fixtures
      /\ \A g \in DOMAIN fixtures : F[g] = fixtures[g] \/ F[g] = [fixtures[g] EXCEPT !.enabled = on]
  OBVIOUS
<1> HIDE DEF F
<1>4. SameShape(F) /\ \A g \in DOMAIN fixtures : F[g].order = fixtures[g].order
  <2>1. ASSUME NEW g \in DOMAIN fixtures
        PROVE  /\ F[g] \in Fixture /\ F[g].template = fixtures[g].template
               /\ F[g].universe = fixtures[g].universe /\ F[g].start = fixtures[g].start
               /\ F[g].count = fixtures[g].count /\ F[g].values = fixtures[g].values
               /\ F[g].order = fixtures[g].order
    BY <2>1, <1>2, <1>3 DEF Fixture
  <2> QED
    BY <1>2, <1>3, <2>1 DEF SameShape
<1>5. OrderInv'
  BY <1>1, <1>3, <1>4 DEF IInv, OrderInv
<1> QED
  BY <1>1, <1>4, <1>5, HandlersKept, CallSpends, FixturesStep

LEMMA UpdatedShape ==
  ASSUME IInv, NEW f, NEW i, NEW v \in Values
  PROVE  /\ SameShape(Updated(f, i, v))
         /\ \A g \in DOMAIN fixtures : Updated(f, i, v)[g].order = fixtures[g].order
<1> DEFINE F == Updated(f, i, v)
<1>1. \A g \in DOMAIN fixtures : /\ fixtures[g] \in Fixture
                                 /\ fixtures[g].count \in 1 .. MaxInt
                                 /\ fixtures[g].values \in [1 .. fixtures[g].count -> Values]
  BY FixtureFacts
<1>2. CASE f \in DOMAIN fixtures /\ i \in 1 .. fixtures[f].count
  <2> DEFINE x == [fixtures[f].values EXCEPT ![i] = v]
  <2>1. x \in [1 .. fixtures[f].count -> Values] /\ x \in Lists
    BY <1>1, <1>2, ListFacts
  <2>2. /\ DOMAIN F = DOMAIN fixtures
        /\ \A g \in DOMAIN fixtures : g # f => F[g] = fixtures[g]
        /\ F[f] = [fixtures[f] EXCEPT !.values = x]
    BY <1>2 DEF Updated
  <2> HIDE DEF F, x
  <2>3. /\ F[f] \in Fixture /\ F[f].template = fixtures[f].template
        /\ F[f].universe = fixtures[f].universe
        /\ F[f].start = fixtures[f].start /\ F[f].count = fixtures[f].count
        /\ F[f].values = x /\ F[f].order = fixtures[f].order
    BY <1>1, <1>2, <2>1, <2>2 DEF Fixture
  <2>4. SameShape(F) /\ \A g \in DOMAIN fixtures : F[g].order = fixtures[g].order
    BY <1>1, <2>1, <2>2, <2>3 DEF SameShape
  <2> QED
    BY <2>4 DEF F
<1>3. CASE ~(f \in DOMAIN fixtures /\ i \in 1 .. fixtures[f].count)
  BY <1>1, <1>3 DEF Updated, SameShape
<1> QED
  BY <1>2, <1>3

LEMMA SetChannelValueStep ==
  ASSUME IInv, Call, NEW f \in DOMAIN fixtures, NEW i \in 1 .. MaxInt, NEW v \in Values,
         SetChannelValue(f, i, v)
  PROVE  IInv'
<1> DEFINE F == Updated(f, i, v)
<1>1. /\ fixtures' = F /\ templates' = templates /\ torn' = torn /\ groups' = groups
      /\ scenes' = scenes /\ created' = created /\ births' = births /\ born' = born
      /\ tolerated' = tolerated /\ up' = up /\ pc' = pc /\ work' = work
  BY DEF SetChannelValue, threads, history
<1>2. SameShape(F) /\ \A g \in DOMAIN fixtures : F[g].order = fixtures[g].order
  BY UpdatedShape
<1> HIDE DEF F
<1>3. OrderInv'
  BY <1>1, <1>2 DEF IInv, OrderInv, SameShape
<1> QED
  BY <1>1, <1>2, <1>3, HandlersKept, CallSpends, FixturesStep

LEMMA ReorderFixturesStep ==
  ASSUME IInv, Call, NEW place \in [DOMAIN fixtures -> 1 .. Cardinality(DOMAIN fixtures)],
         ReorderFixtures(place)
  PROVE  IInv'
<1> DEFINE F == [f \in DOMAIN fixtures |-> [fixtures[f] EXCEPT !.order = place[f]]]
<1>1. /\ fixtures' = F /\ templates' = templates /\ torn' = torn /\ groups' = groups
      /\ scenes' = scenes /\ created' = created /\ births' = births /\ born' = born
      /\ tolerated' = tolerated /\ up' = up /\ pc' = pc /\ work' = work
      /\ \A f, g \in DOMAIN fixtures : place[f] = place[g] => f = g
  BY DEF ReorderFixtures, threads, history
<1>2. \A g \in DOMAIN fixtures : /\ fixtures[g] \in Fixture
                                 /\ fixtures[g].values \in [1 .. fixtures[g].count -> Values]
  BY FixtureFacts
<1>3. /\ DOMAIN F = DOMAIN fixtures
      /\ \A g \in DOMAIN fixtures : F[g] = [fixtures[g] EXCEPT !.order = place[g]]
  OBVIOUS
<1>4. \A g \in DOMAIN fixtures : place[g] \in 1 .. Cardinality(DOMAIN fixtures) /\ place[g] \in Nat
  BY FixturesFinite
<1> HIDE DEF F
<1>5. SameShape(F) /\ \A g \in DOMAIN fixtures : F[g].order = place[g]
  <2>1. ASSUME NEW g \in DOMAIN fixtures
        PROVE  /\ F[g] \in Fixture /\ F[g].template = fixtures[g].template
               /\ F[g].universe = fixtures[g].universe /\ F[g].start = fixtures[g].start
               /\ F[g].count = fixtures[g].count /\ F[g].values = fixtures[g].values
               /\ F[g].order = place[g]
    BY <2>1, <1>2, <1>3, <1>4 DEF Fixture
  <2> QED
    BY <1>2, <1>3, <2>1 DEF SameShape
<1>6. OrderInv'
  BY <1>1, <1>3, <1>4, <1>5 DEF OrderInv
<1> QED
  BY <1>1, <1>5, <1>6, HandlersKept, CallSpends, FixturesStep

LEMMA DeleteFixtureStep ==
  ASSUME IInv, Call, NEW f \in DOMAIN fixtures, DeleteFixture(f)
  PROVE  IInv'
<1> DEFINE D == DOMAIN fixtures \ {f}
           G == Without(fixtures, {f})
           N == Normalized(G)
<1>1. /\ fixtures' = N /\ templates' = templates /\ torn' = torn /\ groups' = GroupsWithout(f)
      /\ scenes' = ScenesWithout(f) /\ created' = created /\ births' = births /\ born' = born
      /\ tolerated' = {p \in tolerated : f \notin p} /\ up' = up /\ pc' = pc /\ work' = work
  BY DEF DeleteFixture, threads
<1>2. DOMAIN G = D /\ \A g \in D : G[g] = fixtures[g]
  BY DEF Without
<1>3. IsFiniteSet(D) /\ D \subseteq Nat
  BY FixturesFinite, FS_RemoveElement
<1>4. \A g \in D : G[g] \in Fixture
  BY <1>2, FixtureFacts
<1>5. /\ DOMAIN N = D
      /\ \A g \in D : N[g].order \in 1 .. Cardinality(D)
      /\ \A g, h \in D : N[g].order = N[h].order => g = h
  BY <1>2, <1>3, <1>4, NormalizedNumbers
<1>6. \A g \in D :
        /\ N[g] \in Fixture
        /\ N[g].template = fixtures[g].template /\ N[g].universe = fixtures[g].universe
        /\ N[g].start = fixtures[g].start /\ N[g].count = fixtures[g].count
        /\ N[g].values = fixtures[g].values
  <2> HIDE DEF G
  <2>1. \A g \in DOMAIN G :
          /\ N[g] \in Fixture
          /\ N[g].template = G[g].template /\ N[g].universe = G[g].universe
          /\ N[g].start = G[g].start /\ N[g].count = G[g].count
          /\ N[g].values = G[g].values
    BY <1>2, <1>3, <1>4, NormalizedFields
  <2> HIDE DEF N
  <2> QED
    BY <1>2, <2>1
<1> HIDE DEF N, G
<1>7. TemplatesInv'
  BY <1>1, Frames
<1>8. FixturesInv'
  <2> SUFFICES ASSUME NEW g \in D PROVE FixtureInv(g)'
    BY <1>1, <1>5 DEF FixturesInv
  <2>1. FixtureInv(g)
    BY FixtureFacts
  <2> QED
    BY <1>1, <1>6, <2>1 DEF FixtureInv, Last
<1>9. OrderInv'
  BY <1>1, <1>5 DEF OrderInv
<1>10. OverlapInv'
  BY <1>1, <1>5, <1>6 DEF IInv, OverlapInv, Overlapping, Hits, Last
<1>11. ReferencesInv'
  <2>1. ReferencesInv
    BY DEF IInv
  <2>2. DOMAIN groups' = DOMAIN groups /\ \A g \in DOMAIN groups : groups'[g] \subseteq DOMAIN fixtures'
    BY <1>1, <1>5, <2>1 DEF ReferencesInv, GroupsWithout
  <2>3. /\ DOMAIN scenes' = DOMAIN scenes
        /\ \A s \in DOMAIN scenes :
             /\ DOMAIN scenes'[s] = {r \in DOMAIN scenes[s] : r[1] # f}
             /\ \A r \in DOMAIN scenes'[s] : scenes'[s][r] = scenes[s][r]
    BY <1>1 DEF ScenesWithout, Without
  <2>4. \A r \in Rows : r[1] # f => r \in Rows'
    BY <1>1, <1>5, <1>6 DEF Rows
  <2> QED
    BY <2>1, <2>2, <2>3, <2>4 DEF ReferencesInv
<1>12. CountersInv'
  BY <1>1, CallSpends DEF IInv, CountersInv
<1>13. HandlersInv'
  BY <1>1, HandlersKept
<1> QED
  BY <1>7, <1>8, <1>9, <1>10, <1>11, <1>12, <1>13 DEF IInv

\* A footprint is an int: 0 or one of the indices.
LEMMA FootprintFits ==
  ASSUME IInv, NEW t \in DOMAIN templates
  PROVE  templates[t].footprint <= MaxInt
<1> DEFINE c == templates[t].channels
           S == {0} \cup DOMAIN c
<1>1. c \in Tables /\ templates[t].footprint \in Nat /\ templates[t].footprint <= FootprintOf(c)
  BY TemplateFacts
<1>2. S \in SUBSET Int /\ IsFiniteSet(S) /\ FootprintOf(c) \in Nat
  BY <1>1, FootprintIs
<1>3. FootprintOf(c) \in S
  BY <1>2, LargestIn DEF FootprintOf
<1>4. \A i \in S : i <= MaxInt
  BY <1>1, TableFacts, Constants DEF Ints
<1> HIDE DEF S, c
<1> QED
  BY <1>1, <1>2, <1>3, <1>4, Constants DEF c

\* The row that createFixture() inserts when its checks have passed.
LEMMA NewFixtureFacts ==
  ASSUME IInv, NEW t \in DOMAIN templates, NEW u \in Universes, NEW a \in Int,
         NEW n \in Overrides, NEW end, end \in EndOf(NewFixture(t, u, a, n)),
         Fits(NewFixture(t, u, a, n), end)
  PROVE  LET x == NewFixture(t, u, a, n) IN
         /\ x \in Fixture /\ x.template = t
         /\ x.universe >= 1 /\ x.start \in 1 .. LastAddress /\ x.count \in 1 .. MaxInt
         /\ Last(x) \in Int /\ (Last(x) <= LastAddress \/ Last(x) > MaxInt)
         /\ x.values \in [1 .. x.count -> Values]
         /\ x.order = Cardinality(DOMAIN fixtures) + 1
<1> DEFINE x == NewFixture(t, u, a, n)
           c == templates[t].channels
           count == IF n > 0 THEN n ELSE templates[t].footprint
           v == [i \in 1 .. count |-> IF i \in DOMAIN c THEN c[i].default ELSE 0]
           o == Largest(Orders) + 1
<1>1. /\ x = [template |-> t, universe |-> u, start |-> a, count |-> count, order |-> o,
              enabled |-> TRUE, values |-> v]
  BY DEF NewFixture
<1>2. t \in Templates /\ templates[t].footprint \in Nat /\ c \in Tables
  BY TemplateFacts
<1>3. /\ count \in Int /\ u \in Int /\ count <= MaxInt
      /\ LastAddress \in Nat /\ MaxInt \in Nat /\ LastAddress <= MaxInt
  <2>1. n \in Int /\ n <= MaxInt /\ u \in Int
    BY Constants DEF Ints
  <2>2. templates[t].footprint <= MaxInt
    BY FootprintFits
  <2> QED
    BY <1>2, <2>1, <2>2, Constants
<1>4. v \in [1 .. count -> Values]
  <2>1. \A i \in DOMAIN c : c[i].default \in Values
    BY <1>2, TableFacts DEF Channel
  <2> QED
    BY <2>1, Constants
<1>5. o = Cardinality(DOMAIN fixtures) + 1 /\ o \in Nat
  BY FixturesFinite, OrdersAre DEF IInv
<1> HIDE DEF x, v, count, o, c
<1>6. /\ u >= 1 /\ a \in 1 .. LastAddress /\ count > 0 /\ end <= LastAddress
      /\ Last(x) = a + count - 1
  BY <1>1 DEF Fits, Last, x
<1>7. count \in 1 .. MaxInt /\ a \in Nat
  BY <1>3, <1>6
<1>8. Last(x) \in Int /\ (Last(x) <= LastAddress \/ Last(x) > MaxInt)
  <2>1. Last(x) \in Int
    BY <1>3, <1>6, <1>7
  <2>2. Last(x) <= MaxInt => end = Last(x)
    BY DEF EndOf, x
  <2> QED
    BY <1>3, <1>6, <2>1, <2>2
<1>9. v \in Lists
  BY <1>4, <1>7, ListFacts
<1>10. x \in Fixture
  BY <1>1, <1>2, <1>3, <1>5, <1>7, <1>9 DEF Fixture
<1>11. /\ x.template = t /\ x.universe = u /\ x.start = a /\ x.count = count
       /\ x.values = v /\ x.order = o
  BY <1>1
<1> QED
  BY <1>4, <1>5, <1>6, <1>7, <1>8, <1>10, <1>11 DEF x

LEMMA CreateFixtureStep ==
  ASSUME IInv, Call, NEW t \in Templates, NEW u \in Universes, NEW a \in Int,
         NEW n \in Overrides, NEW allow \in BOOLEAN, CreateFixture(t, u, a, n, allow)
  PROVE  IInv'
<1> PICK id : id = created + 1
  OBVIOUS
<1> DEFINE x == NewFixture(t, u, a, n)
           D == DOMAIN fixtures
<1>1. /\ t \in DOMAIN templates /\ births < MaxFixtures
      /\ \E end \in EndOf(x) : Fits(x, end) /\ (allow \/ Clashes(x, end) = {})
      /\ fixtures' = With(fixtures, id, x) /\ created' = Largest({created, id})
      /\ births' = births + 1 /\ born' = With(born, id, births')
      /\ tolerated' = tolerated \cup
              {{id, g} : g \in {h \in D :
                 Overlapping(x, fixtures[h]) /\ (allow \/ ~fixtures[h].enabled)}}
      /\ templates' = templates /\ torn' = torn /\ groups' = groups
      /\ scenes' = scenes /\ up' = up /\ pc' = pc /\ work' = work
  BY DEF CreateFixture, NextId, threads
<1> PICK end \in EndOf(x) : Fits(x, end) /\ (allow \/ Clashes(x, end) = {})
  BY <1>1
<1>2. /\ x \in Fixture /\ x.template = t
      /\ x.universe >= 1 /\ x.start \in 1 .. LastAddress /\ x.count \in 1 .. MaxInt
      /\ Last(x) \in Int /\ (Last(x) <= LastAddress \/ Last(x) > MaxInt)
      /\ x.values \in [1 .. x.count -> Values]
      /\ x.order = Cardinality(D) + 1
  BY <1>1, NewFixtureFacts
<1> DEFINE Fit == Last(x) <= MaxInt
<1>14. Fit => end = Last(x)
  BY DEF EndOf
<1> HIDE DEF x
<1>3. /\ created \in Nat /\ created = births /\ births <= MaxFixtures /\ MaxFixtures \in Nat
      /\ DOMAIN born = 1 .. created /\ \A f \in 1 .. created : born[f] \in Ids
  BY Constants DEF IInv, CountersInv
<1>4. created' = created + 1
  BY <1>1, <1>3, LargestOfTwo
<1>5. D \subseteq 1 .. created /\ id \notin D
  BY <1>3 DEF IInv, FixturesInv, FixtureInv
<1>6. /\ DOMAIN fixtures' = D \cup {id} /\ fixtures'[id] = x
      /\ \A f \in D : fixtures'[f] = fixtures[f]
  BY <1>1, <1>5 DEF With
<1>7. TemplatesInv'
  BY <1>1, Frames
<1>8. FixturesInv'
  <2>1. ASSUME NEW f \in D PROVE FixtureInv(f)'
    <3>1. FixtureInv(f)
      BY FixtureFacts
    <3> QED
      BY <1>1, <1>3, <1>4, <1>6, <3>1 DEF FixtureInv
  <2>2. FixtureInv(id)'
    BY <1>1, <1>2, <1>3, <1>4, <1>6 DEF FixtureInv
  <2> QED
    BY <1>6, <2>1, <2>2 DEF FixturesInv
<1>9. OrderInv'
  <2>1. Cardinality(D) \in Nat /\ Cardinality(D \cup {id}) = Cardinality(D) + 1
    BY <1>5, FixturesFinite, FS_AddElement
  <2>2. \A f \in D : fixtures[f].order \in 1 .. Cardinality(D)
    BY DEF IInv, OrderInv
  <2>3. \A f, g \in D : fixtures[f].order = fixtures[g].order => f = g
    BY DEF IInv, OrderInv
  <2> HIDE DEF D
  <2> QED
    BY <1>2, <1>6, <2>1, <2>2, <2>3 DEF OrderInv
<1>10. OverlapInv'
  <2>1. tolerated' \subseteq SUBSET (DOMAIN fixtures')
    BY <1>1, <1>6 DEF IInv, OverlapInv
  <2>2. ASSUME NEW g \in D, Overlapping(x, fixtures[g]) PROVE {id, g} \in tolerated' \/ ~Fit
    <3>1. Fit => Hits(x, end, fixtures[g])
      BY <1>14, <2>2 DEF Overlapping
    <3> HIDE DEF Fit
    <3> QED
      BY <1>1, <2>2, <3>1 DEF Clashes
  <2>3. \A g \in D : Overlapping(fixtures[g], x) => Overlapping(x, fixtures[g])
    BY <1>2, FixtureFacts DEF Overlapping, Hits, Last, Fixture
  <2>4. \A f, g \in D : f < g /\ Overlapping(fixtures[f], fixtures[g])
                         => {f, g} \in tolerated' \/ Last(fixtures[g]) > MaxInt
    BY <1>1 DEF IInv, OverlapInv
  <2>5. \A g \in D : {g, id} = {id, g} /\ ~(id < g)
    BY <1>3, <1>5
  <2>6. ASSUME NEW f \in DOMAIN fixtures', NEW g \in DOMAIN fixtures', f < g,
               Overlapping(fixtures'[f], fixtures'[g])
        PROVE  {f, g} \in tolerated' \/ Last(fixtures'[g]) > MaxInt
    <3>1. CASE f \in D /\ g \in D
      BY <1>6, <2>4, <2>6, <3>1
    <3>2. CASE f \in D /\ g = id
      <4>1. {id, f} \in tolerated' \/ ~Fit
        BY <1>6, <2>2, <2>3, <2>6, <3>2
      <4>2. ~Fit => Last(fixtures'[g]) > MaxInt
        BY <1>2, <1>6, <3>2, Constants
      <4> HIDE DEF Fit
      <4> QED
        BY <2>5, <3>2, <4>1, <4>2
    <3>3. ~(f = id /\ g \in D) /\ ~(f = id /\ g = id)
      BY <1>3, <2>5, <2>6
    <3> QED
      BY <1>6, <3>1, <3>2, <3>3
  <2>7. \A f, g \in DOMAIN fixtures' :
          f < g /\ Overlapping(fixtures[f], fixtures[g])'
            => {f, g} \in tolerated' \/ Last(fixtures'[g]) > MaxInt
    BY <2>6 DEF Overlapping, Hits, Last
  <2> QED
    BY <2>1, <2>7 DEF OverlapInv, Last
<1>11. ReferencesInv'
  <2>1. \A r \in Rows : r \in Rows'
    BY <1>6 DEF Rows
  <2> QED
    BY <1>1, <1>6, <2>1 DEF IInv, ReferencesInv
<1>12. CountersInv'
  <2>1. DOMAIN born' = 1 .. created' /\ \A f \in 1 .. created' : born'[f] \in Ids
    <3>1. DOMAIN born' = DOMAIN born \cup {id} /\ born'[id] = births'
          /\ \A f \in DOMAIN born \ {id} : born'[f] = born[f]
      BY <1>1 DEF With
    <3>2. births' = created + 1 /\ births' \in Ids
      BY <1>1, <1>3 DEF Ids
    <3>3. 1 .. created' = (1 .. created) \cup {id}
      BY <1>3, <1>4
    <3> QED
      BY <1>3, <3>1, <3>2, <3>3
  <2>2. births' = created' /\ births' <= MaxFixtures /\ created' \in Nat
    BY <1>1, <1>3, <1>4
  <2>3. up' \in BOOLEAN
    BY <1>1 DEF IInv, CountersInv
  <2> QED
    BY <2>1, <2>2, <2>3, CallSpends DEF CountersInv
<1>13. HandlersInv'
  <2>1. created' \in Nat /\ created <= created'
    BY <1>3, <1>4
  <2>2. \A f \in 1 .. created : born'[f] = born[f]
    BY <1>1, <1>3 DEF With
  <2> QED
    BY <1>1, <2>1, <2>2, HandlersFrame
<1> QED
  BY <1>7, <1>8, <1>9, <1>10, <1>11, <1>12, <1>13 DEF IInv

-----------------------------------------------------------------------------
(***************************************************************************)
(* Groups, scenes and handlers of several calls                            *)
(***************************************************************************)

LEMMA GroupsStep ==
  ASSUME IInv, ReferencesInv', fixtures' = fixtures,
         templates' = templates, torn' = torn, created' = created, births' = births,
         born' = born, tolerated' = tolerated, up' = up, spent' \in 0 .. MaxCalls, HandlersInv'
  PROVE  IInv'
<1>1. TemplatesInv' /\ FixturesInv' /\ OrderInv' /\ OverlapInv'
  BY Frames
<1>2. CountersInv'
  BY DEF IInv, CountersInv
<1> QED
  BY <1>1, <1>2 DEF IInv

LEMMA GroupSteps ==
  ASSUME IInv, Call, NEW g \in Groups, NEW S \in SUBSET DOMAIN fixtures,
         CreateGroup(g) \/ DeleteGroup(g) \/ SetGroupFixtures(g, S)
  PROVE  IInv'
<1>1. /\ scenes' = scenes /\ fixtures' = fixtures /\ templates' = templates /\ torn' = torn
      /\ created' = created /\ births' = births /\ born' = born /\ tolerated' = tolerated
      /\ up' = up /\ pc' = pc /\ work' = work
  BY DEF CreateGroup, DeleteGroup, SetGroupFixtures, history, threads
<1>2. DOMAIN groups' \subseteq Groups /\ \A h \in DOMAIN groups' : groups'[h] \subseteq DOMAIN fixtures
  <2>1. ReferencesInv
    BY DEF IInv
  <2>2. CASE CreateGroup(g)
    BY <2>1, <2>2 DEF CreateGroup, With, ReferencesInv
  <2>3. CASE DeleteGroup(g)
    BY <2>1, <2>3 DEF DeleteGroup, Without, ReferencesInv
  <2>4. CASE SetGroupFixtures(g, S)
    BY <2>1, <2>4 DEF SetGroupFixtures, ReferencesInv
  <2> QED
    BY <2>2, <2>3, <2>4
<1>3. ReferencesInv'
  BY <1>1, <1>2 DEF IInv, ReferencesInv, Rows
<1> QED
  BY <1>1, <1>3, CallSpends, HandlersKept, GroupsStep

\* A capture has a value for each channel there is.
LEMMA CaptureFacts ==
  ASSUME IInv
  PROVE  DOMAIN CurrentValues = Rows /\ \A r \in Rows : CurrentValues[r] \in Values
<1>1. ASSUME NEW r \in Rows PROVE fixtures[r[1]].values[r[2]] \in Values
  <2>1. /\ r[1] \in DOMAIN fixtures /\ r[2] \in 1 .. MaxInt
        /\ r[2] <= fixtures[r[1]].count
    BY DEF Rows
  <2>2. /\ fixtures[r[1]].values \in [1 .. fixtures[r[1]].count -> Values]
        /\ fixtures[r[1]].count \in 1 .. MaxInt
    BY <2>1, FixtureFacts
  <2>3. r[2] \in 1 .. fixtures[r[1]].count
    BY <2>1, <2>2
  <2> QED
    BY <2>2, <2>3
<1> QED
  BY <1>1 DEF CurrentValues

LEMMA SceneSteps ==
  ASSUME IInv, Call, NEW s \in Scenes, CreateScene(s) \/ CaptureScene(s) \/ DeleteScene(s)
  PROVE  IInv'
<1>1. /\ groups' = groups /\ fixtures' = fixtures /\ templates' = templates /\ torn' = torn
      /\ created' = created /\ births' = births /\ born' = born /\ tolerated' = tolerated
      /\ up' = up /\ pc' = pc /\ work' = work
  BY DEF CreateScene, CaptureScene, DeleteScene, history, threads
<1>2. /\ DOMAIN scenes' \subseteq Scenes
      /\ \A z \in DOMAIN scenes' : \A r \in DOMAIN scenes'[z] :
           r \in Rows /\ scenes'[z][r] \in Values
  <2>1. ReferencesInv /\ DOMAIN CurrentValues = Rows /\ \A r \in Rows : CurrentValues[r] \in Values
    BY CaptureFacts DEF IInv
  <2>2. CASE CreateScene(s)
    BY <2>1, <2>2 DEF CreateScene, With, ReferencesInv
  <2>3. CASE CaptureScene(s)
    BY <2>1, <2>3 DEF CaptureScene, ReferencesInv
  <2>4. CASE DeleteScene(s)
    BY <2>1, <2>4 DEF DeleteScene, Without, ReferencesInv
  <2> QED
    BY <2>2, <2>3, <2>4
<1>3. ReferencesInv'
  BY <1>1, <1>2 DEF IInv, ReferencesInv, Rows
<1> QED
  BY <1>1, <1>3, CallSpends, HandlersKept, GroupsStep

\* A handler goes on with locals that name what its ids stand for.
LEMMA GoStep ==
  ASSUME IInv, NEW r \in Requesters, NEW p, NEW w \in Work,
         p \in {"idle", "fixtures", "templates", "scene", "write"}, Go(r, p, w),
         created' = created, born' = born,
         \A f \in DOMAIN w.listed : f \in 1 .. created /\ w.listed[f].for = born[f],
         \A x \in w.todo : x.id \in 1 .. created /\ x.for = born[x.id]
  PROVE  HandlersInv'
<1>1. DOMAIN pc = Requesters /\ DOMAIN work = Requesters /\ \A q \in Requesters : HandlerInv(q)
  BY DEF IInv, HandlersInv
<1>2. /\ DOMAIN pc' = Requesters /\ DOMAIN work' = Requesters
      /\ pc'[r] = p /\ work'[r] = w
      /\ \A q \in Requesters \ {r} : pc'[q] = pc[q] /\ work'[q] = work[q]
  BY <1>1 DEF Go
<1>3. HandlerInv(r)'
  BY <1>2 DEF HandlerInv
<1>4. \A q \in Requesters \ {r} : HandlerInv(q)'
  BY <1>1, <1>2 DEF HandlerInv
<1> QED
  BY <1>2, <1>3, <1>4 DEF HandlersInv

\* The rest of a handler is its writes.
LEMMA PerformStep ==
  ASSUME IInv, NEW r \in Requesters, NEW W \in SUBSET Writes, Perform(r, W),
         created' = created, born' = born,
         \A x \in W : x.id \in 1 .. created /\ x.for = born[x.id]
  PROVE  HandlersInv'
<1> DEFINE w == [NoWork EXCEPT !.todo = W]
           p == IF W = {} THEN "idle" ELSE "write"
<1>1. w \in Work /\ DOMAIN w.listed = {} /\ w.todo = W
  BY NoWorkType DEF Work
<1>2. Go(r, p, w)
  BY DEF Perform
<1> HIDE DEF w
<1> QED
  BY <1>1, <1>2, GoStep

LEMMA HandlerFacts ==
  ASSUME IInv, NEW r \in Requesters
  PROVE  /\ work[r] \in Work /\ HandlerInv(r)
         /\ created \in 0 .. MaxFixtures /\ \A f \in 1 .. created : f \in Ids /\ born[f] \in Ids
<1>1. created \in Nat /\ created <= MaxFixtures /\ \A f \in 1 .. created : born[f] \in Ids
  BY DEF IInv, CountersInv
<1>2. \A f \in 1 .. created : f \in Ids
  BY <1>1, Constants DEF Ids
<1> QED
  BY <1>1, <1>2, Constants DEF IInv, HandlersInv, HandlerInv

\* A step of a handler that changes no table.
LEMMA ReadStep ==
  ASSUME IInv, HandlersInv', UNCHANGED <<store, up, history>>, spent' \in 0 .. MaxCalls
  PROVE  IInv'
<1>1. ReferencesInv'
  BY Frames DEF store
<1> QED
  BY <1>1, GroupsStep DEF store, history

LEMMA SpentUnchanged ==
  ASSUME IInv, spent' = spent
  PROVE  spent' \in 0 .. MaxCalls
BY DEF IInv, CountersInv

LEMMA GroupRequestStep ==
  ASSUME IInv, Call, NEW r \in Requesters, NEW g \in Groups, NEW k \in Kinds, NEW v \in Values,
         GroupRequest(r, g, k, v)
  PROVE  IInv'
<1> DEFINE w == [NoWork EXCEPT !.members = groups[g], !.kind = k, !.value = v]
<1>1. groups[g] \in SUBSET Ids
  <2>1. groups[g] \subseteq DOMAIN fixtures
    BY DEF GroupRequest, IInv, ReferencesInv
  <2>2. DOMAIN fixtures \subseteq 1 .. created
    BY FixtureFacts
  <2> QED
    BY <2>1, <2>2, HandlerFacts
<1>2. w \in Work /\ DOMAIN w.listed = {} /\ w.todo = {}
  BY <1>1, NoWorkType DEF Work
<1>3. Go(r, "fixtures", w) /\ UNCHANGED <<store, up, history>>
  BY DEF GroupRequest
<1> HIDE DEF w
<1>4. HandlersInv'
  BY <1>2, <1>3, GoStep DEF store, history
<1> QED
  BY <1>3, <1>4, CallSpends, ReadStep

LEMMA GroupFixturesStep ==
  ASSUME IInv, NEW r \in Requesters, GroupFixtures(r)
  PROVE  IInv'
<1> DEFINE S == work[r].members \cap DOMAIN fixtures
           l == [f \in S |-> [template |-> fixtures[f].template, for |-> born[f]]]
           w == [work[r] EXCEPT !.listed = l]
<1>1. /\ work[r] \in Work /\ \A f \in 1 .. created : f \in Ids /\ born[f] \in Ids
      /\ \A x \in work[r].todo : x.id \in 1 .. created /\ x.for = born[x.id]
  BY HandlerFacts DEF HandlerInv
<1>2. \A f \in S : f \in 1 .. created /\ fixtures[f].template \in Templates
  BY FixtureFacts DEF Fixture
<1>3. l \in UNION {[T -> Listed] : T \in SUBSET Ids}
  <2>1. S \in SUBSET Ids
    BY <1>1, <1>2
  <2>2. l \in [S -> Listed]
    BY <1>1, <1>2 DEF Listed
  <2> HIDE DEF S, l
  <2> QED
    BY <2>1, <2>2
<1>4. DOMAIN l = S /\ \A f \in S : l[f].for = born[f]
  OBVIOUS
<1> HIDE DEF l
<1>5. w \in Work /\ w.listed = l /\ w.todo = work[r].todo
  BY <1>1, <1>3 DEF Work
<1>6. Go(r, "templates", w) /\ UNCHANGED <<store, up, history>> /\ spent' = spent
  BY DEF GroupFixtures, l
<1> HIDE DEF w
<1>7. HandlersInv'
  BY <1>1, <1>2, <1>4, <1>5, <1>6, GoStep DEF store, history
<1> QED
  BY <1>6, <1>7, SpentUnchanged, ReadStep

LEMMA GroupTemplatesStep ==
  ASSUME IInv, NEW r \in Requesters, GroupTemplates(r)
  PROVE  IInv'
<1> DEFINE w == work[r]
           W == {[id |-> q[1], index |-> q[2], value |-> w.value,
                  for |-> w.listed[q[1]].for] : q \in Matching(w)}
<1>1. /\ w \in Work /\ \A f \in 1 .. created : f \in Ids /\ born[f] \in Ids
      /\ \A f \in DOMAIN w.listed : f \in 1 .. created /\ w.listed[f].for = born[f]
  BY HandlerFacts DEF HandlerInv
<1>2. w.value \in Values
  BY <1>1 DEF Work
<1>3. ASSUME NEW x \in W
      PROVE  x \in Writes /\ x.id \in 1 .. created /\ x.for = born[x.id]
  <2>1. PICK q \in Matching(w) :
          x = [id |-> q[1], index |-> q[2], value |-> w.value, for |-> w.listed[q[1]].for]
    OBVIOUS
  <2>2. q[1] \in DOMAIN w.listed /\ q[2] \in Indices
    BY DEF Matching
  <2>3. q[1] \in 1 .. created /\ q[1] \in Ids /\ w.listed[q[1]].for = born[q[1]]
        /\ born[q[1]] \in Ids /\ q[2] \in Int
    BY <1>1, <2>2, Constants
  <2> QED
    BY <1>2, <2>1, <2>3 DEF Writes
<1>4. Perform(r, W) /\ UNCHANGED <<store, up, history>> /\ spent' = spent
  BY DEF GroupTemplates
<1> HIDE DEF W
<1>5. HandlersInv'
  BY <1>3, <1>4, PerformStep DEF store, history
<1> QED
  BY <1>4, <1>5, SpentUnchanged, ReadStep

LEMMA RecallRequestStep ==
  ASSUME IInv, Call, NEW r \in Requesters, NEW s \in Scenes, RecallRequest(r, s)
  PROVE  IInv'
<1> DEFINE w == [NoWork EXCEPT !.scene = s]
<1>1. w \in Work /\ DOMAIN w.listed = {} /\ w.todo = {}
  BY NoWorkType DEF Work
<1>2. Go(r, "scene", w) /\ UNCHANGED <<store, up, history>>
  BY DEF RecallRequest
<1> HIDE DEF w
<1>3. HandlersInv'
  BY <1>1, <1>2, GoStep DEF store, history
<1> QED
  BY <1>2, <1>3, CallSpends, ReadStep

LEMMA RecallLoadStep ==
  ASSUME IInv, NEW r \in Requesters, RecallLoad(r)
  PROVE  IInv'
<1> DEFINE s == work[r].scene
           W == IF s \in DOMAIN scenes THEN Recalled(s) ELSE {}
<1>1. ASSUME NEW x \in W
      PROVE  x \in Writes /\ x.id \in 1 .. created /\ x.for = born[x.id]
  <2>1. s \in DOMAIN scenes
    OBVIOUS
  <2>2. PICK q \in DOMAIN scenes[s] : x = Write(q[1], q[2], scenes[s][q])
    BY <2>1 DEF Recalled
  <2>3. q \in Rows /\ scenes[s][q] \in Values
    BY <2>1, <2>2 DEF IInv, ReferencesInv
  <2>4. q[1] \in DOMAIN fixtures /\ q[2] \in Nat
    BY <2>3 DEF Rows
  <2>5. q[1] \in 1 .. created /\ q[1] \in Ids /\ born[q[1]] \in Ids
    BY <2>4, FixtureFacts, HandlerFacts
  <2> QED
    BY <2>2, <2>3, <2>4, <2>5 DEF Write, Writes
<1>2. Perform(r, W) /\ UNCHANGED <<store, up, history>> /\ spent' = spent
  BY DEF RecallLoad
<1> HIDE DEF W
<1>3. HandlersInv'
  BY <1>1, <1>2, PerformStep DEF store, history
<1> QED
  BY <1>2, <1>3, SpentUnchanged, ReadStep

LEMMA WriteValueStep ==
  ASSUME IInv, NEW r \in Requesters, WriteValue(r)
  PROVE  IInv'
<1>1. PICK w \in work[r].todo :
        /\ fixtures' = Updated(w.id, w.index, w.value)
        /\ Perform(r, work[r].todo \ {w})
        /\ templates' = templates /\ torn' = torn /\ groups' = groups
        /\ scenes' = scenes /\ created' = created /\ births' = births /\ born' = born
        /\ tolerated' = tolerated /\ up' = up /\ spent' = spent
  BY DEF WriteValue, history
<1>2. /\ work[r].todo \in SUBSET Writes
      /\ \A x \in work[r].todo : x.id \in 1 .. created /\ x.for = born[x.id]
  BY HandlerFacts DEF HandlerInv, Work
<1>3. HandlersInv'
  BY <1>1, <1>2, PerformStep
<1> DEFINE F == Updated(w.id, w.index, w.value)
<1>4. SameShape(F) /\ \A g \in DOMAIN fixtures : F[g].order = fixtures[g].order
  BY <1>2, UpdatedShape DEF Writes
<1>5. fixtures' = F
  BY <1>1
<1> HIDE DEF F
<1>6. OrderInv'
  BY <1>4, <1>5 DEF IInv, OrderInv, SameShape
<1> QED
  BY <1>1, <1>3, <1>4, <1>5, <1>6, SpentUnchanged, FixturesStep

-----------------------------------------------------------------------------
(***************************************************************************)
(* Every state of every run satisfies IInv                                 *)
(***************************************************************************)

LEMMA InitEstablishes == Init => IInv
<1> SUFFICES ASSUME Init PROVE IInv
  OBVIOUS
<1>1. /\ templates = [t \in {Mira, Par} |->
            [footprint |-> FootprintOf(IF t = Mira THEN MiraChannels ELSE ParChannels),
             channels |-> IF t = Mira THEN MiraChannels ELSE ParChannels]]
      /\ fixtures = Empty /\ groups = Empty /\ scenes = Empty /\ up = TRUE
      /\ pc = [r \in Requesters |-> "idle"] /\ work = [r \in Requesters |-> NoWork]
      /\ created = 0 /\ spent = 0 /\ births = 0 /\ born = Empty
      /\ tolerated = {} /\ torn = {}
  BY DEF Init
<1>2. DOMAIN fixtures = {} /\ DOMAIN groups = {} /\ DOMAIN scenes = {} /\ DOMAIN born = {}
  BY <1>1 DEF Empty
<1>3. TemplatesInv
  <2>1. \A c \in {MiraChannels, ParChannels} : c \in Tables /\ FootprintOf(c) \in Nat
    BY Constants, FootprintIs
  <2>2. \A t \in DOMAIN templates :
          /\ templates[t].channels \in {MiraChannels, ParChannels}
          /\ templates[t] = [footprint |-> FootprintOf(templates[t].channels),
                             channels |-> templates[t].channels]
    BY <1>1
  <2>3. \A t \in DOMAIN templates :
          /\ templates[t] \in Template
          /\ templates[t].footprint = FootprintOf(templates[t].channels)
          /\ templates[t].footprint \in Nat
    BY <2>1, <2>2 DEF Template
  <2>4. DOMAIN templates \subseteq Templates /\ torn \subseteq DOMAIN templates
    BY <1>1, Constants
  <2> QED
    BY <2>3, <2>4 DEF TemplatesInv
<1>4. FixturesInv /\ OrderInv /\ OverlapInv
  BY <1>1, <1>2 DEF FixturesInv, OrderInv, OverlapInv
<1>5. ReferencesInv
  BY <1>2 DEF ReferencesInv
<1>6. CountersInv
  BY <1>1, <1>2, BoundsAssumption DEF CountersInv
<1>7. HandlersInv
  <2> SUFFICES ASSUME NEW r \in Requesters PROVE HandlerInv(r)
    BY <1>1 DEF HandlersInv
  <2>1. pc[r] = "idle" /\ work[r] = NoWork
    BY <1>1
  <2> QED
    BY <2>1, NoWorkType DEF HandlerInv
<1> QED
  BY <1>3, <1>4, <1>5, <1>6, <1>7 DEF IInv

LEMMA StutterStep ==
  ASSUME IInv, UNCHANGED vars
  PROVE  IInv'
<1>1. UNCHANGED <<store, up, history>> /\ spent' = spent /\ pc' = pc /\ work' = work
  BY DEF vars, threads
<1>2. created' = created /\ born' = born
  BY <1>1 DEF store, history
<1>3. HandlersInv'
  BY <1>1, <1>2, HandlersKept
<1>4. spent' \in 0 .. MaxCalls
  BY <1>1, SpentUnchanged
<1> QED
  BY <1>1, <1>3, <1>4, ReadStep

LEMMA TemplateCallStep ==
  ASSUME IInv, Call, TemplateCall
  PROVE  IInv'
<1>1. ASSUME NEW t \in Templates, CreateTemplate(t) PROVE IInv'
  BY <1>1, CreateTemplateStep
<1>2. ASSUME NEW t \in Templates, ResetTemplate(t) PROVE IInv'
  BY <1>2, ResetTemplateStep
<1>3. ASSUME NEW t \in Templates, NEW i \in Indices, NEW ch \in Channel,
             AddTemplateChannel(t, i, ch)
      PROVE  IInv'
  BY <1>3, AddTemplateChannelStep
<1>4. ASSUME NEW t \in Templates, NEW i \in Indices, NEW ch \in Channel,
             UpdateTemplateChannel(t, i, ch)
      PROVE  IInv'
  BY <1>4, UpdateTemplateChannelStep
<1>5. ASSUME NEW t \in Templates, NEW i \in Indices, NEW ch \in Channel,
             CrashInAddTemplateChannel(t, i, ch)
      PROVE  IInv'
  BY <1>5, CrashInAddStep
<1>6. ASSUME NEW t \in Templates, NEW i \in Indices, NEW ch \in Channel,
             AddTemplateChannelFails(t, i, ch)
      PROVE  IInv'
  BY <1>6, AddTemplateChannelFailsStep
<1> QED
  BY <1>1, <1>2, <1>3, <1>4, <1>5, <1>6, Zenon DEF TemplateCall

LEMMA FixtureCallStep ==
  ASSUME IInv, Call, FixtureCall
  PROVE  IInv'
<1>1. ASSUME NEW t \in Templates, NEW u \in Universes, NEW a \in 0 .. LastAddress + 1,
             NEW n \in Overrides, NEW allow \in BOOLEAN, CreateFixture(t, u, a, n, allow)
      PROVE  IInv'
  <2>1. a \in Int
    OBVIOUS
  <2> QED
    BY <1>1, <2>1, CreateFixtureStep
<1>2. ASSUME NEW f \in DOMAIN fixtures, NEW on \in BOOLEAN, SetFixtureEnabled(f, on)
      PROVE  IInv'
  BY <1>2, SetFixtureEnabledStep
<1>3. ASSUME NEW f \in DOMAIN fixtures, DeleteFixture(f) PROVE IInv'
  BY <1>3, DeleteFixtureStep
<1>4. ASSUME NEW f \in DOMAIN fixtures, NEW i \in 1 .. MaxInt, NEW v \in Values,
             SetChannelValue(f, i, v)
      PROVE  IInv'
  BY <1>4, SetChannelValueStep
<1>5. ASSUME NEW place \in [DOMAIN fixtures -> 1 .. Cardinality(DOMAIN fixtures)],
             ReorderFixtures(place)
      PROVE  IInv'
  BY <1>5, ReorderFixturesStep
<1> QED
  BY <1>1, <1>2, <1>3, <1>4, <1>5, Zenon DEF FixtureCall

LEMMA GroupCallStep ==
  ASSUME IInv, Call, GroupCall
  PROVE  IInv'
<1>1. ASSUME NEW g \in Groups, CreateGroup(g) \/ DeleteGroup(g) PROVE IInv'
  <2>1. {} \in SUBSET DOMAIN fixtures
    OBVIOUS
  <2>2. CreateGroup(g) \/ DeleteGroup(g) \/ SetGroupFixtures(g, {})
    BY <1>1
  <2> QED
    BY <2>1, <2>2, GroupSteps, Zenon
<1>2. ASSUME NEW g \in Groups, NEW S \in SUBSET DOMAIN fixtures, SetGroupFixtures(g, S)
      PROVE  IInv'
  BY <1>2, GroupSteps, Zenon
<1>3. ASSUME NEW r \in Requesters, NEW g \in Groups, NEW k \in Kinds, NEW v \in Values,
             GroupRequest(r, g, k, v)
      PROVE  IInv'
  BY <1>3, GroupRequestStep
<1> QED
  BY <1>1, <1>2, <1>3, Zenon DEF GroupCall

LEMMA SceneCallStep ==
  ASSUME IInv, Call, SceneCall
  PROVE  IInv'
<1>1. ASSUME NEW s \in Scenes, CreateScene(s) \/ CaptureScene(s) \/ DeleteScene(s)
      PROVE  IInv'
  BY <1>1, SceneSteps
<1>2. ASSUME NEW r \in Requesters, NEW s \in Scenes, RecallRequest(r, s) PROVE IInv'
  BY <1>2, RecallRequestStep
<1> QED
  BY <1>1, <1>2, Zenon DEF SceneCall

LEMMA NextPreserves == IInv /\ [Next]_vars => IInv'
<1> SUFFICES ASSUME IInv, [Next]_vars PROVE IInv'
  OBVIOUS
<1>1. CASE UNCHANGED vars
  BY <1>1, StutterStep
<1>2. CASE Call /\ TemplateCall
  BY <1>2, TemplateCallStep
<1>3. CASE Call /\ FixtureCall
  BY <1>3, FixtureCallStep
<1>4. CASE Call /\ GroupCall
  BY <1>4, GroupCallStep
<1>5. CASE Call /\ SceneCall
  BY <1>5, SceneCallStep
<1>6. CASE Call /\ CrashBetweenCalls
  BY <1>6, CrashStep
<1>7. CASE \E r \in Requesters : HandlerStep(r)
  BY <1>7, GroupFixturesStep, GroupTemplatesStep, RecallLoadStep, WriteValueStep
     DEF HandlerStep
<1>8. CASE Restart
  BY <1>8, RestartStep
<1> QED
  BY <1>1, <1>2, <1>3, <1>4, <1>5, <1>6, <1>7, <1>8 DEF Next

-----------------------------------------------------------------------------
(***************************************************************************)
(* Theorems                                                                *)
(***************************************************************************)

\* The inductive invariant holds in every state of every run of the store.
THEOREM Inductive == Spec => []IInv
BY InitEstablishes, NextPreserves, PTL DEF Spec

\* The tables keep their types, there is a value for each channel of a fixture, and a
\* fixture leaves its universe only if its last address is no int: what the validation
\* in createFixture() comes to, on which no CHECK of the schema insists.
THEOREM TypeCorrect == Spec => []TypeOK
<1>1. IInv => TypeOK
  <2> SUFFICES ASSUME IInv PROVE TypeOK
    OBVIOUS
  <2>1. \A t \in DOMAIN templates :
          /\ t \in Templates
          /\ templates[t].footprint \in Nat
          /\ \A i \in DOMAIN templates[t].channels :
               i \in Indices /\ templates[t].channels[i] \in Channel
    BY TemplateFacts DEF Tables
  <2>2. ASSUME NEW f \in DOMAIN fixtures
        PROVE  LET x == fixtures[f]
               IN  /\ f \in 1 .. created
                   /\ x.template \in DOMAIN templates
                   /\ x.universe \in Universes /\ x.universe >= 1
                   /\ x.start \in 1 .. LastAddress /\ x.count \in 1 .. MaxInt
                   /\ Last(x) <= LastAddress \/ Last(x) > MaxInt
                   /\ x.order \in Nat \ {0}
                   /\ x.enabled \in BOOLEAN
                   /\ x.values \in [1 .. x.count -> Values]
    <3>1. FixtureInv(f)
      BY FixtureFacts
    <3>2. fixtures[f].order \in Nat \ {0}
      BY FixturesFinite DEF IInv, OrderInv
    <3>3. fixtures[f].universe \in Universes /\ fixtures[f].enabled \in BOOLEAN
      BY <3>1 DEF FixtureInv, Fixture
    <3> QED
      BY <3>1, <3>2, <3>3 DEF FixtureInv
  <2>3. DOMAIN groups \subseteq Groups /\ DOMAIN scenes \subseteq Scenes
    BY DEF IInv, ReferencesInv
  <2>4. /\ up \in BOOLEAN
        /\ created \in 0 .. MaxFixtures /\ spent \in 0 .. MaxCalls
    BY BoundsAssumption DEF IInv, CountersInv
  <2>5. \A r \in Requesters : pc[r] \in {"idle", "fixtures", "templates", "scene", "write"}
    BY HandlerFacts DEF HandlerInv
  <2>6. tolerated \subseteq SUBSET (DOMAIN fixtures) /\ torn \subseteq DOMAIN templates
    BY DEF IInv, OverlapInv, TemplatesInv
  <2> QED
    BY <2>1, <2>2, <2>3, <2>4, <2>5, <2>6 DEF TypeOK
<1> QED
  BY <1>1, Inductive, PTL

\* The sort orders are the numbers from 1 to the number of fixtures, whatever was
\* created, reordered and deleted: normalizeFixtureSortOrder() closes every gap.
THEOREM Numbering == Spec => []SortOrderIsNumbering
<1>1. IInv => SortOrderIsNumbering
  BY FixturesFinite, OrdersAre DEF IInv, SortOrderIsNumbering
<1> QED
  BY <1>1, Inductive, PTL

\* Two enabled fixtures share an address only where createFixture() was told to allow
\* it or found the other one disabled, or where the end address of the later one
\* overflowed.
THEOREM Overlaps == Spec => []OverlapsAreTolerated
<1>1. IInv => OverlapsAreTolerated
  BY DEF IInv, OverlapInv, OverlapsAreTolerated
<1> QED
  BY <1>1, Inductive, PTL

\* Groups and scenes name only fixtures that exist and channels they have, whatever is
\* deleted: ON DELETE CASCADE.
THEOREM References == Spec => []ReferencesExist
<1>1. IInv => ReferencesExist
  BY DEF IInv, ReferencesInv, ReferencesExist
<1> QED
  BY <1>1, Inductive, PTL

\* A handler that listed fixtures never writes to one it did not list, whatever was
\* deleted and created between its calls: AUTOINCREMENT gives no id again.
THEOREM WritesReach == Spec => []WritesReachTheirFixture
<1>1. IInv => WritesReachTheirFixture
  BY HandlerFacts DEF HandlerInv, WritesReachTheirFixture
<1> QED
  BY <1>1, Inductive, PTL

\* The footprint of a template is its last channel, whatever the signs of the indices;
\* only a crash between the two statements of addTemplateChannel(), or the second one
\* failing, leaves it smaller.
THEOREM Footprint == Spec => []FootprintIsLastChannel
<1>1. IInv => FootprintIsLastChannel
  BY DEF IInv, TemplatesInv, FootprintIsLastChannel
<1> QED
  BY <1>1, Inductive, PTL

-----------------------------------------------------------------------------
(***************************************************************************)
(* The order of the fixtures                                               *)
(***************************************************************************)

\* Fixtures with different sort orders keep their order when they are numbered.
LEMMA NormalizedKeepsOrder ==
  ASSUME NEW F, IsFiniteSet(DOMAIN F), DOMAIN F \subseteq Nat,
         \A f \in DOMAIN F : F[f] \in Fixture,
         \A f, g \in DOMAIN F : F[f].order = F[g].order => f = g
  PROVE  LET N == Normalized(F) IN
         \A f, g \in DOMAIN F : F[f].order < F[g].order <=> N[f].order < N[g].order
<1> DEFINE N == Normalized(F)
<1>1. /\ \A f \in DOMAIN F : N[f].order \in 1 .. Cardinality(DOMAIN F)
      /\ \A f, g \in DOMAIN F : Before(F, f, g) => N[f].order < N[g].order
  BY NormalizedNumbers
<1>2. Cardinality(DOMAIN F) \in Nat
  BY FS_CardinalityType
<1>3. \A f \in DOMAIN F : F[f].order \in Nat
  BY DEF Fixture
<1> HIDE DEF N
<1>4. \A f \in DOMAIN F : N[f].order \in Nat
  BY <1>1, <1>2
<1> SUFFICES ASSUME NEW f \in DOMAIN F, NEW g \in DOMAIN F
             PROVE  F[f].order < F[g].order <=> N[f].order < N[g].order
  BY DEF N
<1>5. CASE F[f].order < F[g].order
  BY <1>1, <1>5 DEF Before
<1>6. CASE F[g].order < F[f].order
  <2>1. N[g].order < N[f].order
    BY <1>1, <1>6 DEF Before
  <2> QED
    BY <1>3, <1>4, <1>6, <2>1
<1>7. CASE F[f].order = F[g].order
  BY <1>3, <1>4, <1>7
<1> QED
  BY <1>3, <1>5, <1>6, <1>7

KeepsOrder ==
  \A f, g \in DOMAIN fixtures \cap DOMAIN fixtures' :
    fixtures[f].order < fixtures[g].order <=> fixtures'[f].order < fixtures'[g].order

LEMMA CreateKeepsOrder ==
  ASSUME IInv, NEW t \in Templates, NEW u \in Universes, NEW a \in Int,
         NEW n \in Overrides, NEW allow \in BOOLEAN, CreateFixture(t, u, a, n, allow)
  PROVE  KeepsOrder
<1>1. fixtures' = With(fixtures, created + 1, NewFixture(t, u, a, n))
  BY DEF CreateFixture, NextId
<1>2. \A f \in DOMAIN fixtures : f # created + 1
  BY FixtureFacts DEF IInv, CountersInv
<1>3. \A f \in DOMAIN fixtures : fixtures'[f] = fixtures[f]
  BY <1>1, <1>2 DEF With
<1> QED
  BY <1>3 DEF KeepsOrder

LEMMA DeleteKeepsOrder ==
  ASSUME IInv, NEW f \in DOMAIN fixtures, DeleteFixture(f)
  PROVE  KeepsOrder
<1> DEFINE G == Without(fixtures, {f})
           N == Normalized(G)
<1>1. fixtures' = N
  BY DEF DeleteFixture
<1>2. DOMAIN G = DOMAIN fixtures \ {f} /\ \A g \in DOMAIN G : G[g] = fixtures[g]
  BY DEF Without
<1>3. IsFiniteSet(DOMAIN fixtures \ {f}) /\ DOMAIN fixtures \subseteq Nat
  BY FixturesFinite, FS_RemoveElement
<1>4. \A g \in DOMAIN fixtures : fixtures[g] \in Fixture
  BY FixtureFacts
<1>5. \A g, h \in DOMAIN fixtures : fixtures[g].order = fixtures[h].order => g = h
  BY DEF IInv, OrderInv
<1> HIDE DEF G
<1>6. /\ DOMAIN N = DOMAIN G
      /\ \A g, h \in DOMAIN G : G[g].order < G[h].order <=> N[g].order < N[h].order
  BY <1>2, <1>3, <1>4, <1>5, NormalizedNumbers, NormalizedKeepsOrder
<1> HIDE DEF N
<1> QED
  BY <1>1, <1>2, <1>6 DEF KeepsOrder

LEMMA RestartKeepsOrder ==
  ASSUME IInv, Restart
  PROVE  KeepsOrder
<1> DEFINE N == Normalized(fixtures)
<1>1. fixtures' = N
  BY DEF Restart
<1>2. IsFiniteSet(DOMAIN fixtures) /\ DOMAIN fixtures \subseteq Nat
  BY FixturesFinite
<1>3. \A g \in DOMAIN fixtures : fixtures[g] \in Fixture
  BY FixtureFacts
<1>4. \A g, h \in DOMAIN fixtures : fixtures[g].order = fixtures[h].order => g = h
  BY DEF IInv, OrderInv
<1>5. \A g, h \in DOMAIN fixtures :
        fixtures[g].order < fixtures[h].order <=> N[g].order < N[h].order
  BY <1>2, <1>3, <1>4, NormalizedKeepsOrder
<1> HIDE DEF N
<1> QED
  BY <1>1, <1>5 DEF KeepsOrder

\* The other steps leave the fixtures there, or the orders they have, and the process
\* up or down.
LEMMA SameFixtures ==
  ASSUME IInv, [Next]_vars
  PROVE  \/ DOMAIN fixtures' = DOMAIN fixtures /\ up' = up
         \/ KeepsOrder
<1> DEFINE Same == DOMAIN fixtures' = DOMAIN fixtures /\ up' = up
<1>1. CASE UNCHANGED vars
  BY <1>1 DEF vars, store
<1>2. CASE TemplateCall
  <2>1. fixtures' = fixtures
    BY <1>2 DEF TemplateCall, CreateTemplate, ResetTemplate, AddTemplateChannel,
                AddTemplateChannelFails, InsertChannel, UpdateTemplateChannel,
                CrashInAddTemplateChannel, Crash
  <2> QED
    BY <2>1 DEF KeepsOrder
<1>3. CASE FixtureCall
  <2>1. ASSUME NEW t \in Templates, NEW u \in Universes, NEW a \in 0 .. LastAddress + 1,
               NEW n \in Overrides, NEW allow \in BOOLEAN, CreateFixture(t, u, a, n, allow)
        PROVE  KeepsOrder
    <3>1. a \in Int
      OBVIOUS
    <3> QED
      BY <2>1, <3>1, CreateKeepsOrder
  <2>2. ASSUME NEW f \in DOMAIN fixtures, NEW on \in BOOLEAN, SetFixtureEnabled(f, on)
        PROVE  Same
    BY <2>2 DEF SetFixtureEnabled
  <2>3. ASSUME NEW f \in DOMAIN fixtures, DeleteFixture(f) PROVE KeepsOrder
    BY <2>3, DeleteKeepsOrder
  <2>4. ASSUME NEW f \in DOMAIN fixtures, NEW i \in 1 .. MaxInt, NEW v \in Values,
               SetChannelValue(f, i, v)
        PROVE  Same
    BY <2>4 DEF SetChannelValue, Updated
  <2>5. ASSUME NEW place \in [DOMAIN fixtures -> 1 .. Cardinality(DOMAIN fixtures)],
               ReorderFixtures(place)
        PROVE  Same
    BY <2>5 DEF ReorderFixtures
  <2> HIDE DEF Same
  <2>6. Same \/ KeepsOrder
    BY <1>3, <2>1, <2>2, <2>3, <2>4, <2>5, Zenon DEF FixtureCall
  <2> QED
    BY <2>6 DEF Same
<1>4. CASE GroupCall
  BY <1>4 DEF GroupCall, CreateGroup, DeleteGroup, SetGroupFixtures, GroupRequest, store
<1>5. CASE SceneCall
  BY <1>5 DEF SceneCall, CreateScene, CaptureScene, DeleteScene, RecallRequest, store
<1>6. CASE CrashBetweenCalls
  BY <1>6 DEF CrashBetweenCalls, Crash, KeepsOrder
<1>7. CASE \E r \in Requesters : HandlerStep(r)
  <2>1. PICK r \in Requesters : HandlerStep(r)
    BY <1>7
  <2>2. CASE GroupFixtures(r) \/ GroupTemplates(r) \/ RecallLoad(r)
    BY <2>2 DEF GroupFixtures, GroupTemplates, RecallLoad, store
  <2>3. CASE WriteValue(r)
    BY <2>3 DEF WriteValue, Updated
  <2> QED
    BY <2>1, <2>2, <2>3 DEF HandlerStep
<1>8. CASE Restart
  BY <1>8, RestartKeepsOrder
<1> QED
  BY <1>1, <1>2, <1>3, <1>4, <1>5, <1>6, <1>7, <1>8 DEF Next

\* Whatever creates or deletes fixtures or starts the process leaves the fixtures that
\* stay in the order that reorderFixtures() gave them.
THEOREM OrderIsKept == Spec => OthersKeepTheirOrder
<1>1. IInv /\ [Next]_vars
      => [(DOMAIN fixtures # DOMAIN fixtures' \/ up # up')
            => \A f, g \in DOMAIN fixtures \cap DOMAIN fixtures' :
                 fixtures[f].order < fixtures[g].order
                   <=> fixtures'[f].order < fixtures'[g].order]_vars
  BY SameFixtures DEF KeepsOrder
<1> QED
  BY <1>1, Inductive, PTL DEF Spec, OthersKeepTheirOrder
=============================================================================
