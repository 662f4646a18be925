---------------------------- MODULE FixturePatch ----------------------------
(***************************************************************************)
(* The store of the rig (src/db/database.cpp): fixture templates, fixtures *)
(* patched at addresses of universes, their channel values, groups and     *)
(* scenes.                                                                 *)
(*                                                                         *)
(* A call of Database holds its mutex and runs the statements that change  *)
(* the store in a transaction, so it is one action, and one that fails     *)
(* leaves the store as it was.  addTemplateChannel() alone runs two        *)
(* statements without a transaction: a crash may come between them, and    *)
(* the second may fail.  A statement that only reads is taken to succeed.  *)
(*                                                                         *)
(* Numbers in requests are any int.  Arithmetic of SQLite has 64 bits and  *)
(* cannot overflow with them; that of C++ has the range of int.            *)
(*                                                                         *)
(* Handlers of several calls (src/app/app_controller.cpp) hold nothing     *)
(* between them: setting a kind of channel in a group and recalling a      *)
(* scene work from lists of ids that other threads may have changed.       *)
(*                                                                         *)
(* Names are unique and stand for the ids of templates, groups and scenes; *)
(* fixtures have the ids SQLite gives them.  Renaming, descriptions and    *)
(* value ranges of channels are left out.                                  *)
(***************************************************************************)
EXTENDS Integers, FiniteSets

CONSTANTS
  Templates,    \* names of fixture templates
  Mira, Par,    \* the two templates seeded at startup
  MiraChannels, \* their channels
  ParChannels,
  Indices,      \* channel indices that clients add to templates, of any sign
  Kinds,        \* kinds of channels
  MaxValue,     \* channel values are 0 .. MaxValue
  Universes,    \* universe numbers that clients ask for
  LastAddress,  \* last address of a universe, 512
  MaxInt,       \* largest int
  Overrides,    \* channel counts asked for, 0 for that of the template
  Groups,       \* names of groups
  Scenes,       \* names of scenes
  Requesters,   \* HTTP threads with handlers of several calls
  MaxFixtures,  \* bound on the fixtures created
  MaxCalls      \* bound on requests and crashes

Values == 0 .. MaxValue
Ints == (-MaxInt - 1) .. MaxInt
Channel == [kind : Kinds, default : Values]

ASSUME BoundsAssumption ==
  /\ MaxValue \in Nat
  /\ LastAddress \in Nat /\ MaxInt \in Nat /\ LastAddress <= MaxInt
  /\ Overrides \subseteq Ints /\ Universes \subseteq Ints
  /\ MaxFixtures \in Nat
  /\ MaxCalls \in Nat
ASSUME IndicesAssumption == Indices \subseteq Ints
ASSUME SeedsAssumption ==
  /\ {Mira, Par} \subseteq Templates /\ Mira # Par
  /\ MiraChannels \in UNION {[S -> Channel] : S \in SUBSET Indices}
  /\ ParChannels \in UNION {[S -> Channel] : S \in SUBSET Indices}

VARIABLES
  templates, \* fixture_templates and template_channels, by name
  fixtures,  \* fixtures and fixture_channel_values, by id
  groups,    \* fixture_groups and fixture_group_members, by name
  scenes,    \* scenes and scene_values, by name
  up,        \* whether the process runs
  pc,        \* where each HTTP thread is in a handler of several calls
  work,      \* its locals
  created,   \* the AUTOINCREMENT counter of fixtures
  spent,     \* environment: requests and crashes so far
  births,    \* history: fixtures created so far
  born,      \* history: which of them each id stands for
  tolerated, \* history: pairs of fixtures whose overlap was accepted
  torn       \* history: templates with a change cut by a crash or a failing statement

store == <<templates, fixtures, groups, scenes, created>>
threads == <<pc, work>>
history == <<births, born, tolerated, torn>>
vars == <<store, up, threads, spent, history>>

-----------------------------------------------------------------------------
(***************************************************************************)
(* Helpers                                                                 *)
(***************************************************************************)

\* The partial function f with k mapped to v, and without the keys in K.
With(f, k, v) == [x \in DOMAIN f \cup {k} |-> IF x = k THEN v ELSE f[x]]
Without(f, K) == [x \in DOMAIN f \ K |-> f[x]]
Empty == [x \in {} |-> x]

Largest(S) == IF S = {} THEN 0 ELSE CHOOSE m \in S : \A n \in S : n <= m

\* The last address of a fixture, as the overlap query computes it for a row.
Last(f) == f.start + f.count - 1

\* The condition of the overlap query for a fixture that ends at address end: not
\* (a > end of b or end of a < b).
Hits(f, end, g) ==
  /\ f.universe = g.universe
  /\ ~(f.start > Last(g) \/ end < g.start)

Overlapping(f, g) == Hits(f, Last(f), g)

\* footprint_channels starts at 0 and is raised to the indices of the channels.
FootprintOf(channels) == Largest({0} \cup DOMAIN channels)

Orders == {fixtures[f].order : f \in DOMAIN fixtures}

\* Mutants of normalizeFixtureSortOrder(): it does nothing; it numbers the fixtures
\* in the order of their ids.
NotNormalized(F) == F

NormalizedById(F) ==
  [f \in DOMAIN F |->
     [F[f] EXCEPT !.order = 1 + Cardinality({g \in DOMAIN F : g < f})]]

\* normalizeFixtureSortOrder(): number the fixtures of F in the order of
\* (sort_order, id).
Before(F, f, g) ==
  F[f].order < F[g].order \/ (F[f].order = F[g].order /\ f < g)

Normalized(F) ==
  [f \in DOMAIN F |->
     [F[f] EXCEPT !.order = 1 + Cardinality({g \in DOMAIN F : Before(F, g, f)})]]

\* Everything there is a value for, as captureScene() copies it.
Rows == {r \in (DOMAIN fixtures) \X (1 .. MaxInt) : r[2] <= fixtures[r[1]].count}
CurrentValues == [r \in Rows |-> fixtures[r[1]].values[r[2]]]

NoWork == [members |-> {}, listed |-> Empty, kind |-> "", value |-> 0,
           scene |-> "", todo |-> {}]

Go(r, p, w) ==
  /\ pc' = [pc EXCEPT ![r] = p]
  /\ work' = [work EXCEPT ![r] = w]

Call == up /\ spent < MaxCalls /\ spent' = spent + 1

-----------------------------------------------------------------------------
(***************************************************************************)
(* Templates                                                               *)
(***************************************************************************)

CreateTemplate(t) ==
  /\ t \notin DOMAIN templates
  /\ templates' = With(templates, t, [footprint |-> 0, channels |-> Empty])
  /\ UNCHANGED <<fixtures, groups, scenes, created, up, threads, history>>

\* Mutant: the channels go, the footprint stays.
ResetTemplateKeepsFootprint(t) ==
  /\ t \in DOMAIN templates
  /\ templates' = [templates EXCEPT ![t].channels = Empty]
  /\ torn' = torn \ {t}
  /\ UNCHANGED <<fixtures, groups, scenes, created, up, threads, births, born, tolerated>>

\* resetTemplateDefinition(): the fixtures of the template keep their channels.
ResetTemplate(t) ==
  /\ t \in DOMAIN templates
  /\ templates' = [templates EXCEPT ![t] = [footprint |-> 0, channels |-> Empty]]
  /\ torn' = torn \ {t}
  /\ UNCHANGED <<fixtures, groups, scenes, created, up, threads, births, born, tolerated>>

\* The first statement of addTemplateChannel(): foreign key and UNIQUE hold.
InsertChannel(t, i, ch) ==
  /\ t \in DOMAIN templates
  /\ i \notin DOMAIN templates[t].channels
  /\ LET channels == With(templates[t].channels, i, ch)
     IN  templates' = [templates EXCEPT ![t].channels = channels]

AddTemplateChannel(t, i, ch) ==
  /\ t \in DOMAIN templates
  /\ i \notin DOMAIN templates[t].channels
  /\ templates' = [templates EXCEPT
                     ![t] = [footprint |-> Largest({@.footprint, i}),
                             channels |-> With(@.channels, i, ch)]]
  /\ UNCHANGED <<fixtures, groups, scenes, created, up, threads, history>>

\* The UPDATE that raises the footprint fails: 0 is returned, the channel stays.
AddTemplateChannelFails(t, i, ch) ==
  /\ InsertChannel(t, i, ch)
  /\ torn' = torn \cup {t}
  /\ UNCHANGED <<fixtures, groups, scenes, created, up, threads, births, born, tolerated>>

\* updateTemplateChannel()
UpdateTemplateChannel(t, i, ch) ==
  /\ t \in DOMAIN templates
  /\ i \in DOMAIN templates[t].channels
  /\ templates' = [templates EXCEPT ![t].channels[i] = ch]
  /\ UNCHANGED <<fixtures, groups, scenes, created, up, threads, history>>

-----------------------------------------------------------------------------
(***************************************************************************)
(* Fixtures                                                                *)
(***************************************************************************)

\* Mutant: without AUTOINCREMENT, SQLite gives the largest id in the table plus one.
NextRowId == Largest(DOMAIN fixtures) + 1

\* AUTOINCREMENT gives ids above every id there ever was.
NextId == created + 1

\* The row createFixture() would insert for template t.
NewFixture(t, u, a, n) ==
  LET count == IF n > 0 THEN n ELSE templates[t].footprint
      channels == templates[t].channels
  IN  [template |-> t, universe |-> u, start |-> a, count |-> count,
       order |-> Largest(Orders) + 1, enabled |-> TRUE,
       values |-> [i \in 1 .. count |->
                     IF i \in DOMAIN channels THEN channels[i].default ELSE 0]]

\* What createFixture() may compute as the end address: an int.  A sum that does not
\* fit is undefined, and builds wrap it around or compare the sum itself.
EndOf(f) == IF Last(f) <= MaxInt THEN {Last(f)} ELSE {Last(f), Last(f) - 2 * (MaxInt + 1)}

\* Mutant: the end address is taken for one further than the range goes.
FitsNearly(f, end) ==
  /\ f.universe >= 1
  /\ f.start \in 1 .. LastAddress
  /\ f.count > 0
  /\ end <= LastAddress + 1

\* Mutant: only the start address is looked at.
ClashesAtStart(f, end) ==
  {g \in DOMAIN fixtures :
     /\ fixtures[g].enabled /\ fixtures[g].universe = f.universe
     /\ f.start \in fixtures[g].start .. Last(fixtures[g])}

\* The checks of createFixture(): the range is in the universe and, unless
\* allow_overlap was given, no enabled fixture of the universe is in it.
Fits(f, end) ==
  /\ f.universe >= 1
  /\ f.start \in 1 .. LastAddress
  /\ f.count > 0
  /\ end <= LastAddress

Clashes(f, end) ==
  {g \in DOMAIN fixtures : fixtures[g].enabled /\ Hits(f, end, fixtures[g])}

CreateFixture(t, u, a, n, allowOverlap) ==
  /\ t \in DOMAIN templates
  /\ births < MaxFixtures
  /\ LET f  == NewFixture(t, u, a, n)
         id == NextId
     IN  /\ \E end \in EndOf(f) : Fits(f, end) /\ (allowOverlap \/ Clashes(f, end) = {})
         /\ fixtures' = With(fixtures, id, f)
         /\ created' = Largest({created, id})
         /\ births' = births + 1
         /\ born' = With(born, id, births')
         /\ tolerated' = tolerated \cup
              {{id, g} : g \in {h \in DOMAIN fixtures :
                 Overlapping(f, fixtures[h]) /\ (allowOverlap \/ ~fixtures[h].enabled)}}
  /\ UNCHANGED <<templates, groups, scenes, up, threads, torn>>

\* setFixtureEnabled() does not look at overlaps.
SetFixtureEnabled(f, on) ==
  /\ f \in DOMAIN fixtures
  /\ fixtures' = [fixtures EXCEPT ![f].enabled = on]
  /\ UNCHANGED <<templates, groups, scenes, created, up, threads, history>>

\* Mutant: foreign keys are not enforced for groups.
GroupsKept(f) == groups

\* What ON DELETE CASCADE leaves of groups and scenes without fixture f.
GroupsWithout(f) == [g \in DOMAIN groups |-> groups[g] \ {f}]
ScenesWithout(f) ==
  [s \in DOMAIN scenes |-> Without(scenes[s], {r \in DOMAIN scenes[s] : r[1] = f})]

DeleteFixture(f) ==
  /\ f \in DOMAIN fixtures
  /\ fixtures' = Normalized(Without(fixtures, {f}))
  /\ groups' = GroupsWithout(f)
  /\ scenes' = ScenesWithout(f)
  /\ tolerated' = {p \in tolerated : f \notin p}
  /\ UNCHANGED <<templates, created, up, threads, births, born, torn>>

\* reorderFixtures() takes lists of all fixtures, each once: place is the
\* position of each fixture in the list.
ReorderFixtures(place) ==
  /\ \A f, g \in DOMAIN fixtures : place[f] = place[g] => f = g
  /\ fixtures' = [f \in DOMAIN fixtures |-> [fixtures[f] EXCEPT !.order = place[f]]]
  /\ UNCHANGED <<templates, groups, scenes, created, up, threads, history>>

\* updateFixtureChannelValue(): nothing is stored for a fixture that is gone or a
\* channel it does not have.
Updated(f, i, v) ==
  IF f \in DOMAIN fixtures /\ i \in 1 .. fixtures[f].count
    THEN [fixtures EXCEPT ![f].values[i] = v]
    ELSE fixtures

SetChannelValue(f, i, v) ==
  /\ f \in DOMAIN fixtures
  /\ i \in 1 .. fixtures[f].count
  /\ fixtures' = Updated(f, i, v)
  /\ UNCHANGED <<templates, groups, scenes, created, up, threads, history>>

-----------------------------------------------------------------------------
(***************************************************************************)
(* Groups and scenes                                                       *)
(***************************************************************************)

CreateGroup(g) ==
  /\ g \notin DOMAIN groups
  /\ groups' = With(groups, g, {})
  /\ UNCHANGED <<templates, fixtures, scenes, created, up, threads, history>>

\* setGroupFixtures(): ids that do not exist roll everything back.
SetGroupFixtures(g, S) ==
  /\ g \in DOMAIN groups
  /\ groups' = [groups EXCEPT ![g] = S]
  /\ UNCHANGED <<templates, fixtures, scenes, created, up, threads, history>>

DeleteGroup(g) ==
  /\ g \in DOMAIN groups
  /\ groups' = Without(groups, {g})
  /\ UNCHANGED <<templates, fixtures, scenes, created, up, threads, history>>

CreateScene(s) ==
  /\ s \notin DOMAIN scenes
  /\ scenes' = With(scenes, s, CurrentValues)
  /\ UNCHANGED <<templates, fixtures, groups, created, up, threads, history>>

\* captureScene() deletes the old values before it copies the new ones.
CaptureScene(s) ==
  /\ s \in DOMAIN scenes
  /\ scenes' = [scenes EXCEPT ![s] = CurrentValues]
  /\ UNCHANGED <<templates, fixtures, groups, created, up, threads, history>>

DeleteScene(s) ==
  /\ s \in DOMAIN scenes
  /\ scenes' = Without(scenes, {s})
  /\ UNCHANGED <<templates, fixtures, groups, created, up, threads, history>>

-----------------------------------------------------------------------------
(***************************************************************************)
(* Handlers of several calls                                               *)
(***************************************************************************)

\* A channel value to store, and the fixture it is meant for.
Write(f, i, v) == [id |-> f, index |-> i, value |-> v, for |-> born[f]]

Perform(r, writes) ==
  Go(r, IF writes = {} THEN "idle" ELSE "write", [NoWork EXCEPT !.todo = writes])

\* The kinds of a group: listGroups(), then resolveFixtures() with listFixtures()
\* and listTemplates(), then the writes.
GroupRequest(r, g, k, v) ==
  /\ pc[r] = "idle"
  /\ g \in DOMAIN groups
  /\ Go(r, "fixtures", [NoWork EXCEPT !.members = groups[g], !.kind = k, !.value = v])
  /\ UNCHANGED <<store, up, history>>

GroupFixtures(r) ==
  /\ pc[r] = "fixtures"
  /\ Go(r, "templates", [work[r] EXCEPT !.listed =
          [f \in work[r].members \cap DOMAIN fixtures |->
             [template |-> fixtures[f].template, for |-> born[f]]]])
  /\ UNCHANGED <<store, up, spent, history>>

\* The channels of the wanted kind that the fixtures listed have.
Matching(w) ==
  {q \in (DOMAIN w.listed) \X Indices :
     LET channels == templates[w.listed[q[1]].template].channels
     IN  q[2] \in DOMAIN channels /\ channels[q[2]].kind = w.kind}

GroupTemplates(r) ==
  LET w == work[r]
  IN  /\ pc[r] = "templates"
      /\ Perform(r, {[id |-> q[1], index |-> q[2], value |-> w.value,
                      for |-> w.listed[q[1]].for] : q \in Matching(w)})
      /\ UNCHANGED <<store, up, spent, history>>

\* An instant recall: listScenes(), loadScenePatches(), then the writes.
RecallRequest(r, s) ==
  /\ pc[r] = "idle"
  /\ s \in DOMAIN scenes
  /\ Go(r, "scene", [NoWork EXCEPT !.scene = s])
  /\ UNCHANGED <<store, up, history>>

\* Channels of disabled fixtures are left alone.
Recalled(s) ==
  {Write(r[1], r[2], scenes[s][r]) :
     r \in {q \in DOMAIN scenes[s] : fixtures[q[1]].enabled}}

RecallLoad(r) ==
  /\ pc[r] = "scene"
  /\ Perform(r, IF work[r].scene \in DOMAIN scenes THEN Recalled(work[r].scene) ELSE {})
  /\ UNCHANGED <<store, up, spent, history>>

\* One write of either; the writes are to different channels, so that the order
\* they are listed in does not matter.
WriteValue(r) ==
  \E w \in work[r].todo :
    /\ pc[r] = "write"
    /\ fixtures' = Updated(w.id, w.index, w.value)
    /\ Perform(r, work[r].todo \ {w})
    /\ UNCHANGED <<templates, groups, scenes, created, up, spent, history>>

-----------------------------------------------------------------------------
(***************************************************************************)
(* Startup and crashes                                                     *)
(***************************************************************************)

\* A kill between two calls, or between the statements of addTemplateChannel().
Crash ==
  /\ up' = FALSE
  /\ pc' = [r \in Requesters |-> "idle"]
  /\ work' = [r \in Requesters |-> NoWork]
  /\ UNCHANGED <<fixtures, groups, scenes, created, births, born, tolerated>>

CrashBetweenCalls == Crash /\ UNCHANGED <<templates, torn>>

CrashInAddTemplateChannel(t, i, ch) ==
  /\ InsertChannel(t, i, ch)
  /\ torn' = torn \cup {t}
  /\ Crash

\* seedMiraDye() makes the template what it was, metadata or everything;
\* seedAliExpressRgbPar() leaves a template of that name alone.
Seeded(T) ==
  With(T, Mira, [footprint |-> FootprintOf(MiraChannels), channels |-> MiraChannels])

Restart ==
  /\ ~up
  /\ up' = TRUE
  /\ fixtures' = Normalized(fixtures)
  /\ templates' = Seeded(templates)
  /\ torn' = torn \ {Mira}
  /\ UNCHANGED <<groups, scenes, created, threads, spent, births, born, tolerated>>

-----------------------------------------------------------------------------
(***************************************************************************)
(* Specification                                                           *)
(***************************************************************************)

\* The first start: the seeds and nothing else.
Init ==
  /\ templates = [t \in {Mira, Par} |->
       LET channels == IF t = Mira THEN MiraChannels ELSE ParChannels
       IN  [footprint |-> FootprintOf(channels), channels |-> channels]]
  /\ fixtures = Empty
  /\ groups = Empty
  /\ scenes = Empty
  /\ up = TRUE
  /\ pc = [r \in Requesters |-> "idle"]
  /\ work = [r \in Requesters |-> NoWork]
  /\ created = 0
  /\ spent = 0
  /\ births = 0
  /\ born = Empty
  /\ tolerated = {}
  /\ torn = {}

TemplateCall ==
  \/ \E t \in Templates : CreateTemplate(t) \/ ResetTemplate(t)
  \/ \E t \in Templates, i \in Indices, ch \in Channel :
       \/ AddTemplateChannel(t, i, ch)
       \/ AddTemplateChannelFails(t, i, ch)
       \/ UpdateTemplateChannel(t, i, ch)
       \/ CrashInAddTemplateChannel(t, i, ch)

FixtureCall ==
  \/ \E t \in Templates, u \in Universes, a \in 0 .. LastAddress + 1, n \in Overrides,
       allow \in BOOLEAN : CreateFixture(t, u, a, n, allow)
  \/ \E f \in DOMAIN fixtures :
       \/ \E on \in BOOLEAN : SetFixtureEnabled(f, on)
       \/ DeleteFixture(f)
       \/ \E i \in 1 .. MaxInt, v \in Values : SetChannelValue(f, i, v)
  \/ \E place \in [DOMAIN fixtures -> 1 .. Cardinality(DOMAIN fixtures)] :
       ReorderFixtures(place)

GroupCall ==
  \/ \E g \in Groups : CreateGroup(g) \/ DeleteGroup(g)
  \/ \E g \in Groups, S \in SUBSET DOMAIN fixtures : SetGroupFixtures(g, S)
  \/ \E r \in Requesters, g \in Groups, k \in Kinds, v \in Values : GroupRequest(r, g, k, v)

SceneCall ==
  \/ \E s \in Scenes : CreateScene(s) \/ CaptureScene(s) \/ DeleteScene(s)
  \/ \E r \in Requesters, s \in Scenes : RecallRequest(r, s)

HandlerStep(r) ==
  up /\ (GroupFixtures(r) \/ GroupTemplates(r) \/ RecallLoad(r) \/ WriteValue(r))

Next ==
  \/ Call /\ (TemplateCall \/ FixtureCall \/ GroupCall \/ SceneCall \/ CrashBetweenCalls)
  \/ \E r \in Requesters : HandlerStep(r)
  \/ Restart

Spec == Init /\ [][Next]_vars

-----------------------------------------------------------------------------
(***************************************************************************)
(* Properties                                                              *)
(***************************************************************************)

\* The tables have their types; a fixture has a value for each channel, and its
\* addresses are in its universe if its last one is an int.
TypeOK ==
  /\ \A t \in DOMAIN templates :
       /\ t \in Templates
       /\ templates[t].footprint \in Nat
       /\ \A i \in DOMAIN templates[t].channels :
            i \in Indices /\ templates[t].channels[i] \in Channel
  /\ \A f \in DOMAIN fixtures :
       LET x == fixtures[f]
       IN  /\ f \in 1 .. created
           /\ x.template \in DOMAIN templates
           /\ x.universe \in Universes /\ x.universe >= 1
           /\ x.start \in 1 .. LastAddress /\ x.count \in 1 .. MaxInt
           /\ Last(x) <= LastAddress \/ Last(x) > MaxInt
           /\ x.order \in Nat \ {0}
           /\ x.enabled \in BOOLEAN
           /\ x.values \in [1 .. x.count -> Values]
  /\ DOMAIN groups \subseteq Groups
  /\ DOMAIN scenes \subseteq Scenes
  /\ up \in BOOLEAN
  /\ \A r \in Requesters : pc[r] \in {"idle", "fixtures", "templates", "scene", "write"}
  /\ created \in 0 .. MaxFixtures /\ spent \in 0 .. MaxCalls
  /\ tolerated \subseteq SUBSET (DOMAIN fixtures) /\ torn \subseteq DOMAIN templates

\* The sort order is a numbering of the fixtures from 1 without gaps, whatever was
\* created, reordered and deleted in whatever order: createFixture() appends with
\* MAX + 1 and deleteFixture() closes the gap in the same transaction.
SortOrderIsNumbering ==
  Orders = 1 .. Cardinality(DOMAIN fixtures)

\* Creating, deleting and restarting keep the order that reorderFixtures() set.
OthersKeepTheirOrder ==
  [][(DOMAIN fixtures # DOMAIN fixtures' \/ up # up')
       => \A f, g \in DOMAIN fixtures \cap DOMAIN fixtures' :
            fixtures[f].order < fixtures[g].order
              <=> fixtures'[f].order < fixtures'[g].order]_vars

\* Two enabled fixtures share an address only if that was asked for with
\* allow_overlap or one was disabled when the other was created ("Address range
\* overlaps another enabled fixture").  The one exception is a later fixture whose
\* last address is no int: it is stored as if it were below the earlier ones.
OverlapsAreTolerated ==
  \A f, g \in DOMAIN fixtures :
    (f < g /\ fixtures[f].enabled /\ fixtures[g].enabled
       /\ Overlapping(fixtures[f], fixtures[g]))
      => {f, g} \in tolerated \/ Last(fixtures[g]) > MaxInt

\* Groups and scenes name only fixtures that exist, and scenes only channels that
\* have a value, after any deletions: the foreign keys.
ReferencesExist ==
  /\ \A g \in DOMAIN groups : groups[g] \subseteq DOMAIN fixtures
  /\ \A s \in DOMAIN scenes : DOMAIN scenes[s] \subseteq Rows

\* A handler that listed fixtures before others were deleted and created never
\* writes to a fixture it did not list: ids are not given again.
WritesReachTheirFixture ==
  \A r \in Requesters : \A w \in work[r].todo :
    w.id \in DOMAIN fixtures => born[w.id] = w.for

\* The footprint of a template is its last channel, so that a fixture created
\* without a channel count has all of its channels from 1 on.  Only a crash inside
\* addTemplateChannel(), or its second statement failing, can leave a template,
\* until it is reset or repaired at startup, with a channel beyond its footprint.
FootprintIsLastChannel ==
  \A t \in DOMAIN templates :
    LET last == FootprintOf(templates[t].channels)
    IN  IF t \in torn THEN templates[t].footprint <= last
                      ELSE templates[t].footprint = last
=============================================================================
