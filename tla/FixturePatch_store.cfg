SPECIFICATION RigSpec
CONSTANTS
  Templates = {mira, par, own}
  Mira = mira
  Par = par
  MiraChannels <- TwoChannels
  ParChannels <- OneChannel
  Indices = {0, 1, 2}
  Kinds = {"red"}
  MaxValue = 1
  Universes = {0, 1, 2}
  LastAddress = 3
  MaxInt = 4
  Overrides = {0, 3}
  Groups = {g1}
  Scenes = {s1}
  Requesters = {r1}
  MaxFixtures = 3
  MaxCalls = 4
INVARIANTS
  TypeOK
  SortOrderIsNumbering
  OverlapsAreTolerated
  ReferencesExist
  WritesReachTheirFixture
  FootprintIsLastChannel
PROPERTY
  OthersKeepTheirOrder
CHECK_DEADLOCK FALSE
