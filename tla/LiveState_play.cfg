SPECIFICATION LitFairSpec
CONSTANTS
  Channels = {1, 2}
  Fixtures = {spot}
  spot = spot
  wash = wash
  FixtureOf <- BothOnSpot
  UniverseOf <- OneUniverse
  MaxValue = 1
  Scenes = {s1}
  Requesters = {r1}
  Fades = {t1}
  FadeSteps = 1
  Kinds = {"blackout", "enable", "reactive", "recall", "set"}
  MaxRequests = 2
INVARIANTS
  StoreAndOutputAgree
  CleanShutdownSavesZeros
PROPERTIES
  FadesEnd
  RequestsAnswered
