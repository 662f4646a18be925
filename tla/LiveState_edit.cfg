SPECIFICATION AnySpec
CONSTANTS
  Channels = {1, 2}
  Fixtures = {spot, wash}
  spot = spot
  wash = wash
  FixtureOf <- OnePerFixture
  UniverseOf <- TwoUniverses
  MaxValue = 1
  Scenes = {s1}
  Requesters = {r1, r2}
  Fades = {t1, t2}
  FadeSteps = 1
  Kinds = {"set", "group", "patch", "blackout", "enable", "capture", "recall"}
  MaxRequests = 2
SYMMETRY ThreadSymmetry
INVARIANTS
  TypeOK
  StoreAndOutputAgree
  LatestJobWins
  BlackoutIsTotal
