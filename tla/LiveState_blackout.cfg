SPECIFICATION LitSpec
CONSTANTS
  Channels = {1, 2}
  Fixtures = {spot, wash}
  spot = spot
  wash = wash
  FixtureOf <- OnePerFixture
  UniverseOf <- TwoUniverses
  MaxValue = 1
  Scenes = {s1}
  Requesters = {r1}
  Fades = {t1, t2}
  FadeSteps = 1
  Kinds = {"blackout", "recall"}
  MaxRequests = 2
INVARIANT
  BlackoutStaysBlack
