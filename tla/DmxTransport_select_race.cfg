SPECIFICATION AutoSpec
CONSTANTS
  Ports = {1, 2}
  Serials = {A, B}
  NoId = NoId
  Requesters = {r1}
  RetryLimits = {2}
  Frames = {dark, lit}
  Dark = dark
  AttemptCap = 1
  MaxRequests = 1
  MaxPlugs = 0
  MaxFaults = 0
INVARIANT SelectionTakesEffect
