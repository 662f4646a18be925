SPECIFICATION AutoFairSpec
CONSTANTS
  Ports = {1}
  Serials = {A}
  NoId = NoId
  Requesters = {r1}
  RetryLimits = {2}
  Frames = {dark, lit}
  Dark = dark
  AttemptCap = 1
  MaxRequests = 1
  MaxPlugs = 2
  MaxFaults = 1
INVARIANT
  CleanStopGoesDark
PROPERTIES
  ReturnsToService
  StopCompletes
  RequestsComplete
