SPECIFICATION AutoSpec
CONSTANTS
  Ports = {1, 2}
  Serials = {A, B}
  NoId = NoId
  Requesters = {r1}
  RetryLimits = {1, 2}
  Frames = {dark}
  Dark = dark
  AttemptCap = 1
  MaxRequests = 1
  MaxPlugs = 2
  MaxFaults = 1
SYMMETRY SerialSymmetry
INVARIANTS
  IInv
  ScanLeavesLinkAlone
  NoHandleLeak
  HandleIsOnEndpoint
  NoStaleError
PROPERTY
  GivenUpOnlyAfterRetries
  ImplementsSession
