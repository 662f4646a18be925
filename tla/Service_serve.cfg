SPECIFICATION FairSpec
CONSTANTS
  Clients = {c1, c2}
  HeaderSize = 1
  Lengths = {2, 7}
  Bodies = {0, 3}
  SizeRange = 8
  MaxRequest = 2
  BufferSize = 2
  MaxRecent = 2
  MaxFaults = 1
INVARIANTS
  TypeOK
  BodyIsWhole
  OneLateConnection
  RecentIsTailOfLog
PROPERTIES
  RequestsAnswered
  StopsWhenContacted
CHECK_DEADLOCK FALSE
