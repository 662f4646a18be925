SPECIFICATION FairSpec
CONSTANTS
  Clients = {c1}
  HeaderSize = 1
  Lengths = {2, 7}
  Bodies = {2}
  SizeRange = 8
  MaxRequest = 2
  BufferSize = 2
  MaxRecent = 2
  MaxFaults = 1
PROPERTY StopReturns
CHECK_DEADLOCK FALSE
