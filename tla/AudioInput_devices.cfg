SPECIFICATION FairSpec
CONSTANTS
  Inputs = {mic, line}
  Default = Default
  MaxRequests = 3
  MaxChanges = 1
  MaxFaults = 2
INVARIANTS
  TypeOK
  SelectionApplied
  TickSourceIsNamed
  NoStreamLeak
PROPERTY
  SelectionSettles
