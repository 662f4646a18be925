SPECIFICATION Spec
CONSTANTS
  Controls = {k1, k2}
  NoControl = NoControl
  Nothing = Nothing
  Inputs = {i1, i2}
  All = All
  Notes = {n1}
  Values = {0, 1}
  Requesters = {r1, r2}
  MaxMessages = 4
  MaxRequests = 4
  MaxFaults = 2
SYMMETRY Symmetry
INVARIANTS
  TypeOK
  RestartKeepsMidi
  MessageMovesControls
