SPECIFICATION Spec
CONSTANTS
  Inputs = {pad}
  Raw <- NotesAndControls
  MaxPlayed = 2
  MaxPlugs = 1
INVARIANT
  MessagesAreHeard
CHECK_DEADLOCK FALSE
