CONSTANTS
  Files = {fileA}
  MaxPrompts = 3
  MaxEdits = 2
  MaxReplies = 1
  MaxCommands = 1
SPECIFICATION Spec
INVARIANTS TypeOK CheckpointsSound
PROPERTIES RestoreExact RewindsToSelected
CHECK_DEADLOCK FALSE
