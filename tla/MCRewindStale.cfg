CONSTANTS
  Files = {fileA}
  MaxPrompts = 2
  MaxEdits = 1
  MaxReplies = 1
  MaxCommands = 0
SPECIFICATION Spec
PROPERTY LandsWhereShown
CHECK_DEADLOCK FALSE
