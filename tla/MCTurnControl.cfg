CONSTANTS
  Default = default  NoLimit = NoLimit
  Modes = {plan, chat}
  Hooks = {1, 2}
  MaxRetries = 1
  MaxTurns = 4
  MaxPrice = TRUE
  Context = {0, 1, 2}
  MaxPrompts = 2
  MaxRequests = 5
  MaxSwitches = 1
  MaxLoads = 1
SPECIFICATION Spec
INVARIANTS WarningGiven TurnsLimited RoundsBounded
PROPERTY ModeAnnounced
CHECK_DEADLOCK FALSE
SYMMETRY ModeSymmetry
