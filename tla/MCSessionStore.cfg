CONSTANTS
  turn = turn  thread = thread
  Savers = {turn, thread}
  MaxMessages = 3
  MaxDirs = 3
  MaxFaults = 1
  MaxResumes = 2
  Inserts = TRUE
SPECIFICATION MCSpec
INVARIANTS MetaNeverAhead NothingLost OnceAlone
PROPERTY ImplementsLog
CHECK_DEADLOCK FALSE
SYMMETRY SaverSymmetry
