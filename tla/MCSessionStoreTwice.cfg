CONSTANTS
  turn = turn  thread = thread
  Savers = {turn}
  MaxMessages = 2
  MaxDirs = 1
  MaxFaults = 2
  MaxResumes = 1
  Inserts = FALSE
SPECIFICATION MCSpec
INVARIANT NoDuplicates
CHECK_DEADLOCK FALSE
