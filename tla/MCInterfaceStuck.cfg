CONSTANTS
  At1 = at1  At2 = at2  At3 = at3  NoText = blank  None = None
  InputTexts = {at1, at2, at3, blank}
  Found <- MCFound
  MaxTyped = 3
  Dir = dir  A = a  B = b  C = c  Root = root
  Paths = {dir, a, b, c}
  Dirs = {dir, a}
  Parent <- MCParent
  Threshold = 2
  MaxChanges = 3
  MaxToggles = 1
  MaxRecordings = 2
  MaxChunks = 2
  MaxTurns = 3
  MaxSyncs = 1
  MaxPrompts = 3
  MaxEscapes = 1
SPECIFICATION Spec
INVARIANT NeverStuck
CHECK_DEADLOCK FALSE
