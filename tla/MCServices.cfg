CONSTANTS
  MaxItems = 2
  MaxPieces = 2
  Tries = 3
  MaxSaid = 6
  MaxAsked = 2
  Servers = {"s"}
  Connectors = {"c"}
  MaxChanges = 1
  Procs = {"p", "q"}
  MaxSaves = 2
  MaxStarts = 3
  MaxTrouble = 1
  MaxParts = 3
  MaxShells = 2
  MaxWritten = 2
  Cap = 1
  FileTexts <- MCTexts
  BlockLists <- MCEdits
  WholeTexts <- MCWrites
  MaxCalls = 2
  MaxBytes = 2
  MaxFound = 2
  Hd = hd  Rd = rd  Sd = sd  Td = td  Top = top
  Dirs = {hd, rd, sd, td}
  Parent <- MCParent
  Home = hd
  Configured = {td}
  Documented = {rd, sd, td}
  Programs = {"p", "q"}
  MaxRuns = 3
  MaxKills = 1
  MaxModels = 2
  MaxLaunches = 3
  Count = 3
  Multi = {2, 3}
  WithoutOther = {3}
  MaxFormKeys = 6
  MaxKeys = 4
  MaxEntries = 2
  MaxPanels = 3
  MaxPosted = 1
  TailSize = 1
  BatchSize = 1
  MaxHistory = 2
  MaxLive = 3
  Locals = {l}
  Remotes = {r1, r2}
  NoSession = none
  MaxFollowed = 3
  MaxHandled = 5
  ShownCalls = {c1}
  NoCall = nocall
  MaxShown = 4
  MaxLooks = 1
  Renames = {"r"}
  Names = {"x"}
  Places = {"p"}
  MaxSavedSessions = 2
  MaxSessionSaid = 2
  MaxLines = 3
  MaxCuts = 1
  PageSize = 1
  Height = 1
  MaxLogged = 3
  MaxOpened = 2
  UpdatingPrograms = {p}
  TTL = 2
  MaxVersion = 2
  MaxTime = 3
  MaxLaunched = 3
  Callers = {c, d}
  NoCaller = nocaller
  MaxLayerCalls = 3
  MaxEdits = 1
  Keys = {1, 2}
  Values = {1, 2}
  MaxLayers = 3
  MaxLayerItems = 2
  LowerOf <- MCLowerOf
  CodeOf <- MCCodeOf
  UpperCase = {"A", "I"}
  Letters = {"a", "A", "b", "i", "I"}
  LockSuffix <- MCLockSuffix
  FileTrees <- MCFileTrees
  TypedTexts <- MCTypedTexts
  WholeTrees <- MCWholeTrees
  SentMessages <- MCSentMessages
  WorkDir <- MCWorkDir
  OddContent <- MCOddContent
  CommandNames <- MCAliases
  FirstAliases <- MCFirstAliases
  IgnoreLists <- MCIgnoreLists
  MaxProcessed = 4
  MaxTargets = 2
SPECIFICATION Spec
INVARIANTS StreamIsWhole RequestsFaithful ToolsSafe ConfigSafe CommandsSafe ContentsSafe SetupSafe FormsSafe SessionsSafe
CHECK_DEADLOCK FALSE
