CONSTANTS
  c1 = c1  c2 = c2  c3 = c3  c4 = c4
  main = main  sub = sub
  bash = bash  edit = edit  task = task
  p1 = p1
  dflt = dflt  auto = auto
  NoCall = NoCall
  Main = main
  Calls = {c1, c2, c4}
  Tools <- MCTools
  Perms = {p1}
  Profiles <- MCProfiles
  InitProfile = dflt
  Bypass <- MCBypass
  Enabled <- MCEnabled
  ToolPerm <- MCToolPerm
  SubPerm <- MCSubPerm
  Interactive = TRUE
  Loops = {main, sub}
  LoopOf <- SubLoop
  ParentOf <- SubParent
  SubBypass <- SubAsks
  Turns = {1}
  TurnOf <- OneTurn
  Tool <- SubCalls
  Needs <- SubNeeds
  Ctx <- SubCtx
  Questions = {}
  ExitPlan = {}
  MaxPress = 2
  MaxSwitch = 0
SPECIFICATION FairSpec
INVARIANTS LocksConsistent OneKeyOneCall
PROPERTIES InterruptSettles EveryCallSettles
CHECK_DEADLOCK FALSE
