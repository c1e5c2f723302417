CONSTANTS
  c1 = c1  c2 = c2  c3 = c3  c4 = c4
  main = main  sub = sub
  bash = bash  edit = edit  task = task
  p1 = p1
  dflt = dflt  auto = auto
  NoCall = NoCall
  Main = main
  Calls = {c1, c2, c3, c4}
  Tools <- MCTools
  Perms = {p1}
  Profiles <- MCProfiles
  InitProfile = dflt
  Bypass <- MCBypass
  Enabled <- MCEnabled
  ToolPerm <- MCToolPerm
  SubPerm <- MCSubPerm
  Interactive = TRUE
  Loops = {main}
  LoopOf <- OneLoop
  ParentOf <- NoSub
  SubBypass <- NoSubBypass
  Turns = {1, 2}
  TurnOf <- TwoTurns
  Tool <- BashCalls
  Needs <- BashNeeds
  Ctx <- BashCtx
  Questions = {c4}
  ExitPlan = {c4}
  MaxPress = 1
  MaxSwitch = 1
SPECIFICATION Spec
INVARIANT PendingOwned
PROPERTY GrantsStick
CHECK_DEADLOCK FALSE
