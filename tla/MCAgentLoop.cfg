CONSTANTS
  MaxInterrupts = 2
  MaxCalls = 2
  MaxPerAnswer = 2
  MaxPrompts = 2
  MaxRequests = 3
  MaxCommands = 1
  MaxClears = 1
  MaxCompacts = 1
SPECIFICATION FairSpec
INVARIANTS TypeOK AnsweredOnce NothingRunsOn
PROPERTIES RequestsWellFormed InterruptsEnd
CHECK_DEADLOCK FALSE
