SPECIFICATION FairSpec
CONSTANTS
  MaxSessions = 2
  MaxBreaks = 1
INVARIANT
  TypeOK
PROPERTIES
  ImplementsContract
  EveryConnectAnswered
  ClosedShellGoes
CHECK_DEADLOCK FALSE
