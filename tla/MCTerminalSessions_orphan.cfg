SPECIFICATION Spec
CONSTANTS
  MaxSessions = 1
  MaxBreaks = 1
INVARIANT
  NoOrphanedPty
CHECK_DEADLOCK FALSE
