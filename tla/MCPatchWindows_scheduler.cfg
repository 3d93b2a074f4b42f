SPECIFICATION FairSpec
CONSTANTS
  w1 = w1
  w2 = w2
  each = each
  third = third
  e1 = e1
  e2 = e2
  Windows = {w1, w2}
  Crons = {each, third}
  Matches <- CronMatches
  Horizon = 2
  Editors = {e1}
  MaxTime = 3
  MaxEdits = 2
  MaxFailures = 1
INVARIANTS
  TypeOK
  RepeatsNeedFailures
  OnceIsOnce
PROPERTIES
  DueMovesOn
  MissingIsScheduled
