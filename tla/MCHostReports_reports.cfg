SPECIFICATION FairSpec
CONSTANTS
  Values = {v1, v2}
  None = None
  MaxChanges = 1
  MaxMessages = 1
  MaxFaults = 1
  Retries = 1
  Cycles = 2
INVARIANTS
  TypeOK
  LossNeedsCause
PROPERTIES
  DifferenceIsStored
  BurstEnds
