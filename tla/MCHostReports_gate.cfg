SPECIFICATION Spec
CONSTANTS
  Values = {v1, v2}
  None = None
  MaxChanges = 1
  MaxMessages = 0
  MaxFaults = 1
  Retries = 3
  Cycles = 3
INVARIANTS
  StaleIsDetected
