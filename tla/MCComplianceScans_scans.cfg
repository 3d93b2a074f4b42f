SPECIFICATION FairSpec
CONSTANTS
  Types = {"openscap"}
  MaxOrders = 1
  MaxCancels = 1
  MaxFaults = 1
INVARIANTS
  TypeOK
  CancelIsLive
PROPERTIES
  ResultsStay
  EveryRowEnds
  EveryRequestEnds
CHECK_DEADLOCK FALSE
