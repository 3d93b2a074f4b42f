SPECIFICATION FairSpec
CONSTANTS
  h1 = h1
  h2 = h2
  c1 = c1
  c2 = c2
  p1 = p1
  u1 = u1
  u2 = u2
  r1 = r1
  r2 = r2
  Hosts <- OneHost
  Jobs = {1}
  Policies <- OnePolicy
  Users = {u1}
  Calls = {r1}
  Collectors = {c1}
  HostOf <- OneOnOne
  Targets <- AllHosts
  StopPercent <- HalfStops
  Outcomes = {"completed", "failed"}
  Timeouts = {1}
  MaxSends = 2
  MaxInFlight = 2
  MaxEdits = 1
  MaxCrashes = 1
INVARIANTS
  NoOfferAfterEnd
PROPERTIES
  ExpiryLeavesFinished
  EveryJobEnds
  ImplementsDispatch
