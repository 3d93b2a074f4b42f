SPECIFICATION Spec
CONSTANTS
  h1 = h1
  h2 = h2
  c1 = c1
  c2 = c2
  p1 = p1
  u1 = u1
  u2 = u2
  r1 = r1
  r2 = r2
  Hosts <- TwoHosts
  Jobs = {1}
  Policies <- OnePolicy
  Users = {u1}
  Calls = {r1, r2}
  Collectors = {c1, c2}
  HostOf <- EachItsOwn
  Targets <- AllHosts
  StopPercent <- HalfStops
  Outcomes = {"completed", "failed"}
  Timeouts = {}
  MaxSends = 1
  MaxInFlight = 1
  MaxEdits = 0
  MaxCrashes = 0
SYMMETRY Swaps
INVARIANTS
  TypeOK
  NoOfferAfterEnd
  CompletedIsTrue
