SPECIFICATION FairSpec
CONSTANTS
  h1 = h1
  h2 = h2
  s1 = s1
  s2 = s2
  Hosts = {h1}
  Sockets = {s1, s2}
  HostOf <- OneHost
  Prompt = TRUE
  MaxFailures = 1
INVARIANTS
  TypeOK
  LiveAgentIsReachable
  TwoAlertsAtMost
PROPERTIES
  UiLearnsOffline
  LossIsNoticed
  ReturnClears
