SPECIFICATION FairSpec
CONSTANTS
  h1 = h1
  h2 = h2
  s1 = s1
  s2 = s2
  Hosts = {h1, h2}
  Sockets = {s1}
  HostOf <- OneHost
  Prompt = FALSE
  MaxFailures = 1
PROPERTY
  StaleIsNoticed
