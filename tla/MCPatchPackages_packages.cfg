SPECIFICATION Spec
CONSTANTS
  a = a
  b = b
  c1 = c1
  c2 = c2
  r1 = r1
  r2 = r2
  Packages <- TwoPackages
  SecurityPackages <- OneSecurity
  PolicyChoices <- FourPolicies
  Managers = {"unix", "windows", "none"}
  Captures = {FALSE}
  Collectors = {c1, c2}
  Slots = {r1, r2}
  MaxVersion = 2
  MaxSends = 2
  MaxCollections = 2
SYMMETRY Swaps
INVARIANTS
  TypeOK
  OnlySelected
  CompletedIsWhole
  CountsAgree
  PolicyCarriedOut
CHECK_DEADLOCK FALSE
