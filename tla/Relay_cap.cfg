SPECIFICATION Spec
CONSTANTS
  r1 = r1
  r2 = r2
  r3 = r3
  r4 = r4
  i1 = i1
  i2 = i2
  anon = anon
  s2 = s2
  matter = matter
  chat = chat
  Requests <- TwoRequests
  Ips <- BothIps
  Sessions <- BothSessions
  Scenarios <- AllScenarios
  AllowedScenarios <- Allowed
  Lengths <- SomeLengths
  MaxInput = 4
  PerIpLimit = 2
  PerSessionLimit = 2
  CostCap = 1
  CostPerRun = 1
  LivePool = TRUE
  LastDay = 2
SYMMETRY ClientSymmetry
INVARIANTS
  CostCapped
CHECK_DEADLOCK FALSE
