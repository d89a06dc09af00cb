SPECIFICATION Spec
CONSTANTS
  w1 = w1
  w2 = w2
  a1 = a1
  a2 = a2
  c1 = c1
  c2 = c2
  c3 = c3
  c4 = c4
  None = None
  Workers <- TwoWorkers
  Agents <- OneAgent
  Contacts <- FourContacts
  MaxLease = 1
  CallLease = 1
  AgentLease = 1
  WrapLease = 1
  Predictive = TRUE
  HardMaxLineRatio = 2
  ProviderB = FALSE
  LeasesExpire = FALSE
  Faults = {}
  Fragile = {}
  MaxFaulty = 0
SYMMETRY Symmetry
INVARIANTS
  OpenLinesWithinHardCap
