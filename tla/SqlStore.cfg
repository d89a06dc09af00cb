SPECIFICATION OneRowSpec
CONSTANTS
  Connections = {w1, w2}
  Agents = {a1}
  Contacts = {c1}
  None = None
  LeaseSeconds = 0
  MaxTime = 2
  MaxVersion = 4
CHECK_DEADLOCK FALSE
SYMMETRY Symmetry
INVARIANTS
  CountMissesNoLine
PROPERTIES
  ImplementsStore
  CasLostMeansCallOver
