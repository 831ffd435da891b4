\* Two drains may overlap, one crash, one failing statement.
CONSTANTS
  MaxMessages = 2
  Contact = {c1}
  Drainer = {d1, d2}
  MaxCrashes = 1
  MaxFaults = 1
  c1 = c1
  d1 = d1
  d2 = d2
SPECIFICATION Spec
SYMMETRY Symmetry
INVARIANTS
  TypeOK
  AckedIsSafe
  OutboxRowHasMessage
  StatusTruthful
CHECK_DEADLOCK FALSE
