\* The order in which a drain transmits (expected to be violated).
CONSTANTS
  MaxMessages = 2
  Contact = {c1}
  Drainer = {d1}
  MaxCrashes = 0
  MaxFaults = 0
  c1 = c1
  d1 = d1
SPECIFICATION Spec
PROPERTIES
  TransmittedInOrder
CHECK_DEADLOCK FALSE
