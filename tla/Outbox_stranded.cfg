\* A crash between the two commits of queue_outbound (expected to be violated).
CONSTANTS
  MaxMessages = 1
  Contact = {c1}
  Drainer = {d1}
  MaxCrashes = 1
  MaxFaults = 0
  c1 = c1
  d1 = d1
SPECIFICATION Spec
INVARIANTS
  PendingIsQueued
CHECK_DEADLOCK FALSE
