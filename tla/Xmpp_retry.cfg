\* What is left after a failed retry (expected to be violated).
CONSTANTS
  MaxClients = 3
  Caller = {t1}
  t1 = t1
SPECIFICATION Spec
INVARIANTS
  KeepsTrying
CHECK_DEADLOCK FALSE
