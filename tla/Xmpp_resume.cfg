\* A resumed session (expected to be violated).
CONSTANTS
  MaxClients = 3
  Caller = {t1}
  t1 = t1
SPECIFICATION Spec
PROPERTIES
  ResumedIsConnected
CHECK_DEADLOCK FALSE
