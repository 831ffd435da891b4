\* One peer, two streams (expected to be violated).
CONSTANTS
  Peer = {p1}
  MaxStreams = 2
  Caller = {t1}
  p1 = p1
  t1 = t1
SPECIFICATION ShutdownSpec
PROPERTIES
  DisconnectTerminates
CHECK_DEADLOCK FALSE
