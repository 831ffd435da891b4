\* Two callers may dial next to the reconnect task; four clients.
CONSTANTS
  MaxClients = 4
  Caller = {t1, t2}
  t1 = t1
  t2 = t2
SPECIFICATION LiveSpec
INVARIANTS
  TypeOK
  ConnectedHasSession
  ReconnectingIsScheduled
  QuietAfterDisconnect
  PushedIsCurrent
  SendReachesSession
  SavedIsCurrent
PROPERTIES
  ReconnectTakesPlace
CHECK_DEADLOCK FALSE
