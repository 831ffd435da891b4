\* Drains do not overlap; two crashes, no failing statement.
CONSTANTS
  MaxMessages = 2
  Contact = {c1}
  Drainer = {d1}
  MaxCrashes = 2
  MaxFaults = 0
  c1 = c1
  d1 = d1
SPECIFICATION LiveSpec
INVARIANTS
  OutboxRowHasChat
  HandoverBound
PROPERTIES
  TransmissionStaysRecorded
  KeepsPromise
  
CHECK_DEADLOCK FALSE
