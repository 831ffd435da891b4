\* Two peers, two callers that may dial at the same time, three streams.
CONSTANTS
  Peer = {p1, p2}
  MaxStreams = 3
  Caller = {t1, t2}
  p1 = p1
  p2 = p2
  t1 = t1
  t2 = t2
SPECIFICATION LiveSpec
INVARIANTS
  TypeOK
  RegisteredIsRead
PROPERTIES
  EndedStreamLeaves
CHECK_DEADLOCK FALSE
