\* One stream a peer opened, one we dialed, and a session with a server.
CONSTANTS
  in = in
  out = out
  srv = srv
  Streams = {in, out}
  Servers = {srv}
  Sent <- SentStanzas
  ChatOf <- ChatOfSource
  Chunks = {1, 2, 4}
  Uses <- Pairs
  MaxFaults = 2
SPECIFICATION LiveSpec
INVARIANTS
  TypeOK
  StreamHasNoGap
  ServerKeepsOrder
  PushedIsKept
  ShownInHistoryOrder
  SavedHasChat
PROPERTIES
  EveryMessageIsShown
CHECK_DEADLOCK FALSE
