\* Two clients, two updates, a bundled contact and one of a fragment file.
CONSTANTS
  Ids = {1, 2}
  MaxStamp = 3
  NFragments = 1
  Shipped <- ShippedBook
  None = None
  Void = Void
  Clients = {k1, k2}
  Updates = {u1, u2}
  Content <- PeerContent
  Settings <- AllSettings
  Cases <- BookCases
  k1 = k1
  k2 = k2
  u1 = u1
  u2 = u2
SPECIFICATION Spec
SYMMETRY Symmetry
INVARIANTS
  TypeOK
  
  
  AnsweredIsOnDisk
  NoticedIsKept
  DecidedIsGone

  
CHECK_DEADLOCK FALSE
