\* The client of the text user interface and two other programs.
CONSTANTS
  Visitors = 2
  MaxSockets = 8
  Method <- MethodOf
  Plans <- SixPlans
  Orders <- TwoOrders
SPECIFICATION LiveSpec
INVARIANTS
  TypeOK
  EventsReachClients
PROPERTIES
  
  StaysConnected
  
CHECK_DEADLOCK FALSE
