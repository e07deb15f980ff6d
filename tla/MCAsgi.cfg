CONSTANTS
  Mode = "auto"
  Clients = {c1, c2}
  Sockets = {c1, c2}
  Slots = 1
  MaxRequests = 2
  MaxAsked = 2
  Requests <- MCRequests
  Events <- MCEvents
SPECIFICATION AsgiFairSpec
INVARIANTS WireInStep ListenersTold
PROPERTIES DrainOrdered DrainEnds
CHECK_DEADLOCK FALSE
