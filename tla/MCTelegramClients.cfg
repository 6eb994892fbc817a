\* One request at a time next to the reconnector; one fault and one restart.
SPECIFICATION FairSpec
CONSTANTS
  Callers = {a1}
  Reconnector = Reconnector
  Conns = {c1, c2, c3, c4}
  NoConn = NoConn
  Tasks = {l1, l2, l3, l4, l5}
  NoTask = NoTask
  MaxRequests = 2
  MaxFaults = 1
  MaxCrashes = 1
INVARIANTS ListenersAccounted ActiveIsAlive ActiveIsSaved
PROPERTIES Reconnected
CHECK_DEADLOCK FALSE
