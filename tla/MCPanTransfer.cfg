\* Two keys, one of them a direct link; two concurrent requests and two runs.
SPECIFICATION FairSpec
CONSTANTS
  Keys = {k1, k2}
  DirectLinks = {k1}
  NoKey = NoKey
  Callers = {c1, c2}
  Slots = {s1, s2}
  NoSlot = NoSlot
  MaxTasks = 2
  MaxRequests = 3
  MaxFaults = 1
  MaxCrashes = 1
INVARIANTS SharesAccounted WholeUnlessOverlapped
PROPERTIES Settles
CHECK_DEADLOCK FALSE
