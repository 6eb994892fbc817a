\* Two configurations, the scheduler and one caller, a deletion and a push that
\* is cut off.
SPECIFICATION Spec
CONSTANTS
  Callers = {u1}
  MaxConfigs = 2
  MaxResources = 2
  BatchSize = 2
  Strict = TRUE
  NewLinks = {"works", "dead"}
  NewCovers = {"none"}
  MaxUnpushable = 1
  MaxRequeues = 0
  MaxDeletes = 1
  MaxFaults = 0
  MaxCuts = 1
INVARIANTS PushesAccounted
CHECK_DEADLOCK FALSE
