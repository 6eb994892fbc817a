\* The scheduler alone.  One resource may be unpushable and a batch has room for
\* two: the other one gets through.
SPECIFICATION FairSpec
CONSTANTS
  Callers = {}
  MaxConfigs = 2
  MaxResources = 2
  BatchSize = 2
  Strict = TRUE
  NewLinks = {"none", "works", "dead"}
  NewCovers = {"none", "waiting", "forwarded"}
  MaxUnpushable = 1
  MaxRequeues = 1
  MaxDeletes = 0
  MaxFaults = 1
  MaxCuts = 0
PROPERTIES RemainingPushed
CHECK_DEADLOCK FALSE
