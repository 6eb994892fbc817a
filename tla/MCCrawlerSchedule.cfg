\* Two tasks and one permit; one manual run, edit, fault or crash.
SPECIFICATION FairSpec
CONSTANTS
  Tasks = {t1, t2}
  NoTask = NoTask
  Slots = {s1, s2}
  Limit = 1
  MaxFailures = 1
  MaxEvents = 1
INVARIANTS MarkedOnce
PROPERTIES BlockKept KeepsCrawled
CHECK_DEADLOCK FALSE
