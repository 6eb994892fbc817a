\* Two workers (group A and group B are distinct chats), one row, fair timers,
\* two failing statements or calls and a crash.
SPECIFICATION FairSpec
CONSTANTS
  Images = {i1}
  NoImage = NoImage
  Producers = {p1}
  Groups = "distinct"
  MaxRetries = 2
  MaxRows = 1
  MaxFaults = 2
  MaxCrashes = 1
INVARIANTS WorkersDisjoint
PROPERTIES Settles
