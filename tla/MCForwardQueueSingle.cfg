\* Single worker (group A is group B), two producers that may queue one image
\* twice, fair timers, one crash.
SPECIFICATION FairSpec
CONSTANTS
  Images = {i1}
  NoImage = NoImage
  Producers = {p1, p2}
  Groups = "same"
  MaxRetries = 2
  MaxRows = 2
  MaxFaults = 0
  MaxCrashes = 1
INVARIANTS AlbumCopiesAccounted ForwardCopiesAccounted
PROPERTIES ClearedOnlyByDeadLetter ImplementsDelivery Settles
