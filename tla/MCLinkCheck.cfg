\* The scheduled push and one caller; a link dies or comes back, a statement
\* fails or a check is cut off.
SPECIFICATION FairSpec
CONSTANTS
  Callers = {c1}
  Pusher = pusher
  Resources = {r1}
  Text <- MCText
  Norm <- MCNorm
  TTL = 1
  ChunkSize = 1
  Vague = {"pending"}
  MaxChanges = 1
  MaxRequests = 1
  MaxFaults = 1
INVARIANTS VerdictsRecent NewestKept
PROPERTIES RevivedPushed
CHECK_DEADLOCK FALSE
