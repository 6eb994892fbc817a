\* Four list pages with three articles; two runs, a request and a failure.
SPECIFICATION FairSpec
CONSTANTS
  u1 = u1
  u2 = u2
  Urls = {u1, u2}
  NoUrl = NoUrl
  Pages = {1, 2, 3, 4}
  Links <- MCLinks
  NextPage <- MCNextPage
  Seeds <- MCSeeds
  PageEnd = 4
  Configs <- MCConfigs
  EmptyLimit = 2
  MaxRuns = 2
  Clients = {c1}
  MaxRequests = 1
  MaxEvents = 1
INVARIANTS ValuesAccounted CollectsAll
PROPERTIES EditedKept RunEnds
CHECK_DEADLOCK FALSE
