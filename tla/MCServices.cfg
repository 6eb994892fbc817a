SPECIFICATION ServicesSpec
CONSTANTS
  Bodies <- MCBodies
  Orders = {0}
  Found <- MCFound
  Callers = {o1, o2}
  Limit = 4
  InitTrees <- MCInitTrees
  MaxIds = 8
  MaxEdits = 2
  k1 = k1
  k2 = k2
  x = x
  y = y
  Admins = {o1, o2}
  Collectors = {k1, k2}
  Apis = {x, y}
  LegacyApi = x
  Absent = Absent
  Keep = Keep
  Creations <- MCCreations
  Edits <- MCEdits
  PushedBefore <- MCPushedBefore
  MaxConfigs = 2
  MaxRequests = 2
  MaxPushes = 1
  MaxErrors = 1
  MaxHalts = 1
  ag1 = ag1
  ag2 = ag2
  ch1 = ch1
  ch2 = ch2
  hk = hk
  kw = kw
  Clients = {ag1,ag2}
  Chats = {ch1,ch2}
  Hooks = {hk}
  Members <- MCMembers
  Outsider = Outsider
  Words = {kw}
  Originals <- MCOriginals
  Media = {"photo","text"}
  NewRules <- MCNewRules
  RuleEdits <- MCRuleEdits
  Operators = {o1,o2}
  ChannelBodies <- MCChannelBodies
  NoChannel = NoChannel
  Unset = Unset
  MaxRules = 2
  MaxGatherers = 2
  MaxPosts = 3
  MaxCalls = 2
  MaxBreaks = 1
  q1 = q1
  q2 = q2
  u1 = u1
  t0 = t0
  quark = quark
  uc = uc
  e1 = e1
  e2 = e2
  P1 = P1
  P2 = P2
  P3 = P3
  hot = hot
  nA = nA
  nB = nB
  c1 = c1
  c2 = c2
  Extractors = {e1,e2}
  Texts <- MCTexts
  Links = {q1,q2,u1,t0}
  ServiceOf <- MCServiceOf
  PartOf <- MCPartOf
  NotFound = NotFound
  ServiceOrder <- MCServiceOrder
  Tags = {hot}
  Names = {nA,nB}
  Codes = {c1,c2}
  NoCode = NoCode
  Pools <- MCPools
  Answering = {P2,P3}
  Answers <- MCAnswers
  MaxChanges = 1
  MaxMissed = 1
  Askers = {o1,o2}
  Credentials = {ck1,ck2}
  Folders = {f1,f2}
  SealKeys = {sk1,sk2}
  NoSeal = NoSeal
  NoAccount = NoAccount
  NoVerdict = NoVerdict
  Same = Same
  MaxAccounts = 1
  MaxAsks = 3
  MaxTroubles = 1
  MaxReboots = 1
  Runs = {o1,o2}
  FileNames = {n1}
  Renames = {TRUE,FALSE}
  Reissues = {TRUE,FALSE}
  ShareSizes = {0,3}
  PageSize = 2
  MaxParts = 1
  MaxPolls = 2
  MaxOthers = 1
  MaxLost = 1
  Images = {i1}
  Viewers = {o1, o2}
  Nobody = Nobody
  MaxLooks = 2
  MaxViews = 3
  MaxMishaps = 2
  MaxAgeings = 1
  MaxStops = 1
  Bots = {b1}
  NoBot = NoBot
  UpdateLimit = 1
  MaxUpdates = 2
  MaxSlips = 1
  MaxEnds = 1
  Requesters = {o1, o2}
  Quotas = {1}
  NoKey = NoKey
  MaxKeys = 3
  MaxCallsMade = 3
  MaxRotations = 2
  MaxDrops = 1
  Tuners = {o1, o2}
  Intervals = {0, 5}
  NoWorker = NoWorker
  MaxWorkers = 4
  MaxTunings = 3
  MaxCuts = 1
  MaxBoots = 1
INVARIANTS RowsAccounted PairedAccounted ConfigsAccounted RoutingAccounted ExtractionAccounted AccountsKept DriveAccounted ImagesAccounted RepliesAccounted KeysAccounted SchedulersAccounted
SYMMETRY MCSymmetry
CHECK_DEADLOCK FALSE
