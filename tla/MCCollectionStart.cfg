\* Two posts of one share; two requests, a failing statement and a restart.
SPECIFICATION Spec
CONSTANTS
  m1 = m1
  m2 = m2
  d0 = d0
  d1 = d1
  d2 = d2
  s1 = s1
  Messages = {m1, m2}
  Photos = {m1}
  Drafts = {d0, d1, d2}
  Linkless = {d0}
  Shares = {s1}
  SharesOf <- MCSharesOf
  Results <- MCResults
  Collectors = {c1}
  NoCollector = NoCollector
  BatchSize = 2
  MaxRequests = 2
  MaxEvents = 1

PROPERTIES StartKeepsDistinct
CHECK_DEADLOCK FALSE
