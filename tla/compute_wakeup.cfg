SPECIFICATION FairSpec
CONSTANTS
  r1 = r1
  r2 = r2
  r3 = r3
  t1 = t1
  t2 = t2
  Requests = {r1, r2, r3}
  ComputeRequests = {r1}
  Fetchers = {r1, r2}
  TxOf <- MCTxOf
CHECK_DEADLOCK FALSE
PROPERTIES
  DocumentIsTaken
