SPECIFICATION FairSpec
CONSTANTS
  m1 = m1
  m2 = m2
  m3 = m3
  m4 = m4
  t1 = t1
  t2 = t2
  sn = sn
  Masters = {m1, m2, m3}
  StorageNode = sn
  Origin <- MCOrigin
  EmptyString = EmptyString
  M21 = {m1, m2, m3}
  Verifiers = {v1}
  InitiallyKnown <- AllNodes
  Txs = {t1}
  Results = {r1}
  MajorityThreshold = 2
  TxLifetime = 0
  MaxTime = 0
  MaxLost = 0
  MaxExceptions = 1
  MaxDisconnects = 1
INVARIANTS
  ClientAnsweredOnce
PROPERTIES
  RequestIsAnswered
  RequestIsQueuedEverywhere
CHECK_DEADLOCK FALSE
