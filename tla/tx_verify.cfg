SPECIFICATION Spec
CONSTANTS
  m1 = m1
  m2 = m2
  m3 = m3
  m4 = m4
  t1 = t1
  t2 = t2
  sn = sn
  Masters = {m1, m2, m3, m4}
  StorageNode = sn
  Origin <- MCOrigin
  EmptyString = EmptyString
  M21 = {m1, m2, m3}
  Verifiers = {v1}
  InitiallyKnown = {sn}
  Txs = {t1, t2}
  Results = {r1}
  MajorityThreshold = 2
  TxLifetime = 0
  MaxTime = 1
  MaxLost = 1
  MaxExceptions = 0
  MaxDisconnects = 0
SYMMETRY Symmetry
INVARIANTS
  VerifiedIsQueued
  QueuedOnce
  AnswerHasOutput
  CommitReachesHolder
CHECK_DEADLOCK FALSE
