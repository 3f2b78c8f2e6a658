SPECIFICATION Spec
CONSTANTS
  m1 = m1
  m2 = m2
  t1 = t1
  t2 = t2
  Masters = {m1, m2}
  ElectionTime = 2
  Txs = {t1}
  MaxSkew = 1
  MaxBlocks = 1
  MaxOverruns = 0
  NoStamp = NoStamp
  MaxTime = 5
  Producers <- TwoProducers
  TxTime <- MCTxTime
INVARIANTS
  DrainedIsCommitted
CHECK_DEADLOCK FALSE
