SPECIFICATION Spec
CONSTANTS
  m1 = m1
  m2 = m2
  t1 = t1
  t2 = t2
  Masters = {m1, m2}
  ElectionTime = 2
  Txs = {t1}
  MaxSkew = 1
  MaxBlocks = 1
  MaxOverruns = 1
  NoStamp = NoStamp
  MaxTime = 3
  Producers <- TwoProducers
  TxTime <- MCTxTime
INVARIANTS
  NumberIsSecondsSinceGenesis
  OneBlockPerNumber
  ValidatedMeansSame
CHECK_DEADLOCK FALSE
