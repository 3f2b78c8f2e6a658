SPECIFICATION FairSpec
CONSTANTS
  b1 = b1
  b2 = b2
  b3 = b3
  m1 = m1
  m2 = m2
  t1 = t1
  t2 = t2
  NoBlock = NoBlock
  Blocks = {b1, b2}
  Masters = {m1, m2}
  MaxFailures = 1
  NumberOf <- MCNumberOf
  Producer <- MCProducer
  TxsOf <- MCTxsOf
INVARIANTS
  AnnouncedIsStored
  VerificationsAreProper
PROPERTIES
  CommitsInOrder
  BlockIsCommitted
CHECK_DEADLOCK FALSE
