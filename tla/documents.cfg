SPECIFICATION StoreSpec
CONSTANTS
  tp = tp
  d1 = d1
  d2 = d2
  bad = bad
  u = u
  x = x
  tu = tu
  td = td
  f = f
  fu = fu
  Commands = {tp, d1, d2, bad, u, x, tu, td, f, fu}
  KeyOf <- keyOf
  Timestamp <- MCTimestamp
  NoCommand = NoCommand
  InOrder = TRUE
  Op <- MCOp
  Target <- MCTarget
  Selects <- MCSelects
  Invalid = {bad}
  Sessions <- MCSessions
  MaxFailures = 1
CHECK_DEADLOCK FALSE
INVARIANTS
  IndexMatchesEntries
  DeletedStaysDeleted
PROPERTIES
  UpdatesAreKept
  KeepsPromise
  CommandIsExecuted
  AnsweredIsUsable
