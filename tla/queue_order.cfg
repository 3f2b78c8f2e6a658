SPECIFICATION StoreSpec
CONSTANTS
  tp = tp
  d1 = d1
  d2 = d2
  bad = bad
  u = u
  x = x
  tu = tu
  td = td
  f = f
  fu = fu
  Commands = {tp, d1, d2, bad, u, x, tu, td, f, fu}
  KeyOf <- keyOf
  Timestamp <- MCTimestamp
  NoCommand = NoCommand
  InOrder = FALSE
  Op <- MCOp
  Target <- MCTarget
  Selects <- MCSelects
  Invalid = {bad}
  Sessions <- MCSessions
  MaxFailures = 0
CHECK_DEADLOCK FALSE
INVARIANTS
  PoppedIsExecuted
