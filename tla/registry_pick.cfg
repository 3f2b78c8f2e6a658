SPECIFICATION Spec
CONSTANTS
  Masters = {a, b}
  Verifiers = {v, w}
  StorageNodes = {s1}
  FirstUp = {a}
  MaxUrls = 1
  EmptyKey = EmptyKey
  None = None
  Roles = {"block"}
  MaxConnects = 3
  MaxStops = 0
CHECK_DEADLOCK FALSE
INVARIANTS
  AnyVerifierIsPicked
