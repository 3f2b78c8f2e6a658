SPECIFICATION Spec
CONSTANTS
  Masters = {a, b}
  Verifiers = {v, w}
  StorageNodes = {s1, s2}
  FirstUp = {a}
  MaxUrls = 1
  EmptyKey = EmptyKey
  None = None
  Roles = {"state"}
  MaxConnects = 2
  MaxStops = 1
CHECK_DEADLOCK FALSE
INVARIANTS
  PickIsKnown
  StorageNodeAgreed
  ChosenIsFound
  OwedIsOnItsWay
PROPERTIES
  BootedMasterLearns
