SPECIFICATION Spec
CONSTANTS
  n1 = n1
  n2 = n2
  n3 = n3
  Nodes = {n1, n2, n3}
  Number <- WithTie
  TotalMasterNodes = 2
  SignatureLength = 100
  LateNodes = {n3}
  MaxRound = 2
  MaxUntimely = 0
CHECK_DEADLOCK FALSE
INVARIANTS
  AgreedElection
