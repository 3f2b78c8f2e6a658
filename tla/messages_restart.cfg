SPECIFICATION Spec
CONSTANTS
  n1 = n1
  n2 = n2
  m1 = m1
  Nodes = {n1, n2}
  Messages = {m1}
  Sender <- MCSender
  Listeners <- MCListeners
  RestartTime = 0
  BodyLifetime = 1
  MaxTime = 3
  MaxFailures = 2
  MaxStops = 2
CHECK_DEADLOCK FALSE
INVARIANTS
  HandledOnce
