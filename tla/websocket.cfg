SPECIFICATION ServerSpec
CONSTANTS
  Clients = {c1, c2}
  Connections = {h1, h2, h3}
  Requests = {r1}
  Nil = Nil
  MaxOverlaps = 1
CHECK_DEADLOCK FALSE
INVARIANTS
  NoStaleEntry
PROPERTIES
  RequestIsAnswered
