CONSTANTS
  Threads = {w1, w2, p1}
  Workers = {w1, w2}
  Conns = {k1, k2, k3}
  None = None
  MaxSize = 2
  Requests = {q1}
  Tickets = {c1}
  Capacity = 1
SPECIFICATION TimeoutSpec
INVARIANTS
  Ownership
  SizeAccounts
  NeverOverCapacity
  OneAnswer
  WaitsForTheAbandoned
PROPERTY
  EveryCallEnds
