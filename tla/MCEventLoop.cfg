CONSTANTS
  Requests = {r1, r2, r3}
  Tickets = {t1, t2, t3, t4}
  NoTicket = NoTicket
  MaxConcurrent = 2
  MaxQueue = 3
  ReadyTTL = 1
  WaitTTL = 3
  Clients = {c1, c2, c3}
  MaxSubscribers = 2
  QueueSize = 2
  MaxVersion = 3
  MaxFailures = 1
SPECIFICATION MCEventLoopSpec
INVARIANTS
  AdmissionTypeOK
  SlotConservation
  QueueWellFormed
  FirstInFirstReady
  SSETypeOK
  CaughtUp
PROPERTIES
  PositionNeverGrows
  ReservationHonoured
  OnlyExpiryStrands
  TicketsLeave
  PoolSpec
  OnlyCancelLosesTheLoop
  IdleStops
  StreamsGetNews
