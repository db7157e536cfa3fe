CONSTANTS
  Requests = {r1, r2}
  Tickets = {t1, t2, t3}
  NoTicket = NoTicket
  MaxConcurrent = 1
  MaxQueue = 2
  ReadyTTL = 1
  WaitTTL = 3
SPECIFICATION AdmissionSpec
PROPERTY
  NextInLineIsNext
