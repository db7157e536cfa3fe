CONSTANTS
  r1 = r1
  r2 = r2
  r3 = r3
  b1 = b1
  b2 = b2
  Requests <- MCRequests
  Browsers <- MCBrowsers
  BrowserOf <- MCBrowserOf
  Tickets = {t1, t2, t3, t4, t5, t6, t7, t8, t9, t10, t11, t12}
  NoTicket = NoTicket
  MaxConcurrent = 1
  MaxQueue = 2
  ReadyTTL = 1
  WaitTTL = 2
  MaxUpsets = 1
SPECIFICATION ClientSpec
INVARIANT
  RedirectCarriesTicket
