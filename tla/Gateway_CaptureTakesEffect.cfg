\* The smallest instance in which the documented claim can fail.
CONSTANTS
  m1 = m1
  p1 = p1
  p2 = p2
  Merchants = {m1}
  Payments = {p1, p2}
  Owner <- MCOwner
  Settlements = {s1}
  NoSettlement = NoSettlement
  Amounts = {1}
  MaxInt = 2
  Handlers = {h1, h2}
  BatchThreads = {t1}
  Idle = Idle
  MaxCrashes = 0
SPECIFICATION GatewaySpec
PROPERTY CaptureTakesEffect
CHECK_DEADLOCK FALSE
