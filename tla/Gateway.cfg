\* Two batches at the same time, with handlers on the event loop;
\* no symmetry, because of the liveness property.
CONSTANTS
  m1 = m1
  p1 = p1
  p2 = p2
  Merchants = {m1}
  Payments = {p1, p2}
  Owner <- MCOwner
  Settlements = {s1, s2}
  NoSettlement = NoSettlement
  Amounts = {1, 2}
  MaxInt = 3
  Handlers = {h1, h2}
  BatchThreads = {t1, t2}
  Idle = Idle
  MaxCrashes = 1
SPECIFICATION GatewaySpec
INVARIANTS
  GatewayTypeOK
  AuditTrailUpToRepeats
  WalletIsNetFunds
  AnnouncesOwnChange
  LastEventTold
  RefundsWithinCaptured
  DecisionsHold
  BankMatchesSettlements
PROPERTIES
  LoopReleased
CHECK_DEADLOCK FALSE
