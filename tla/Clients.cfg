\* Two callers of one merchant about one payment; two requests of a call may be
\* under way at once.
CONSTANTS
  m1 = m1
  p1 = p1
  Merchants = {m1}
  Payments = {p1}
  Owner <- MCOwner
  Settlements = {s1}
  NoSettlement = NoSettlement
  Amounts = {1, 2}
  MaxInt = 4
  Callers = {c1, c2}
  MaxRequests = 2
SPECIFICATION ClientsSpec
INVARIANTS
  ClientsTypeOK
  AppliedOnce
  AnswersStand
PROPERTIES
  RetriesConclude
CHECK_DEADLOCK FALSE
