\* Two payments of one merchant and one of another, amounts up to 3, and an
\* INTEGER column that the sum of two large payments overflows.
CONSTANTS
  m1 = m1
  m2 = m2
  p1 = p1
  p2 = p2
  p3 = p3
  s1 = s1
  s2 = s2
  Merchants = {m1, m2}
  Payments = {p1, p2, p3}
  Owner <- MCOwner
  Settlements = {s1, s2}
  NoSettlement = NoSettlement
  Amounts = {1, 2, 3}
  MaxInt = 5
SYMMETRY MCSymmetry
SPECIFICATION Spec
INVARIANTS
  TypeOK
  AuditTrail
  RowsMatchStatus
  RefundsMatchStatus
  AlwaysRefundable
  WalletIsNetFunds
  SettlementAddsUp
PROPERTIES
  ImplementsContract
CHECK_DEADLOCK FALSE
