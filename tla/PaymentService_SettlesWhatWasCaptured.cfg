\* Two payments of one merchant: the smallest instance in which the documented
\* claim can fail.
CONSTANTS
  m1 = m1
  m2 = m2
  p1 = p1
  p2 = p2
  p3 = p3
  s1 = s1
  s2 = s2
  Merchants = {m1}
  Payments = {p1, p2}
  Owner <- MCOwnerOfOne
  Settlements = {s1, s2}
  NoSettlement = NoSettlement
  Amounts = {1, 2}
  MaxInt = 4
SPECIFICATION Spec
INVARIANT SettlesWhatWasCaptured
CHECK_DEADLOCK FALSE
