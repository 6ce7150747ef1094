\* The smallest instance in which the documented claim can fail.
CONSTANTS
  Merchants = {m1}
  Keys = {k1}
  Bodies = {b1}
  Payments = {p1, p2}
  NoPayment = NoPayment
  Requests = {r1, r2}
  Idle = Idle
  MaxCrashes = 0
SPECIFICATION Spec
INVARIANT OnePaymentPerKey
CHECK_DEADLOCK FALSE
