\* Two merchants that use the same key, two bodies, three requests at the same
\* time and a crash; no symmetry, because of the liveness property.
CONSTANTS
  Merchants = {m1, m2}
  Keys = {k1}
  Bodies = {b1, b2}
  Payments = {p1, p2, p3}
  NoPayment = NoPayment
  Requests = {r1, r2, r3}
  Idle = Idle
  MaxCrashes = 1
SPECIFICATION Spec
INVARIANTS
  TypeOK
  RequestsOwnTheirKey
  RecordsMatchPayments
  OneRequestPerKey
  AnswersAreReal
  ReservationsComplete
PROPERTIES
  CompletedKeysReplay
  LoopReleased
CHECK_DEADLOCK FALSE
