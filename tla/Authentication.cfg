\* Three merchants, two of whose keys begin alike, overlapping registrations,
\* two crashes and two migrations.
CONSTANTS
  m1 = m1
  m2 = m2
  m3 = m3
  e1 = e1
  e2 = e2
  e3 = e3
  k1 = k1
  k2 = k2
  k3 = k3
  t1 = t1
  t2 = t2
  p1 = p1
  p2 = p2
  Merchants = {m1, m2, m3}
  Emails = {e1, e2, e3}
  Keys = {k1, k2, k3}
  Prefixes = {"a", "b"}
  get_key_prefix <- MCPrefix
  NoPrefix = NoPrefix
  Payments = {p1, p2}
  Nobody = Nobody
  Threads = {t1, t2}
  MaxCrashes = 2
  MaxMigrations = 2
SYMMETRY MCSymmetry
SPECIFICATION Spec
INVARIANTS
  TypeOK
  AccountsAreDistinct
  AccountsStayApart
  KeysOpenTheirAccount
  KeysReachTheirMerchants
CHECK_DEADLOCK FALSE
