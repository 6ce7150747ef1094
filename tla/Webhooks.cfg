\* Two logs in one pass of the scheduler, two handlers, a manual retry, a crash.
CONSTANTS
  Logs = {l1, l2}
  Subscribed = {l1, l2}
  Handlers = {h1, h2}
  Idle = Idle
  MaxAttempts = 3
  MaxRetries = 1
  MaxUnread = 3
  MaxCrashes = 1
SPECIFICATION Spec
INVARIANTS
  TypeOK
  NotGivenUpEarly
  DeliveredWasAccepted
PROPERTIES
  AbandonedForGood
  RetriesEnd
  ImplementsDelivery
CHECK_DEADLOCK FALSE
