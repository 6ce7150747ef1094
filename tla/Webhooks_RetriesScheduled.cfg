\* One log and two overlapping manual retries, enough for a date to get lost.
CONSTANTS
  Logs = {l1}
  Subscribed = {l1}
  Handlers = {h1, h2}
  Idle = Idle
  MaxAttempts = 5
  MaxRetries = 3
  MaxUnread = 0
  MaxCrashes = 0
SPECIFICATION Spec
INVARIANT RetriesScheduled
CHECK_DEADLOCK FALSE
