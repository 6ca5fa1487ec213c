\* close() after a task was cancelled while it replaced the pools.
SPECIFICATION Spec
CONSTANTS
  Requests = {r1}
  Sockets = {}
  MaxAttempts = 2
  Orderly = TRUE
  Shared = FALSE
  MaxSerial = 1
INVARIANT CloseLeavesNothingOpen
CHECK_DEADLOCK FALSE
