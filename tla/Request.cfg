\* Retries of a buffered request against a server that may answer late.
SPECIFICATION Spec
CONSTANTS
  Methods = {"GET", "POST"}
  Policies <- AnyPolicy
  Statuses = {"ok", "unavailable", "forbidden"}
  Successes = {"ok"}
  NoHeader = NoHeader
  MaxFloat = 100
  Headers <- AnyHeader
INVARIANTS TypeOK NeverTwice AppliedAtMostAttempts WaitBounded TemporaryFailureIsLast
CHECK_DEADLOCK FALSE
