\* Retries of a line stream before its first line, and none after it.
SPECIFICATION Spec
CONSTANTS
  Policies <- AnyPolicy
  Statuses = {"ok", "unavailable", "forbidden"}
  Kinds = {"text", "blank", "malformed"}
  MaxLines = 4
INVARIANTS TypeOK SeenIsPrefix FailsOnlyWhenExhausted
PROPERTY NoRequestAfterLine
CHECK_DEADLOCK FALSE
