\* The whole retry, reconnect and recovery loop, from a list version and from none.
SPECIFICATION Spec
CONSTANTS
  Objects = {pod, bare, other}
  Selected = {pod, bare}
  Unversioned = {bare}
  Policies <- AnyPolicy
  Starts <- AnyStart
  Statuses = {"ok", "unavailable", "gone"}
  NoVersion = NoVersion
  MaxWrites = 3
  MaxDelivered = 4
INVARIANTS TypeOK VersionsIncrease NoSilentGap BoundedSilence
  GivesUpOnlyWhenExhausted
PROPERTY ResumeNeverGoesBack
CHECK_DEADLOCK FALSE
