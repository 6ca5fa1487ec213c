\* An expired version reported by HTTP 410 instead of an ERROR event.
SPECIFICATION Spec
CONSTANTS
  Objects = {pod}
  Selected = {pod}
  Unversioned = {}
  Policies <- TwiceOrNever
  Starts <- ListVersion
  Statuses = {"ok", "gone"}
  NoVersion = NoVersion
  MaxWrites = 2
  MaxDelivered = 2
INVARIANT ExpiryIsRecovered
CHECK_DEADLOCK FALSE
