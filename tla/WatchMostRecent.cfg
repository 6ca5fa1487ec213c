\* Calls without a resource_version: an event can come twice.
SPECIFICATION Spec
CONSTANTS
  Objects = {pod, node}
  Selected = {pod, node}
  Unversioned = {}
  Policies <- TwiceOrNever
  Starts <- MostRecent
  Statuses = {"ok"}
  NoVersion = NoVersion
  MaxWrites = 3
  MaxDelivered = 4
INVARIANT NoDuplicateEvents
CHECK_DEADLOCK FALSE
