\* Calls that start at a list version: the abstract feed and progress.
SPECIFICATION FairSpec
CONSTANTS
  Objects = {pod, other}
  Selected = {pod}
  Unversioned = {}
  Policies <- TwiceOrNever
  Starts <- ListVersion
  Statuses = {"ok", "unavailable", "gone"}
  NoVersion = NoVersion
  MaxWrites = 3
  MaxDelivered = 3
INVARIANT IInv
PROPERTIES FeedSpec EventuallySettled
CHECK_DEADLOCK FALSE
