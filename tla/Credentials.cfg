\* Two clients of one configuration, read from two files.
SPECIFICATION Spec
CONSTANTS
  Clients = {"c1", "c2"}
  Configs <- Pairs
  None = None
  Lifetimes <- Seconds
  Never = Never
  Slowest = 2
  Leeway = 1
  MaxTime = 6
  MaxIssued = 4
INVARIANTS TypeOK NewestIsUsed ServedFresh ResolvesAsMerged
CHECK_DEADLOCK FALSE
