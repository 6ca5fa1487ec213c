\* Tasks that share pools, rotate them and are cancelled; close() at any time.
SPECIFICATION FairSpec
CONSTANTS
  Requests = {r1, r2}
  Sockets = {s1}
  MaxAttempts = 2
  Orderly = FALSE
  Shared = TRUE
  MaxSerial = 2
INVARIANTS TypeOK NoSendOnClosedPool ReplacedPoolsAreClosed
PROPERTIES SendsWithNewestCertificate EveryCallEnds
CHECK_DEADLOCK FALSE
