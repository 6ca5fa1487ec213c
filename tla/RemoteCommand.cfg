\* collect(), receive() and retries of collect() on one session.
SPECIFICATION Spec
CONSTANTS
  Statuses <- AnyEnd
  NoCode = NoCode
  Parts = 2
  MaxFrames = 4
INVARIANTS TypeOK OutputComplete ZeroIsSuccess
CHECK_DEADLOCK FALSE
