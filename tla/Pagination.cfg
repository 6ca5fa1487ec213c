\* A server that may repeat any token.
SPECIFICATION Spec
CONSTANTS
  Tokens = {t1, t2}
  NoToken = NoToken
  MaxItems = 2
INVARIANTS TypeOK NoTokenFetchedTwice EveryItemBeforeTheEnd ItemsInOrder
CHECK_DEADLOCK FALSE
