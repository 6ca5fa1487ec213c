\* Two readers, a sender and cancel() on one session, over split and merged messages.
SPECIFICATION FairSpec
CONSTANTS
  Readers = {r1, r2}
  Opener = r1
  Frames <- SomeFrames
  Nobody = Nobody
  MaxFrames = 4
INVARIANTS TypeOK TornOnlyByOverlap
PROPERTIES StreamSpec CleanEnd NothingAfterFin DisconnectEndsReceive
CHECK_DEADLOCK FALSE
