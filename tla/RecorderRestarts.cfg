\* Two sessions of the recorder within two seconds, compressed or not.
SPECIFICATION Spec
CONSTANTS
  Compress = {TRUE, FALSE}
  FlushEvery = 2
  LineLen = 3
  MaxEvents = 5
  MaxSessions = 2
  MaxClock = 1
INVARIANTS TypeOK CountBacked CompletedReplayable BytesWithinFile LossBounded
CHECK_DEADLOCK FALSE
