SPECIFICATION FairSpec
CONSTANTS
  r1 = r1  r2 = r2
  Requests = {r1, r2}
  Kinds <- AnyOfTwo
  Slots = 1
  Chunks = 2
  Timeout = TRUE
INVARIANTS TypeOK KeptAudio ErrorNeverFollowsAudio
PROPERTY StreamsEnd
CHECK_DEADLOCK FALSE
