SPECIFICATION FairSpec
CONSTANTS
  r1 = r1  r2 = r2
  Requests = {r1}
  Kinds <- OneEncoded
  Slots = 1
  Chunks = 2
  Timeout = TRUE
PROPERTY CancelledStreamEnds
CHECK_DEADLOCK FALSE
