SPECIFICATION Spec
CONSTANTS
  l1 = l1
  l2 = l2
  l3 = l3
  b1 = b1
  Live = {l1, l2, l3}
  Buffered = {b1}
  MaxFrames = 2
INVARIANTS TypeOK RefusedOnlyAfterAbandonedBegin
PROPERTY RequestsEnd
CHECK_DEADLOCK FALSE
