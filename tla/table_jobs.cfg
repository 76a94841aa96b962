SPECIFICATION FairSpec
CONSTANTS
  s1 = s1  d1 = d1  q1 = q1  a1 = a1  a2 = a2  c1 = c1  c2 = c2
  NoJob = NoJob
  Jobs = {d1, q1, a1, a2}
  Clients = {c1}
  Kind <- JobsKind
  HasStore = TRUE
  StoreMayFail = FALSE
  StreamWorkers = 1
  MaxChunks = 2
  BusCap = 1
INVARIANTS TypeOK 
PROPERTIES AudioKeptBeforeSuccess 
CHECK_DEADLOCK FALSE
