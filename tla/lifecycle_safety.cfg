SPECIFICATION Spec
CONSTANTS
  tts = tts  asr = asr  huge = huge  cpu = cpu  c1 = c1  c2 = c2
  Clients = {c1, c2}
  Models = {tts, asr, huge, cpu}
  Main = Main  Nobody = Nobody  NoModel = NoModel
  Cost <- ModelCost
  MaxVRAM = 3
  Readings = {0, 4}
  IdleTimeout = {tts}
  Unleased = {cpu}
  Modes = {"acquire", "start", "exclusive"}
INVARIANTS TypeOK LeasedIsResident LeasesAndLocks
PROPERTIES LeastRecentlyUsedFirst ImplementsGpuLease
SYMMETRY ClientSymmetry
