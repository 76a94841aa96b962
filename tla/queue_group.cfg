SPECIFICATION FairSpec
CONSTANTS
  kokoro = kokoro  omnivoice = omnivoice  gpu = gpu
  k1 = k1  k2 = k2  o1 = o1  ja = ja  jb = jb  jc = jc  t1 = t1  t2 = t2
  NoJob = NoJob  None = None
  Providers = {kokoro, omnivoice}
  Workers = {k1, k2, o1}
  Jobs = {ja, jb, jc}
  Groups = {gpu}
  Timers = {}
  Serves <- PairServes
  For <- PairJobs
  Managed = {kokoro, omnivoice}
  IdleUnload = {}
  Gated = {omnivoice}
  Group <- SameGroup
  SwitchDelay = {gpu}
INVARIANTS ActiveCounts GroupExclusive
PROPERTIES DispatchedToLoaded EveryJobFinishes
