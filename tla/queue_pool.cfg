SPECIFICATION FairSpec
CONSTANTS
  kokoro = kokoro  omnivoice = omnivoice  gpu = gpu
  k1 = k1  k2 = k2  o1 = o1  ja = ja  jb = jb  jc = jc  t1 = t1  t2 = t2
  NoJob = NoJob  None = None
  Providers = {kokoro}
  Workers = {k1, k2}
  Jobs = {ja, jb}
  Groups = {}
  Timers = {t1, t2}
  Serves <- PoolServes
  For <- PoolJobs
  Managed = {kokoro}
  IdleUnload = {kokoro}
  Gated = {}
  Group <- NoGroup
  SwitchDelay = {}
INVARIANTS TypeOK JobsAccounted WarmthIsWatched
PROPERTY WarmProvidersCool
