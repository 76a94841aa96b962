SPECIFICATION Spec
CONSTANTS
  s1 = s1  s2 = s2  u1 = u1  en = en  el = el
  Sessions = {s1}
  Uploads = {u1}
  Nobody = Nobody
  Closed = Closed
  Unloaded = Unloaded
  Language <- RequestLanguage
  MaxFrames = 1
  Limit <- FramesThatFit
  IdleUnload = TRUE
  MaxFired = 1
  ClientsWait = TRUE
PROPERTY NeverUnloadsSession
CHECK_DEADLOCK FALSE
