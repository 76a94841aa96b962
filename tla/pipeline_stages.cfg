SPECIFICATION CourteousSpec
CONSTANTS
  an = an  sep = sep  stt = stt  live = live  vocals = vocals  drums = drums
  NoJob = NoJob
  Jobs = {an, sep, stt, live}
  Kind <- JobsKind
  Refines <- JobsRefines
  Separating = {an}
  Transcribing = {an}
  Registered = {"separate", "diarize", "transcribe", "refine", "live"}
  TimedOut = {an}
  Stems = {vocals, drums}
INVARIANTS TypeOK LeaseDiscipline StemsKeptBeforeSuccess
PROPERTY EveryJobFinishes
CHECK_DEADLOCK FALSE
