SPECIFICATION Spec
CONSTANTS
  j1 = j1
  j2 = j2
  u1 = u1
  u2 = u2
  Jobs = {j1, j2}
  Idles = {u1, u2}
  Providers <- MCProviders
  Languages <- MCLanguages
  Language <- MCLanguage
  Texts <- MCTexts
  Transcripts <- MCTranscripts
  MaxWords = 3
  TargetWords = 2
INVARIANTS TypeOK NoModelOnlyLate FilesOutliveCalls SaidAndHeard
 
CHECK_DEADLOCK FALSE
