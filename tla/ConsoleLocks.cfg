CONSTANT MaxDepth = 4
SPECIFICATION FairSpec
INVARIANTS
  OnlyHandlersWait
  StolenNeverRuns
PROPERTIES
  PanicSpeaks
  ExceptionReported
