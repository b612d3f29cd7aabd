CONSTANTS
  None = None
  Idle = Idle
  Off = Off
  s1 = s1
  s2 = s2
SPECIFICATION Spec
INVARIANTS
  FileIsReadAsWritten FileRuns UnwrapFinds
  CacheIsTheModels AnswerIsTheModels StateIsThePast
CHECK_DEADLOCK FALSE
