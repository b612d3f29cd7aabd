CONSTANTS
  None = None
  Off = Off
  a = a
  b = b
  f = f
  g = g
SPECIFICATION Spec
INVARIANTS
  SessionsAreTheClients TokenizerIsTheFiles ShownWhereItBelongs
PROPERTIES
  EverythingEnds
CHECK_DEADLOCK FALSE
