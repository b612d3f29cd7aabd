CONSTANTS
  None = None
  Zero = Zero
  Off = Off
  a = a
  b = b
SPECIFICATION Spec
INVARIANTS
  ExactResult OwnResult NoCircle
CHECK_DEADLOCK FALSE
