\* Two sessions over three blocks of two positions; one entry value beside Blank
\* is enough to see a write through an alias.
CONSTANTS
  Session = {s1, s2}
  Entry = {x}
  Blank = Blank
  TotalBlocks = 3
  TokensPerBlock = 2
  Watermark = FALSE
  BatchAppend = TRUE
  MinStride = 2
  MaxStride = 8
  None = None
  Off = Off
SPECIFICATION PartsSpec
INVARIANTS
  TypeOK FreeListExact NoSharing OwnedIffAllocated TablesFit NoFault
  AttendsOwnSlots
PROPERTIES
  KeepsStoreContract KeptPositionsKeepEntries
CHECK_DEADLOCK FALSE
