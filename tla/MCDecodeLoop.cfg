\* Three sessions, all of them decoding, with three decodes before the pool is
\* exhausted and every further one fails.
CONSTANTS
  a = a
  eos = eos
  MaxSessions = 3
  Busy = {1, 2, 3}
  Token = {a, eos}
  Eos = eos
  Prompts <- OnlyOneToken
  Prompt <- OneToken
  TotalBlocks = 6
  TokensPerBlock = 1
  BackendCap = 2
  BatchPrefill = FALSE
  RunnerFaults = TRUE
  CarefulClient = TRUE
  ThermalLevels = {"Nominal", "Elevated", "Critical", "Emergency"}
  Policies = {"Fair"}
  None = None
  Idle = Idle
SPECIFICATION LoopSpec
PROPERTIES NoStarvation BufferDrains
