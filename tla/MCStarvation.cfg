\* A third session is live and was never submitted to: it is not in the ring.
CONSTANTS
  a = a
  eos = eos
  MaxSessions = 3
  Busy = {1, 2}
  Token = {a, eos}
  Eos = eos
  Prompts <- OnlyOneToken
  Prompt <- OneToken
  TotalBlocks = 3
  TokensPerBlock = 1
  BackendCap = 2
  BatchPrefill = FALSE
  RunnerFaults = TRUE
  CarefulClient = TRUE
  ThermalLevels = {"Nominal", "Elevated", "Critical", "Emergency"}
  Policies = {"Fair"}
  None = None
  Idle = Idle
SPECIFICATION LoopSpec
PROPERTY NoStarvation
