\* A client that has selected LatencyFirst.
CONSTANTS
  a = a
  eos = eos
  MaxSessions = 2
  Busy = {1, 2}
  Token = {a, eos}
  Eos = eos
  Prompts <- OnlyOneToken
  Prompt <- OneToken
  TotalBlocks = 3
  TokensPerBlock = 1
  BackendCap = 2
  BatchPrefill = FALSE
  RunnerFaults = TRUE
  CarefulClient = TRUE
  ThermalLevels = {"Nominal"}
  Policies = {"Fair", "LatencyFirst"}
  None = None
  Idle = Idle
SPECIFICATION LoopSpec
PROPERTY SomeoneDecodes
