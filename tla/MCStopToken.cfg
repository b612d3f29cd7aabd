\* One session, with room to decode.
CONSTANTS
  a = a
  eos = eos
  MaxSessions = 1
  Busy = {1}
  Token = {a, eos}
  Eos = eos
  Prompts <- OnlyOneToken
  Prompt <- OneToken
  TotalBlocks = 3
  TokensPerBlock = 1
  BackendCap = 2
  BatchPrefill = FALSE
  RunnerFaults = FALSE
  CarefulClient = TRUE
  ThermalLevels = {"Nominal"}
  Policies = {"Fair"}
  None = None
  Idle = Idle
SPECIFICATION LoopSpec
PROPERTY StopTokenDelivered
