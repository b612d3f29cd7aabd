\* Qwen's prefill, and a client that answers a failed submit with reset or cancel.
CONSTANTS
  a = a
  eos = eos
  MaxSessions = 2
  Token = {a, eos}
  Eos = eos
  Prompts <- ShortPrompts
  TotalBlocks = 3
  TokensPerBlock = 2
  BackendCap = 2
  BatchPrefill = TRUE
  RunnerFaults = FALSE
  CarefulClient = TRUE
  ThermalLevels = {"Nominal", "Critical", "Emergency"}
  Policies = {"Fair", "LatencyFirst", "ThroughputFirst"}
  None = None
  Idle = Idle
SPECIFICATION Spec
INVARIANT CausalAttention
