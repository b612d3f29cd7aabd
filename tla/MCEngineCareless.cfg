\* A client that goes on with a session whose submit failed, and Qwen's prefill,
\* which reserves every position before it writes the first.
CONSTANTS
  a = a
  eos = eos
  MaxSessions = 2
  Token = {a, eos}
  Eos = eos
  Prompts <- ShortPrompts
  TotalBlocks = 3
  TokensPerBlock = 2
  BackendCap = 2
  BatchPrefill = TRUE
  RunnerFaults = TRUE
  CarefulClient = FALSE
  ThermalLevels = {"Nominal"}
  Policies = {"Fair", "ThroughputFirst"}
  None = None
  Idle = Idle
SPECIFICATION Spec
INVARIANTS KvHoldsHistory SnapshotIntact
