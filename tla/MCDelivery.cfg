\* Two sessions and two prompts (a resubmission is a cache hit or a new turn), a
\* pool that the long prompt nearly fills, and a client that answers a failed
\* submit with reset or cancel.
CONSTANTS
  a = a
  eos = eos
  MaxSessions = 2
  Token = {a, eos}
  Eos = eos
  Prompts <- ShortPrompts
  TotalBlocks = 3
  TokensPerBlock = 2
  BackendCap = 2
  BatchPrefill = FALSE
  RunnerFaults = TRUE
  CarefulClient = TRUE
  ThermalLevels = {"Nominal", "Critical", "Emergency"}
  Policies = {"Fair", "LatencyFirst", "ThroughputFirst"}
  None = None
  Idle = Idle
SPECIFICATION DeliverySpec
INVARIANTS TypeOK RingMatchesStates KvAccounted KvHoldsHistory CausalAttention SnapshotIntact NothingLost
PROPERTIES KeepsStoreContract SuspendedUntouched
