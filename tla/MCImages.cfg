CONSTANTS
  None = None
  Off = Off
  eos = eos
  a = a
  b = b
  Family = "gemma"
  Path = "native"
  Sizes <- UpTo12
  Configs <- LengthConfigs
  SoftEnv <- Budgets
  SplitEnv <- AnySplit
  DefaultSplit = FALSE
  PrefixMode = FALSE
  TowerLen = 2
  SoftTokens = 6
  Tile = 2
  Longest = 8
  Grid = 6
  MaxTiles = 4
  TextHolders = {0, 1}
SPECIFICATION PartsSpec
INVARIANTS
  WithinBudget
  PromptMatchesFeatures VectorsAreTheModels RecordingIsHeard GenerationIsTheModels
CHECK_DEADLOCK FALSE
