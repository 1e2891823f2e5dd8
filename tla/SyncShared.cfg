SPECIFICATION Spec
CONSTANTS
  Keys <- MCKeys
  BatchSize = 2
  NumWorkers = 2
  Capacity = 0
  DeleteUnmatched = TRUE
  CompareAttributes = FALSE
  Hidden = {}
  Excluded = {}
  SmallMax = 1
  MediumMax = 2
  LargeMax = 3
  NoLink = NoLink
  Sources <- SmallSources
  Targets <- SmallTargets
  AllowOverwrites = TRUE
  Workers = {w1, w2}
  Provider = "shared"
  Handler = "PosixToRemote"
  Inline = FALSE
  CachedEvent = FALSE
  PipeCapacity = 0
  Autocommit = FALSE
  LookupMin = 0
  DeletePath <- SamePath
  Failures = {"ADD", "SYMLINK"}
  NoKey = NoKey
INVARIANTS SuccessMeansSynced ManifestFollowsStorage  
