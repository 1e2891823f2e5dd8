SPECIFICATION Spec
CONSTANTS
  Keys <- MCKeys
  BatchSize = 2
  NumWorkers = 1
  Capacity = 0
  DeleteUnmatched = TRUE
  CompareAttributes = FALSE
  Hidden = {}
  Excluded = {}
  SmallMax = 1
  MediumMax = 2
  LargeMax = 3
  NoLink = NoLink
  Sources <- SmallSources
  Targets <- MixedTargets
  AllowOverwrites = FALSE
  Workers = {w1}
  Provider = "shared"
  Handler = "PosixToPosix"
  Inline = TRUE
  CachedEvent = FALSE
  PipeCapacity = 0
  Autocommit = TRUE
  LookupMin = 0
  DeletePath <- SamePath
  Failures = {"ADD", "DELETE"}
  NoKey = NoKey
INVARIANTS NoOverwrite ManifestFollowsStorage FailureRaises
