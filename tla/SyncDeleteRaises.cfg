SPECIFICATION Spec
CONSTANTS
  Keys <- MCKeys
  BatchSize = 1
  NumWorkers = 2
  Capacity = 0
  DeleteUnmatched = TRUE
  CompareAttributes = FALSE
  Hidden = {}
  Excluded = {}
  SmallMax = 1
  MediumMax = 2
  LargeMax = 3
  NoLink = NoLink
  Sources <- TinySources
  Targets <- TinyTargets
  AllowOverwrites = TRUE
  Workers = {w1, w2}
  Provider = "none"
  Handler = "PosixToRemote"
  Inline = FALSE
  CachedEvent = FALSE
  PipeCapacity = 0
  Autocommit = FALSE
  LookupMin = 0
  DeletePath <- SamePath
  Failures = {"DELETE"}
  NoKey = NoKey
INVARIANT FailureRaises
