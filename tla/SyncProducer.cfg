SPECIFICATION ProducerSpec
CONSTANTS
  Keys <- MCKeys
  BatchSize = 2
  NumWorkers = 2
  Capacity = 0
  DeleteUnmatched = TRUE
  CompareAttributes = TRUE
  Hidden = {2}
  Excluded = {3}
  SmallMax = 1
  MediumMax = 2
  LargeMax = 3
  NoLink = NoLink
  Sources <- MCSources
  Targets <- MCTargets
INVARIANTS ProducerTypeOK MergeExact BatchesMaximal StopsComeLast WorkUnitsCounted
CHECK_DEADLOCK FALSE
