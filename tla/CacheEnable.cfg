SPECIFICATION Spec
CONSTANTS
  Readers = {r1}
  Line = 2
  Sizes <- MCSizes
  Requests <- EnableRequests
  CheckConfig = FALSE
  CalmFills = TRUE
  Null = Null
INVARIANT CheckedReadIsCurrent
