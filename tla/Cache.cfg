SPECIFICATION Spec
CONSTANTS
  Readers = {r1, r2}
  Line = 2
  Sizes <- MCSizes
  Requests <- MCRequests
  CheckConfig = TRUE
  CalmFills = TRUE
  Null = Null
INVARIANTS TypeOK  FirstVersionExact 
SYMMETRY MCSymmetry
