SPECIFICATION Spec
CONSTANTS
  Paths = {p1, p2}
  Versions = {v1}
  Callers = {t1, t2}
  Committer = committer
  Null = Null
  MaxSecond = 2
  Starts <- MCStarts
  AllowOverwrites = FALSE
INVARIANTS  CommittedIsDurable  RemovalsAreOfFiles
PROPERTY CommitsAreAtomic
SYMMETRY MCSymmetry
