SPECIFICATION Spec
CONSTANTS
  Paths = {p1, p2}
  Versions = {v1, v2}
  Callers = {t1}
  Committer = committer
  Null = Null
  MaxSecond = 2
  Starts <- MCStarts
  AllowOverwrites = TRUE
INVARIANT CommitPersists
