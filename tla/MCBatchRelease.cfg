SPECIFICATION BothSpec
CONSTANTS
  MaxAttempts = 3
  ColdRetry = TRUE
  PublicFallback = TRUE
  FailSafe = TRUE
  HasDeadline = TRUE
  Acceptable = {"optimal", "inaccurate"}
  Threads = {t1}
  Confined = TRUE
  Ids <- MCIds
  Bar = "|"
  Anonymous <- MCAnonymous
  Topologies = {A, B}
  Settings = {fast, slow}
  Weights = {light, heavy}
  Objects = {o1, o2, o3}
  None = None
SYMMETRY Symmetry
INVARIANTS RowsAndStartsFit VoidIsForgotten LadderIsSound
PROPERTY NoAttemptAfterDeadline
