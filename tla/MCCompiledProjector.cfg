SPECIFICATION Spec
CONSTANTS
  Threads = {t1, t2}
  NoThread = NoThread
  Topologies = {A, B}
  Settings = {fast, slow}
  Weights = {1, 2}
  Persist = TRUE
  MaxAttempts = 4
  ColdRetry = TRUE
  FailSafe = TRUE
  HasDeadline = TRUE
  Acceptable = {"optimal"}
  MaxEpisodes = 1
  None = None
INVARIANTS SolverMatchesProblem WarmStartIsOfEpisode
 
