SPECIFICATION SharedSpec
CONSTANTS
  Threads = {t1, t2}
  Keys = {k1, k2}
  Solvers = {s1, s2, s3}
  MaxPerKey = 1
  MaxKeys = 1
  NoSolver = NoSolver
  NoThread = NoThread
  MaxCalls = 2
CHECK_DEADLOCK FALSE
INVARIANTS ExclusiveOwnership FlagsMatchOwners SolvesOwnProblem
PROPERTIES ImplementsLease NobodyIsStranded ProjectConcludes
