SPECIFICATION Spec
CONSTANTS
  Root = 0
  Actions <- MCActions
  Graphs <- MCGraphs
  MaxDepth = 2
  MaxNodes = 4
  Rules = {"right", "alternate"}
  Arms <- MCArms
  Explores = TRUE
  MaxIntersections = 2
  None = None
INVARIANTS BankIsSearchTree ShieldFallsBackAtDeadEnds EpisodeEndsForItsReason RecountsAgree
