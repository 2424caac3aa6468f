SPECIFICATION TreeSpec
CONSTANTS
  Runs = {r1, r2}
  Configs = {g1, g2}
  Contracts = {c1}
  Outcomes <- MCOutcomes
  MaxFamily = 2
  MaxFinalized = 2
  MaxReleases = 2
  None = None
  Flagship = r1
  Listed = {r1, r2}
  Contract = c1
  Surface = g1
CHECK_DEADLOCK FALSE
INVARIANT ReadmesAreAligned
