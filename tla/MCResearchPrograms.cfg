SPECIFICATION ResearchSpec
CONSTANTS
  Demo <- MCDemo
  DemoBatch <- MCDemoBatch
  HeldOut <- MCHeldOut
  Stress <- MCStress
  Present = {TRUE, FALSE}
  MinHeldOut = 2
  Forced <- MCForced
  Controls <- MCControls
  Rough <- MCRough
  Num = 1
  Den = 2
  UMax2 = 5
  Epsilon = 2
  Scenes <- MCScenes
  Modes = {"nominal_stage1_cbf", "soc_robust_stage3_cbf"}
  Baselines = {"public_solver_filter", "no_filter", "moreau_filter"}
  Verdicts <- MCVerdicts
  Horizons = {1, 4}
  Batches <- MCBatches
  Studies <- MCStudies
  Rank <- MCRank
  Available = {"clarabel", "scs"}
  Large = 2
  GapDominant = 1
  Proposals <- MCGScenes
  Corpora <- MCCorpora
  Hosts <- MCHosts
  H = 4
  Tol = 2
  Residual = 4
  Weak = 8
  ProbeH = 1
  Grid <- MCGrid
INVARIANTS BarrierKept RobustCovers BatchIsSequential GateSpeaksForLoop MissesAreSkips UnmarkedIsDerivative
