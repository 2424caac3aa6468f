SPECIFICATION AssuranceSpec
CONSTANTS
  Actions = {1, 2}
  Broken = 0
  Solves <- MCSolves
  SensitivityArgs <- MCArgs
  OldDicts <- MCOldDicts
  MaxFaults = 2
  Machines = {"lin", "zip"}
  HasGit = {"lin"}
  Native = {"lin"}
  Revisions = {1, 2, 3}
  Start = 1
  CorpusOf <- MCCorpusOf
  Roles = {"linux_public", "windows_public", "linux_wsl_moreau_cpu"}
  Soaks <- MCSoaks
  Requests <- MCRequests
  MaxRuns = 2
  MaxChanges = 1
CHECK_DEADLOCK FALSE
INVARIANT LevelThreeIsStable
