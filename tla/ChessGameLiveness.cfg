CONSTANTS
  Files <- MCFiles
  Ranks <- MCRanks
  BackRank <- MCBackRank
  GamePresets <- MCGamePresets
  Elapsed <- MCElapsed
  Keys <- MCKeysOne
  MaxSelections <- MCMaxSelectionsOne
SPECIFICATION Spec
PROPERTY GameEventuallyEnds
