CONSTANTS
  Files <- MCFiles
  Ranks <- MCRanks
  BackRank <- MCBackRank
  GamePresets <- MCGamePresets
  Elapsed <- MCElapsed
  Keys <- MCKeysOne
  MaxSelections <- MCMaxSelections
SPECIFICATION Spec
INVARIANT SquaresBacked
