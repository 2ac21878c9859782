CONSTANTS
  Files <- MCFiles
  Ranks <- MCRanks
  BackRank <- MCBackRank
  GamePresets <- MCGamePresets
  Elapsed <- MCElapsed
  Keys <- MCKeys
  MaxSelections <- MCMaxSelectionsOne
SPECIFICATION Spec
INVARIANT TypeOK
INVARIANT StartedMeansLive
INVARIANT SquaresBacked
