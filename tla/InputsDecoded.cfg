CONSTANTS
  KeyCodes <- MCKeyCodes
  GarbledBytes <- MCGarbledBytes
  Movements <- MCMovements
  MaxLost <- MCMaxLost
  MaxReports <- MCMaxReports
SPECIFICATION Spec
INVARIANT InputsDecoded
