CONSTANTS
  KeyCodes <- MCKeyCodes
  GarbledBytes <- MCNoErrors
  Movements <- MCMovements
  MaxLost <- MCMaxLost
  MaxReports <- MCMaxReports
SPECIFICATION Spec
INVARIANT KeyboardIdleBetweenKeys
