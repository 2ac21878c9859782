CONSTANTS
  Movements <- MCMovements
  MaxLost <- MCMaxLost
  MaxReports <- MCMaxReports
SPECIFICATION Spec
INVARIANT TypeOK
INVARIANT CursorInScreen
INVARIANT AlignedPacketDecoded
