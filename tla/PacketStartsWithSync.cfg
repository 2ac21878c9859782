CONSTANTS
  Movements <- MCMovements
  MaxLost <- MCMaxLost
  MaxReports <- MCMaxReports
SPECIFICATION Spec
INVARIANT PacketStartsWithSync
