CONSTANT Capacity <- MCCapacity
CONSTANT Positions <- MCPositions
CONSTANT InitialPosition <- MCInitialPosition
SPECIFICATION Spec
INVARIANT HistoryAccessInBounds
