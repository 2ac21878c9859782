CONSTANT Capacity <- MCCapacity
CONSTANT Positions <- MCPositions
CONSTANT InitialPosition <- MCInitialPosition
SPECIFICATION DSpec
INVARIANT TypeOK
INVARIANT HistoryCounterBounded
PROPERTY FlowEntryDrawn
INVARIANT BoardOverBackground
