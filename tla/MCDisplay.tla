----------------------------- MODULE MCDisplay -----------------------------
EXTENDS Display

\* two snapshots: scrubbing back, forward and past the end all happen
MCCapacity == 2

\* two square-type grids: every move changes the grid
MCPositions == {"P0", "P1"}

MCInitialPosition == "P0"

=============================================================================
