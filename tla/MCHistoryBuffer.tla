--------------------------- MODULE MCHistoryBuffer ---------------------------
EXTENDS HistoryBuffer

\* three snapshots: enough to scrub back twice and forward past the end
MCCapacity == 3

\* three square-type grids: a move can lead back to an earlier grid
MCPositions == {"P0", "P1", "P2"}

MCInitialPosition == "P0"

=============================================================================
