----------------------------- MODULE MCChessGame -----------------------------
EXTENDS ChessGame

\* a 2 x 4 board: a pawn rank and a back rank for each side
MCFiles == 2
MCRanks == 4
MCBackRank == <<"KING", "ROOK">>

\* every NEW_GAME key starts both clocks at 0:01, so that a clock runs out
\* within ten ticks
MCGamePresets == [k \in {"ONE", "TWO", "THREE", "FOUR", "FIVE"} |-> [minutes |-> 0, seconds |-> 1]]

\* LOAD_GAME finds no time, or more than the clock holds, elapsed
MCElapsed == {0, 61}

\* FIVE starts a game as ONE does here, and LEFT, RIGHT and DOWN only move
\* through the history, so they are left out of the keys pressed
MCKeys == {"ONE", "TWO", "THREE", "FOUR", "SIX", "ARROW_UP"}

\* the user selects at most three pieces per game: enough for a pawn to take
\* twice with a move of the other side between
MCMaxSelections == 3

\* one selection per game: every game still sees a move, and both clocks run
MCMaxSelectionsOne == 1

\* ONE alone starts a game, resumes from the pause menu and leaves the
\* winner screen: the smallest key set in which games follow one another
MCKeysOne == {"ONE"}

=============================================================================
