--------------------------- MODULE HistoryBuffer ---------------------------
(***************************************************************************)
(* The Move History Buffer of controller.c: boardArray, index_, max_index  *)
(* and the global tempBoard, written by the history prologue of game_loop  *)
(* on every tick event and read by the arrow keys of router()'s GAME case. *)
(* router() declares a local `struct Board tempBoard` that shadows the     *)
(* global: the boards its NOKEY and arrow cases copy and draw never reach  *)
(* the global, which only game_loop writes.  The drawing itself is        *)
(* modelled in Display.                                                    *)
(*                                                                         *)
(* game_loop compares square types only, so a board is abstracted to its   *)
(* grid of square types: a member of Positions.  A move always changes     *)
(* the grid (the square it leaves becomes EMPTY).  boardArray and          *)
(* tempBoard are zero-initialised globals: every square of an unwritten    *)
(* board has type 0, PAWN, a grid no game reaches, named Zero.  Reading or *)
(* writing outside boardArray is undefined behaviour: a read yields any    *)
(* grid and a write changes no modelled state; lastAccess records the      *)
(* index either used, and the model claims nothing after such an access:   *)
(* it halts there.                                                         *)
(***************************************************************************)
EXTENDS Integers

CONSTANTS
  Capacity,          \* the length of boardArray (1024)
  Positions,         \* square-type grids a game can reach
  InitialPosition    \* the grid init_board sets up

ASSUME Capacity \in Nat \ {0} /\ InitialPosition \in Positions

VARIABLES
  board,         \* game->board, as its grid of square types
  tempBoard,     \* the board game_loop last compared and recorded
  boardArray,
  index_,
  max_index,
  gameLen,       \* ghost: slots 0..gameLen-1 hold snapshots of the current game
  unrecorded,    \* ghost: a move happened that no snapshot holds yet
  lastAccess     \* ghost: {i} when the last step accessed boardArray[i], else {}

vars == <<board, tempBoard, boardArray, index_, max_index, gameLen, unrecorded, lastAccess>>

Zero == "Zero"

Grids == Positions \cup {Zero}

Slots == 0..Capacity - 1

\* router's local tempBoard = boardArray[i]: any grid when i is outside the array
Read(i) == IF i \in Slots THEN {boardArray[i]} ELSE Grids

-----------------------------------------------------------------------------
\* the globals start zeroed; board is the one init_game sets up
Init ==
  /\ board = InitialPosition /\ tempBoard = Zero
  /\ boardArray = [i \in Slots |-> Zero]
  /\ index_ = 0 /\ max_index = 0
  /\ gameLen = 0 /\ unrecorded = FALSE /\ lastAccess = {}

\* NEW_GAME: init_game sets index_ = 0 but leaves max_index and tempBoard
NewGame ==
  /\ board' = InitialPosition
  /\ index_' = 0
  /\ gameLen' = 0 /\ unrecorded' = FALSE /\ lastAccess' = {}
  /\ UNCHANGED <<tempBoard, boardArray, max_index>>

\* a completed drag that change_piece_position accepts
Move ==
  /\ \E p \in Positions \ {board} : board' = p
  /\ unrecorded' = TRUE /\ lastAccess' = {}
  /\ UNCHANGED <<tempBoard, boardArray, index_, max_index, gameLen>>

\* game_loop's prologue, when the board differs from tempBoard and there
\* is room: tempBoard and boardArray[index_] take the board
Snapshot ==
  /\ tempBoard # board /\ index_ < Capacity
  /\ tempBoard' = board
  /\ boardArray' = IF index_ \in Slots THEN [boardArray EXCEPT ![index_] = board]
                  ELSE boardArray
  /\ index_' = index_ + 1 /\ max_index' = index_ + 1
  /\ gameLen' = IF index_ < gameLen THEN gameLen ELSE index_ + 1
  /\ unrecorded' = FALSE /\ lastAccess' = {index_}
  /\ UNCHANGED board

\* the same with index_ at Capacity: only tempBoard is updated
Full ==
  /\ tempBoard # board /\ index_ >= Capacity
  /\ tempBoard' = board
  /\ UNCHANGED <<board, boardArray, index_, max_index, gameLen, unrecorded, lastAccess>>

\* the prologue of game_loop on a tick event (no step when nothing changed)
Record == Snapshot \/ Full

\* the cursor moves to i and router reads boardArray[i] into its local
Show(i) ==
  /\ index_' = i /\ lastAccess' = {i}
  /\ UNCHANGED <<board, tempBoard, boardArray, max_index, gameLen, unrecorded>>

\* GAME, ARROW_LEFT: one step back, not below 0
ScrubLeft == Show(IF index_ - 1 <= 0 THEN 0 ELSE index_ - 1)

\* variants of ARROW_RIGHT: the end test off by one; three steps back
ScrubRight_back_three == Show(IF index_ >= max_index THEN max_index - 3 ELSE index_ + 1)

ScrubRight_past_end == Show(IF index_ > max_index THEN max_index - 2 ELSE index_ + 1)

\* GAME, ARROW_RIGHT: one step forward; past max_index, back to max_index-2
ScrubRight == Show(IF index_ >= max_index THEN max_index - 2 ELSE index_ + 1)

\* GAME, ARROW_DOWN: the first snapshot
ScrubDown == Show(0)

\* GAME, ARROW_UP: cursor to max_index, key NOKEY and router() redraws
ResumeLive ==
  /\ index_' = max_index /\ lastAccess' = {}
  /\ UNCHANGED <<board, tempBoard, boardArray, max_index, gameLen, unrecorded>>

\* the last step accessed memory outside boardArray
OutOfBounds == ~(lastAccess \subseteq Slots)

\* after an access outside boardArray the behaviour is undefined
Halted == OutOfBounds /\ UNCHANGED vars

Next ==
  \/ /\ ~OutOfBounds
     /\ \/ NewGame \/ Move \/ Record
        \/ ScrubLeft \/ ScrubRight \/ ScrubDown \/ ResumeLive
  \/ Halted

\* the timer interrupt keeps coming while the game is shown
Spec == Init /\ [][Next]_vars /\ WF_vars(Record)

-----------------------------------------------------------------------------
TypeOK ==
  /\ board \in Positions /\ tempBoard \in Grids
  /\ boardArray \in [Slots -> Grids]
  /\ index_ \in -2..Capacity + 1 /\ max_index \in -2..Capacity + 1
  /\ gameLen \in 0..Capacity /\ unrecorded \in BOOLEAN
  /\ lastAccess \in SUBSET (-2..Capacity + 1)

(* The cursor arithmetic of the arrow keys and the capacity test of         *)
(* game_loop together keep index_ and max_index at most Capacity: the       *)
(* history stops growing when full (spec 5, resource exhaustion) and no     *)
(* sequence of RIGHT presses and ticks pushes the cursor past the end.      *)
HistoryCounterBounded == index_ <= Capacity /\ max_index <= Capacity

(* Every read and write of boardArray by game_loop and the arrow keys uses  *)
(* an index inside the array.                                               *)
HistoryAccessInBounds == ~OutOfBounds

(* spec 3: the history is the current game's record.  Every slot the     *)
(* arrow keys and game_loop touch holds a snapshot of the current game (no *)
(* index outside boardArray, none left from an earlier game), and a       *)
(* snapshot is only ever appended after the current game's last one, never *)
(* written over one, so the cursor selects the game's boards in the order   *)
(* they were played.                                                        *)
HistoryIsGameRecord ==
  /\ [](\A i \in lastAccess : i \in 0..gameLen - 1)
  /\ [][Snapshot => index_ >= gameLen]_vars

(* The buffer is append-only (spec 3): game_loop never writes over a        *)
(* snapshot recorded earlier in the same game.                               *)
HistoryAppendOnly ==
  [][Snapshot => index_ >= gameLen]_vars

(* Scrubbing shows only snapshots of the current game: a board the arrow    *)
(* keys put on screen was recorded since the last init_game.                *)
ScrubShowsCurrentGame == \A i \in lastAccess : i \in Slots => i < gameLen

(* A move reaches the history: once the board has changed, a later tick     *)
(* appends it, unless the buffer is full (or memory outside boardArray     *)
(* was accessed, after which nothing is claimed).                          *)
MoveEventuallyRecorded == unrecorded ~> (~unrecorded \/ index_ >= Capacity \/ OutOfBounds)

=============================================================================
