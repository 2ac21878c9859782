------------------------------ MODULE ChessGame ------------------------------
(***************************************************************************)
(* The chess application of src/proj: the flow state machine driven by     *)
(* the keyboard (router, parse_keyboard_input), the piece drag machine      *)
(* driven by every mouse packet (in_game_mouse_movement), and the timer     *)
(* tick (decrease_player_timer then game_loop), all acting on the one heap  *)
(* block the global `game` points at.                                       *)
(*                                                                          *)
(* Naming.  game.c gives the pieces with isWhite = TRUE the sprites of the  *)
(* black set, and every use agrees: when isWhiteTurn holds it is the        *)
(* isWhite = FALSE pieces that may be selected and White_player's clock     *)
(* that runs; game_loop declares "white wins" when the isWhite king is      *)
(* gone.  So White_player owns the isWhite = FALSE pieces.                 *)
(*                                                                          *)
(* The heap.  heap says what `game` points at: "NULL" before the first      *)
(* game, "live" after create_game, "freed" after free(game); `game` is the  *)
(* block's contents.  The global keeps pointing at the block after free,   *)
(* and create_game is taken to return the same block again (the allocator  *)
(* reusing the last freed block of that size); freed contents are taken to *)
(* stay as they were until init_game.  halt records how the program ended: *)
(* "exit" (ESC in MENU), or the first NULL dereference, double free,      *)
(* invalid free (is_check freeing its local array), read of is_check's    *)
(* uninitialised king_pos, or out-of-bounds read of squares[][] (a drag    *)
(* completed off the board), after which the program's behaviour is      *)
(* undefined and the model stops.                                         *)
(***************************************************************************)
EXTENDS Integers, FiniteSets, ChessRules

CONSTANTS
  GamePresets,  \* the NEW_GAME keys and the [minutes, seconds] each starts with
  Elapsed,      \* seconds a LOAD_GAME may find elapsed since the save
  Keys,         \* the keys a make code decodes to (parse_keyboard_input)
  MaxSelections \* bound on the pieces the user selects in one game

VARIABLES
  current_state,        \* enum FlowState
  key_pressed,          \* enum ClickedKey, kept between keyboard interrupts
  game_alredy_started,
  heap,                 \* "NULL", "live" or "freed": what `game` points at
  game,                 \* [board, clock, isWhiteTurn] of that block
  mouse_state,          \* _current_state of the drag machine (mouse.c)
  initial_pos,          \* the square the current drag started on
  dtSet,                \* every field of the global dt is non-zero
  isWhiteTurn,          \* the global copy of the turn that a save keeps
  halt,                 \* "no", "exit", or the undefined behaviour that ended the run
  selections            \* pieces selected since the last init_game (the bound)

vars == <<current_state, key_pressed, game_alredy_started, heap, game,
          mouse_state, initial_pos, dtSet, isWhiteTurn, halt, selections>>

\* decrease, initClock and Expired of one clock; the clock is a parameter
PC == INSTANCE PlayerClock
        WITH Presets <- {GamePresets[k] : k \in DOMAIN GamePresets},
             clock <- game.clock["White_player"]

Players == {"White_player", "Black_player"}

\* the player whose clock runs, and whose pieces move, on this turn
ToMove(turn) == IF turn THEN "White_player" ELSE "Black_player"

Flows == {"MENU", "NEW_GAME", "LOAD_GAME", "INSTRUCTIONS", "GAME",
          "PAUSE_MENU", "EXIT", "WINNER_SCREEN"}

MouseStates == {"INITIAL", "PIECE_SELECTED", "PIECE_CLICKED", "PIECE_DRAGGED", "COMPLETE"}

\* board positions of the cursor, (x - 200) / 50 and (y - 100) / 50: the
\* pause button (20..140 x 20..60) falls on (-3..-1, -1..0), off the board
PauseButton == Sq(-3, -1)

\* a point off the board and off the button, right of the board
Outside == Sq(Files, 0)

\* where a packet may leave the cursor
Targets == Squares \cup {PauseButton, Outside}

InitBoard == [pieces |-> InitPieces, squares |-> InitSquares]

\* init_game (controller.c): board, both clocks, White_player to move
init_game(p) ==
  [board |-> InitBoard,
   clock |-> [q \in Players |-> PC!initClock(p.minutes, p.seconds)],
   isWhiteTurn |-> TRUE]

-----------------------------------------------------------------------------
(* The router works on a record of the state it touches, so that its       *)
(* recursive calls compose; a case with several outcomes returns a set.    *)
Ctl == [flow |-> current_state, key |-> key_pressed, started |-> game_alredy_started,
        heap |-> heap, game |-> game, dtSet |-> dtSet, isWhiteTurn |-> isWhiteTurn,
        halt |-> halt, sel |-> selections]

\* free(game): a second free of the same block is a double free
free(s) == [s EXCEPT !.heap = "freed",
                     !.halt = IF s.heap = "freed" /\ @ = "no" THEN "double_free" ELSE @]

\* a dereference of `game` while it is NULL
deref(s) == IF s.heap = "NULL" /\ s.halt = "no" THEN [s EXCEPT !.halt = "null_deref"] ELSE s

\* variant: a win path that frees the game but leaves the flag set
win_keeps_started(s, dtNonZero) ==
  free([s EXCEPT !.flow = "WINNER_SCREEN", !.dtSet = dtNonZero])

\* the win paths of game_loop and LOAD_GAME: WINNER_SCREEN, dt set, free
win(s, dtNonZero) ==
  free([s EXCEPT !.flow = "WINNER_SCREEN", !.started = FALSE, !.dtSet = dtNonZero])

\* variant: the debit without the clamp of a negative minute count
debit_unclamped(c, e) ==
  LET m == c.minutes - e \div 60
      sec == c.seconds - (e % 60)
      m1 == IF sec < 0 THEN m - 1 ELSE m
      s1 == IF sec < 0 THEN sec + 60 ELSE sec
  IN [c EXCEPT !.minutes = m1, !.seconds = s1]

\* LOAD_GAME's debit of e elapsed seconds from one clock; tenths untouched
debit(c, e) ==
  LET m == c.minutes - e \div 60
      sec == c.seconds - (e % 60)
      m1 == IF sec < 0 THEN m - 1 ELSE m
      s1 == IF sec < 0 THEN sec + 60 ELSE sec
  IN IF m1 < 0 THEN [c EXCEPT !.minutes = 0, !.seconds = 0]
     ELSE [c EXCEPT !.minutes = m1, !.seconds = s1]

\* LOAD_GAME's out-of-time test: it ignores the tenths
lost(c) == c.minutes <= 0 /\ c.seconds <= 0

\* the checks after the debit: White_player first, then Black_player on
\* whatever the block holds by then
load_checks(s) ==
  LET s1 == IF lost(s.game.clock["White_player"]) THEN win(s, TRUE) ELSE s
  IN IF lost(s1.game.clock["Black_player"]) THEN win(s1, FALSE) ELSE s1

\* LOAD_GAME, entered from MENU only when a game was started: the clock of
\* the player named by the global isWhiteTurn loses the time since the save
LoadGame(s) ==
  LET s0 == [s EXCEPT !.flow = "GAME", !.key = "NOKEY"]
      p == ToMove(s.isWhiteTurn)
  IN IF ~s.dtSet THEN {s0}
     ELSE {load_checks([s0 EXCEPT !.game.clock[p] = debit(@, e)]) : e \in Elapsed}

MenuRoute(s) ==
  CASE s.key = "ONE" \/ (s.key = "TWO" /\ ~s.started) ->
         {[s EXCEPT !.flow = "NEW_GAME", !.key = "NOKEY"]}
    [] s.key = "TWO" -> LoadGame(s)
    [] s.key = "THREE" -> {[s EXCEPT !.flow = "INSTRUCTIONS", !.key = "NOKEY"]}
    [] s.key = "FOUR" -> {[s EXCEPT !.flow = "EXIT", !.key = "ESC"]}
    [] OTHER -> {s}

\* every call in NEW_GAME first frees a started game; a preset key then
\* allocates and initialises a new one and renders it (GAME, NOKEY)
NewGameRoute(s) ==
  LET s1 == IF s.started /\ s.heap # "NULL" THEN free([s EXCEPT !.started = FALSE]) ELSE s
  IN CASE s.key \in DOMAIN GamePresets ->
            {[s1 EXCEPT !.started = TRUE, !.heap = "live",
                        !.game = init_game(GamePresets[s.key]), !.sel = 0,
                        !.key = "NOKEY", !.flow = "GAME"]}
       [] s.key = "SIX" -> {[s1 EXCEPT !.key = "NOKEY", !.flow = "MENU"]}
       [] OTHER -> {s1}

InstructionsRoute(s) ==
  IF s.key \in {"ESC", "ONE"} THEN {[s EXCEPT !.flow = "MENU", !.key = "NOKEY"]} ELSE {s}

\* NOKEY renders game->board; ARROW_UP resets the key and renders.  The
\* other arrows only move through the move history.
GameRoute(s) ==
  CASE s.key = "NOKEY" -> {deref(s)}
    [] s.key = "ARROW_UP" -> {deref([s EXCEPT !.key = "NOKEY"])}
    [] OTHER -> {s}

(* PAUSE_MENU TWO saves: the RTC read may fail (return), the file may not  *)
(* open (break, dt already read), else the turn is copied from the game.   *)
(* Whether every dt field is non-zero depends on the time of day.          *)
PauseRoute(s) ==
  CASE s.key = "ONE" -> {[s EXCEPT !.flow = "GAME", !.key = "NOKEY"]}
    [] s.key = "TWO" ->
         {s} \cup {[s EXCEPT !.dtSet = d] : d \in BOOLEAN}
             \cup {LET s1 == deref([s EXCEPT !.dtSet = d])
                   IN IF s1.halt # "no" THEN s1
                      ELSE [s1 EXCEPT !.isWhiteTurn = s.game.isWhiteTurn,
                                      !.flow = "MENU", !.key = "NOKEY"]
                   : d \in BOOLEAN}
    [] OTHER -> {s}

WinnerRoute(s) ==
  IF s.key = "ONE" THEN {[s EXCEPT !.flow = "MENU", !.key = "NOKEY"]} ELSE {s}

\* router(): EXIT goes back to MENU with ESC and routes again (a no-op)
router(s) ==
  CASE s.flow = "MENU"          -> MenuRoute(s)
    [] s.flow = "NEW_GAME"      -> NewGameRoute(s)
    [] s.flow = "INSTRUCTIONS"  -> InstructionsRoute(s)
    [] s.flow = "GAME"          -> GameRoute(s)
    [] s.flow = "PAUSE_MENU"    -> PauseRoute(s)
    [] s.flow = "EXIT"          -> {[s EXCEPT !.flow = "MENU", !.key = "ESC"]}
    [] s.flow = "WINNER_SCREEN" -> WinnerRoute(s)
    [] OTHER                    -> {s}

\* the state the router or the tick leaves
SetCtl(r) ==
  /\ current_state' = r.flow
  /\ key_pressed' = r.key
  /\ game_alredy_started' = r.started
  /\ heap' = r.heap
  /\ game' = r.game
  /\ dtSet' = r.dtSet
  /\ isWhiteTurn' = r.isWhiteTurn
  /\ halt' = r.halt
  /\ selections' = r.sel

-----------------------------------------------------------------------------
(* The keyboard.  A make code of a key in Keys sets key_pressed and routes. *)
(* A break code, a second make code and an unrecognised code leave          *)
(* key_pressed as it was and route again with it.  The ESC break code sets  *)
(* ESC without routing.                                                     *)
MouseVars == <<mouse_state, initial_pos>>

\* after each keyboard interrupt, main's loop ends on ESC in MENU
exit_check(r) ==
  [r EXCEPT !.halt = IF @ = "no" /\ r.key = "ESC" /\ r.flow = "MENU" THEN "exit" ELSE @]

PressKey(k) ==
  /\ halt = "no"
  /\ \E r \in router([Ctl EXCEPT !.key = k]) : SetCtl(exit_check(r))
  /\ UNCHANGED MouseVars

RepeatKey ==
  /\ halt = "no"
  /\ \E r \in router(Ctl) : SetCtl(exit_check(r))
  /\ UNCHANGED MouseVars

EscRelease ==
  /\ halt = "no"
  /\ SetCtl(exit_check([Ctl EXCEPT !.key = "ESC"]))
  /\ UNCHANGED MouseVars

-----------------------------------------------------------------------------
(* The mouse: in_game_mouse_movement runs on every complete packet,         *)
(* whatever current_state is.  lb, rb and mb are the packet's buttons.      *)
CtlVars == <<current_state, key_pressed, game_alredy_started, heap, dtSet, isWhiteTurn, halt, selections>>

\* get_piece_from_click: the square clicked, if it holds a piece of the block
PieceFromClick(at) ==
  heap # "NULL" /\ at \in Squares /\ game.board.squares[at].type # "EMPTY"

\* INITIAL with only the left button: select, or press the pause button
MouseInitial ==
  /\ halt = "no" /\ mouse_state = "INITIAL"
  /\ \E at \in Targets :
       IF PieceFromClick(at)
       THEN /\ selections < MaxSelections
            /\ selections' = selections + 1
            /\ initial_pos' = at
            /\ mouse_state' = IF game.board.squares[at].isWhite # game.isWhiteTurn
                              THEN "PIECE_SELECTED" ELSE "INITIAL"
            /\ UNCHANGED <<current_state, key_pressed, game_alredy_started, heap, dtSet,
                           isWhiteTurn, halt, game>>
       ELSE /\ at = PauseButton
            /\ current_state' = "PAUSE_MENU"
            /\ UNCHANGED <<key_pressed, game_alredy_started, heap, dtSet, isWhiteTurn, halt,
                           selections, game, MouseVars>>

MouseSelected ==
  /\ halt = "no" /\ mouse_state = "PIECE_SELECTED"
  /\ \E lb \in BOOLEAN : mouse_state' = IF lb THEN "PIECE_DRAGGED" ELSE "PIECE_CLICKED"
  /\ UNCHANGED <<CtlVars, game, initial_pos>>

\* a left click completes the move, a right click cancels it
MouseClicked ==
  /\ halt = "no" /\ mouse_state = "PIECE_CLICKED"
  /\ \/ mouse_state' = "COMPLETE"
     \/ mouse_state' = "INITIAL"
  /\ UNCHANGED <<CtlVars, game, initial_pos>>

\* releasing the left button completes a drag
MouseDragged ==
  /\ halt = "no" /\ mouse_state = "PIECE_DRAGGED"
  /\ mouse_state' = "COMPLETE"
  /\ UNCHANGED <<CtlVars, game, initial_pos>>

\* changeTurn (game.c)
changeTurn(g) == [g EXCEPT !.isWhiteTurn = ~@]

(* COMPLETE, on the next packet: the move from initial_pos to the square    *)
(* under the cursor, the turn change if it was made, then the promotion     *)
(* test on the destination whatever the outcome, then is_check.  When the  *)
(* cursor is off the board, final_pos is outside squares[8][8] and the     *)
(* promotion test reads squares[final_pos.x][final_pos.y] all the same: an *)
(* out-of-bounds read, after which the model stops.  is_check's free of a  *)
(* pointer malloc never returned is undefined behaviour: the allocator may *)
(* end the program or ignore the call, and the model continues only in    *)
(* the second case; its read of an uninitialised king_pos ends the model. *)
MouseComplete ==
  /\ halt = "no" /\ mouse_state = "COMPLETE"
  /\ \E final \in Targets :
       IF final \in Squares
       THEN LET r == change_piece_position(game.board, initial_pos, final)
                b == [game EXCEPT !.board = Promotion(r.board, final)]
                g == IF r.moved THEN changeTurn(b) ELSE b
            IN /\ game' = g
               /\ \E c \in is_check(g) :
                    halt' \in CASE c = "invalid_free" -> {"no", "invalid_free"}
                                 [] c = "uninit_read" -> {"uninit_read"}
                                 [] OTHER -> {"no"}
       ELSE halt' = "out_of_bounds" /\ UNCHANGED game
  /\ mouse_state' = "INITIAL"
  /\ UNCHANGED <<current_state, key_pressed, game_alredy_started, heap, dtSet, isWhiteTurn,
                 selections, initial_pos>>

-----------------------------------------------------------------------------
(* The timer: every 6th interrupt while in GAME runs decrease_player_timer *)
(* and then game_loop.  game_loop frees the block on each of its three end *)
(* conditions that holds, reading the block again after each free.         *)
KingCount(b) ==
  Cardinality({i \in Slots : b.pieces[i].type = "KING" /\ ~b.pieces[i].isWhite})
  - Cardinality({i \in Slots : b.pieces[i].type = "KING" /\ b.pieces[i].isWhite})

\* variant: game_loop without the test of White_player's clock
game_loop_white_unchecked(s) ==
  LET s1 == IF KingCount(s.game.board) \in {1, -1} THEN win(s, FALSE) ELSE s
  IN IF PC!Expired(s1.game.clock["Black_player"]) THEN win(s1, FALSE) ELSE s1

\* game_loop's end conditions, each read from the block as the last free left it
game_loop(s) ==
  LET s1 == IF KingCount(s.game.board) \in {1, -1} THEN win(s, FALSE) ELSE s
      s2 == IF PC!Expired(s1.game.clock["White_player"]) THEN win(s1, FALSE) ELSE s1
  IN IF PC!Expired(s2.game.clock["Black_player"]) THEN win(s2, FALSE) ELSE s2

decrease_player_timer(s) ==
  deref(IF s.heap = "NULL" THEN s
        ELSE [s EXCEPT !.game.clock[ToMove(s.game.isWhiteTurn)] = PC!decrease(@)])

\* one tick event: the clock of the side to move, then game_loop
tick(s) ==
  LET s1 == decrease_player_timer(s)
  IN IF s1.halt # "no" THEN s1 ELSE game_loop(s1)

Tick ==
  /\ halt = "no" /\ current_state = "GAME"
  /\ \E r \in {tick(Ctl)} : SetCtl(r)
  /\ UNCHANGED MouseVars

\* the program has ended; its state stays as it was
Terminated == halt # "no" /\ UNCHANGED vars

-----------------------------------------------------------------------------
Init ==
  /\ current_state = "MENU"
  /\ key_pressed = "NOKEY"
  /\ game_alredy_started = FALSE
  /\ heap = "NULL"
  /\ game = init_game(CHOOSE p \in {GamePresets[k] : k \in DOMAIN GamePresets} : TRUE)
  /\ mouse_state = "INITIAL"
  /\ initial_pos = Sq(0, 0)
  /\ dtSet = FALSE
  /\ isWhiteTurn = TRUE
  /\ halt = "no"
  /\ selections = 0

Next ==
  \/ \E k \in Keys : PressKey(k)
  \/ RepeatKey
  \/ EscRelease
  \/ MouseInitial
  \/ MouseSelected
  \/ MouseClicked
  \/ MouseDragged
  \/ MouseComplete
  \/ Tick
  \/ Terminated

\* the timer interrupt is periodic; the user owes the program nothing
Spec == Init /\ [][Next]_vars /\ WF_vars(Tick)

-----------------------------------------------------------------------------
Clocks == [minutes : Nat, seconds : 0..59, a_tenth_of_a_second : 0..9]

TypeOK ==
  /\ current_state \in Flows
  /\ key_pressed \in Keys \cup {"NOKEY", "ESC"}
  /\ game_alredy_started \in BOOLEAN
  /\ heap \in {"NULL", "live", "freed"}
  /\ game.clock \in [Players -> Clocks]
  /\ game.isWhiteTurn \in BOOLEAN
  /\ game.board.squares \in [Squares -> [type : PieceTypes, isWhite : BOOLEAN, hasMoved : BOOLEAN]]
  /\ mouse_state \in MouseStates
  /\ initial_pos \in Squares
  /\ dtSet \in BOOLEAN /\ isWhiteTurn \in BOOLEAN
  /\ selections \in 0..MaxSelections
  /\ halt \in {"no", "exit", "null_deref", "double_free", "invalid_free", "uninit_read", "out_of_bounds"}

(* game_alredy_started is the only guard NEW_GAME and LOAD_GAME have       *)
(* before they free or read the game: whenever it is set, `game` points at *)
(* a live block.  Every path that frees (game_loop, LOAD_GAME, NEW_GAME)   *)
(* must clear the flag with the free.                                      *)
StartedMeansLive == game_alredy_started => heap = "live"

(* Every occupied square has a pieces[] entry standing on it: the moves,   *)
(* captures and promotions of change_piece_position keep the two copies of *)
(* the board in step at least this far.                                    *)
SquaresBacked ==
  \A q \in Squares : game.board.squares[q].type # "EMPTY" => FirstSlotAt(game.board.pieces, q) # -1

(* A game on screen always ends: while the timer keeps ticking, some clock *)
(* reaches 0:00.0 (or a king is taken) and game_loop leaves GAME, unless   *)
(* the user leaves it first or the program stops.                         *)
GameEventuallyEnds == current_state = "GAME" ~> (current_state # "GAME" \/ halt # "no")

-----------------------------------------------------------------------------
(* Properties the code is found to break (each checked by a run of its own) *)

(* spec 3: the two copies of the board agree: every pieces[] entry on the  *)
(* board stands on a square holding that piece, and every occupied square  *)
(* has exactly one entry, after every move of change_piece_position.       *)
BoardConsistent ==
  LET b == game.board
  IN heap = "live" =>
       /\ \A i \in Slots : b.pieces[i].type # "EMPTY" =>
            /\ b.squares[b.pieces[i].pos].type = b.pieces[i].type
            /\ b.squares[b.pieces[i].pos].isWhite = b.pieces[i].isWhite
       /\ \A q \in Squares : b.squares[q].type # "EMPTY" =>
            Cardinality({i \in Slots : b.pieces[i].pos = q /\ b.pieces[i].type # "EMPTY"}) = 1

\* a side has no king left on the squares
KingTaken(b) == \E w \in BOOLEAN : ~\E q \in Squares : b.squares[q].type = "KING" /\ b.squares[q].isWhite = w

(* spec 4.4: once a king has been taken, the next tick's game_loop         *)
(* declares the winner: its king count over pieces[] sees the capture.     *)
KingCaptureEndsGame ==
  [][(Tick /\ heap = "live" /\ KingTaken(game.board)) => current_state' = "WINNER_SCREEN"]_vars

(* The program never reaches undefined behaviour: no dereference of a     *)
(* NULL `game` (the timer path and the router trust the flow, and the      *)
(* pause button lets the flow reach GAME from MENU), no second free of the *)
(* block (game_loop and LOAD_GAME free on every end condition that holds), *)
(* no free of memory malloc never returned (is_check's local array), no   *)
(* read of an uninitialised king_pos (is_check with the opponent's king    *)
(* gone from pieces[]), and no read of squares[][] outside the board       *)
(* (COMPLETE off the board).                                               *)
NoUndefinedBehaviour == halt \in {"no", "exit"}

(* The block `game` points at is freed at most once: game_loop and         *)
(* LOAD_GAME free it on every end condition that holds, and game_loop also *)
(* runs on a block freed before.                                           *)
NoDoubleFree == halt # "double_free"

(* Every free() the program makes is of a block malloc returned: is_check, *)
(* run after every completed drag, frees the moves array of its local      *)
(* Movelist unless the first piece it probes attacks the king.             *)
NoInvalidFree == halt # "invalid_free"

(* is_check reads king_pos only after its first loop found the opponent's  *)
(* king in pieces[]: a king captured by a move that leaves its entry in    *)
(* place keeps it, and only a king whose entry is gone leaves it unset.    *)
NoUninitRead == halt # "uninit_read"

(* spec 2: while the game is on screen the Game instance it shows is live: *)
(* the timer path dereferences `game` in GAME without any test.            *)
GameLiveInGame == current_state = "GAME" => heap = "live"

(* spec 4.6: the mouse drag machine acts while FlowState = GAME: a         *)
(* COMPLETE that changes the board happens only in GAME.                   *)
MovesOnlyInGame ==
  [][(mouse_state = "COMPLETE" /\ game'.board # game.board) => current_state = "GAME"]_vars

(* spec 4.4: a move is applied only if the moving piece belongs to the     *)
(* side to move: the piece COMPLETE moves is checked against the turn when *)
(* it was selected, and the turn may have changed since.                   *)
OnlySideToMoveMoves ==
  [][(mouse_state = "COMPLETE" /\ mouse_state' = "INITIAL" /\ game'.isWhiteTurn # game.isWhiteTurn)
       => game.board.squares[initial_pos].isWhite # game.isWhiteTurn]_vars


(* The moves follow the rules the spec sets (4.4, 4.6): a completed drag    *)
(* changes the board only while the game is on screen, only the side to    *)
(* move moves, and a king taken ends the game at the next tick.  The drag  *)
(* machine of parse_mouse_input, the keyboard's flow changes and game_loop  *)
(* each hold part of this.                                                  *)
MovesFollowRules == MovesOnlyInGame /\ OnlySideToMoveMoves /\ KingCaptureEndsGame

=============================================================================
