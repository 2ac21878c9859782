------------------------------ MODULE Display ------------------------------
(***************************************************************************)
(* What the screen shows: the drawing done by router() (controller.c), by  *)
(* decrease_player_timer on each tick event, by parse_mouse_input after    *)
(* each mouse packet and by change_game_state_to_menu, through the three   *)
(* buffers of graphic.c, composed with the Move History Buffer whose       *)
(* arrow keys choose the board drawn.                                      *)
(*                                                                         *)
(* A buffer is the sequence of layers drawn into it since it was last      *)
(* erased (<<>>: memset to 0, a black screen).  A layer is a sprite name,  *)
(* or a grid of HistoryBuffer for the pieces draw_board draws from a       *)
(* board.  The full-screen sprites (menus, winner screens, the game        *)
(* background) are drawn at (0, 0) over whatever the buffer holds and are  *)
(* taken to cover it (the .xpm files are not in the repository).  The      *)
(* buffers are a record [back, front, bg]: backBuffer, frontBuffer (the    *)
(* video memory, what is on screen) and backgroundBuffer; each drawing     *)
(* routine of graphic.c and view.c is an operator from record to record,   *)
(* and a handler is their composition in the code's order.  The game's     *)
(* own logic (legality, clocks, the heap) is ChessGame's; here a completed *)
(* drag is HistoryBuffer's Move, animated by advance_piece in whatever     *)
(* flow it completes, and a tick may find the game over.                   *)
(***************************************************************************)
EXTENDS HistoryBuffer, Sequences

VARIABLES
  current_state, key_pressed, game_alredy_started,
  can_draw_this,
  buf             \* [back |-> backBuffer, front |-> frontBuffer, bg |-> backgroundBuffer]

dvars == <<current_state, key_pressed, game_alredy_started, can_draw_this, buf>>

allvars == <<vars, dvars>>

Keys == {"ONE", "TWO", "THREE", "SIX", "ARROW_LEFT", "ARROW_RIGHT", "ARROW_DOWN", "ARROW_UP"}

\* the NEW_GAME keys that start a game (1, 5, 10, 30 and 60 minutes)
Presets == {"ONE", "TWO", "THREE", "FOUR", "FIVE"}

\* allocate_buffers: backBuffer and backgroundBuffer are malloc'd, never
\* cleared; frontBuffer is the video memory vg_init mapped
allocate_buffers == [back |-> <<"garbage">>, front |-> <<>>, bg |-> <<"garbage">>]

-----------------------------------------------------------------------------
(* The drawing routines.  A sprite is drawn pixel by pixel into backBuffer *)
(* by vg_draw_pixel; only swap_buffers puts backBuffer on screen.          *)
erase_buffer(d) == [d EXCEPT !.back = <<>>]

swap_buffers(d) == [d EXCEPT !.front = d.back]

swap_BackgroundBuffer(d) == [d EXCEPT !.back = d.bg]

copy_BackGroundBuffer(d) == [d EXCEPT !.bg = d.back]

\* a sprite drawn over part of backBuffer, and one drawn over all of it
Paint(d, layer) == [d EXCEPT !.back = @ \o <<layer>>]

Cover(d, sprite) == [d EXCEPT !.back = <<sprite>>]

draw_menu(d) == swap_buffers(Cover(d, "menu"))

draw_game_background(d) == swap_buffers(Cover(d, "background"))

draw_game_instructions(d) == swap_buffers(Cover(d, "instructions"))

draw_game_mode_menu(d) == swap_buffers(Cover(d, "game_type_choice"))

draw_black_wins(d) == swap_buffers(Cover(d, "black_wins"))

draw_white_wins(d) == swap_buffers(Cover(d, "white_wins"))

draw_pause_menu(d) == swap_buffers(Cover(d, "pause_menu"))

\* the empty board at (175, 75); no swap
draw_board_without_Pieces(d) == Paint(d, "board")

draw_backBackGround(d) == draw_board_without_Pieces(draw_game_background(d))

\* the 32 pieces of a board, each by draw_piece; no swap
draw_board(d, g) == Paint(d, g)

\* the two clocks, digit by digit with draw_number and draw_two_points
draw_clockValue(d) == Paint(d, "clocks")

\* a piece sprite of either set at the pixel the animation has reached; no swap
draw_white_piece(d) == Paint(d, "moving_piece")

draw_black_piece(d) == Paint(d, "moving_piece")

\* every pieces[] entry but the one moving, each by draw_piece; no swap
draw_board_except_one_piece(d) == Paint(d, "other_pieces")

(* advance_piece, called by change_piece_position once the move is found   *)
(* legal: a frame per pixel step from the old square to the new one, each  *)
(* the kept background, the other pieces and the moving piece, swapped to  *)
(* the screen.  A legal move always changes the square, so at least one    *)
(* frame is drawn, and each frame starts from the background: the last     *)
(* one, left on screen, is the same whatever the path.  It draws in every  *)
(* flow.                                                                    *)
advance_piece(d, isWhite) ==
  LET d1 == draw_board_except_one_piece(swap_BackgroundBuffer(d))
  IN swap_buffers(IF isWhite THEN draw_white_piece(d1) ELSE draw_black_piece(d1))

\* the cursor sprite, then swap_buffers
draw_cursor_mouse(d) == swap_buffers(Paint(d, "cursor"))

\* router, GAME, NOKEY: the background built and kept, the board over it
RedrawGame(d, g) ==
  swap_buffers(draw_board(copy_BackGroundBuffer(draw_backBackGround(erase_buffer(d))), g))

\* the arrow keys: the snapshot over the kept background
BoardFrame(d, g) == swap_buffers(draw_board(swap_BackgroundBuffer(erase_buffer(d)), g))

\* decrease_player_timer and parse_mouse_input: board, clocks and cursor
LiveFrame(d, g) ==
  swap_buffers(draw_cursor_mouse(draw_clockValue(draw_board(swap_BackgroundBuffer(erase_buffer(d)), g))))

\* the screen each flow other than GAME is shown with
FlowScreen ==
  [MENU |-> {<<"menu">>}, NEW_GAME |-> {<<"game_type_choice">>},
   INSTRUCTIONS |-> {<<"instructions">>}, PAUSE_MENU |-> {<<"pause_menu">>},
   WINNER_SCREEN |-> {<<"white_wins">>, <<"black_wins">>}]

\* the background every board is drawn over
GameBackground == <<"background", "board">>

-----------------------------------------------------------------------------
(* Helpers for one handler: the flow it leaves and the buffers it draws.    *)
Flow(s, k) == current_state' = s /\ key_pressed' = k

-----------------------------------------------------------------------------
\* main: allocate_buffers, then draw_menu(0, 0) and swap_buffers
DInit ==
  /\ Init
  /\ current_state = "MENU" /\ key_pressed = "NOKEY"
  /\ game_alredy_started = FALSE /\ can_draw_this = TRUE
  /\ buf = swap_buffers(draw_menu(allocate_buffers))

(* router() on key_pressed = k, for each flow and key it acts on.  A make   *)
(* code routes with its key; a break code or an unknown code routes with   *)
(* key_pressed as the last call left it (RepeatKey).                       *)

\* MENU: ONE, or TWO with no game started (key ONE, router again)
MenuNewGame(k) ==
  /\ current_state = "MENU"
  /\ k = "ONE" \/ (k = "TWO" /\ ~game_alredy_started)
  /\ Flow("NEW_GAME", "NOKEY") /\ buf' = draw_game_mode_menu(buf)
  /\ UNCHANGED <<game_alredy_started, can_draw_this>> /\ UNCHANGED vars

\* MENU, TWO with a game started: LOAD_GAME then GAME, nothing drawn; the
\* debit may run a clock out: WINNER_SCREEN, erase and a winner screen
MenuLoadGame(k) ==
  /\ current_state = "MENU" /\ k = "TWO" /\ game_alredy_started
  /\ \/ Flow("GAME", "NOKEY") /\ UNCHANGED <<buf, game_alredy_started>>
     \/ /\ Flow("WINNER_SCREEN", "NOKEY") /\ game_alredy_started' = FALSE
        /\ \/ buf' = draw_black_wins(erase_buffer(buf))
           \/ buf' = draw_white_wins(erase_buffer(buf))
  /\ UNCHANGED can_draw_this /\ UNCHANGED vars

MenuInstructions(k) ==
  /\ current_state = "MENU" /\ k = "THREE"
  /\ Flow("INSTRUCTIONS", "NOKEY") /\ buf' = draw_game_instructions(buf)
  /\ UNCHANGED <<game_alredy_started, can_draw_this>> /\ UNCHANGED vars

\* variant: the preset path without the second router() call
NewGamePreset_no_route(k) ==
  /\ current_state = "NEW_GAME" /\ k \in Presets
  /\ game_alredy_started' = TRUE
  /\ Flow("GAME", "NOKEY")
  /\ NewGame
  /\ UNCHANGED <<can_draw_this, buf>>

\* NEW_GAME frees a started game on every call; a preset creates a game,
\* sets GAME and NOKEY and routes again: the NOKEY redraw of GAME
NewGamePreset(k) ==
  /\ current_state = "NEW_GAME" /\ k \in Presets
  /\ game_alredy_started' = TRUE
  /\ Flow("GAME", "NOKEY")
  /\ NewGame
  /\ buf' = RedrawGame(buf, InitialPosition) /\ can_draw_this' = TRUE

NewGameOther(k) ==
  /\ current_state = "NEW_GAME" /\ k \notin Presets
  /\ game_alredy_started' = FALSE
  /\ \/ k = "SIX" /\ Flow("MENU", "NOKEY") /\ buf' = draw_menu(buf)
     \/ k # "SIX" /\ Flow("NEW_GAME", k) /\ UNCHANGED buf
  /\ UNCHANGED can_draw_this /\ UNCHANGED vars

InstructionsBack(k) ==
  /\ current_state = "INSTRUCTIONS" /\ k = "ONE"
  /\ Flow("MENU", "NOKEY") /\ buf' = draw_menu(buf)
  /\ UNCHANGED <<game_alredy_started, can_draw_this>> /\ UNCHANGED vars

\* GAME, NOKEY: router's local tempBoard = game->board, drawn
GameRedraw(k) ==
  /\ current_state = "GAME" /\ k = "NOKEY"
  /\ Flow("GAME", "NOKEY")
  /\ buf' = RedrawGame(buf, board) /\ can_draw_this' = TRUE
  /\ UNCHANGED game_alredy_started /\ UNCHANGED vars

\* GAME, LEFT, RIGHT, DOWN: the cursor moves, router's local tempBoard is
\* read from boardArray and drawn over the kept background
GameScrub(k) ==
  /\ current_state = "GAME"
  /\ \/ k = "ARROW_LEFT" /\ ScrubLeft
     \/ k = "ARROW_RIGHT" /\ ScrubRight
     \/ k = "ARROW_DOWN" /\ ScrubDown
  /\ \E g \in Read(index_') : buf' = BoardFrame(buf, g)
  /\ can_draw_this' = FALSE
  /\ Flow("GAME", k)
  /\ UNCHANGED game_alredy_started

\* GAME, UP: index_ = max_index, NOKEY, can_draw_this, router(): the redraw
GameResume(k) ==
  /\ current_state = "GAME" /\ k = "ARROW_UP"
  /\ ResumeLive
  /\ Flow("GAME", "NOKEY")
  /\ buf' = RedrawGame(buf, board) /\ can_draw_this' = TRUE
  /\ UNCHANGED game_alredy_started

\* PAUSE_MENU, ONE: back to GAME with NOKEY; nothing is drawn
PauseResume(k) ==
  /\ current_state = "PAUSE_MENU" /\ k = "ONE"
  /\ Flow("GAME", "NOKEY")
  /\ UNCHANGED <<game_alredy_started, can_draw_this, buf>> /\ UNCHANGED vars

\* variant: the save path without draw_menu
PauseSave_no_draw(k) ==
  /\ current_state = "PAUSE_MENU" /\ k = "TWO"
  /\ \/ Flow("MENU", "NOKEY") /\ UNCHANGED buf
     \/ Flow("PAUSE_MENU", k) /\ UNCHANGED buf
  /\ UNCHANGED <<game_alredy_started, can_draw_this>> /\ UNCHANGED vars

\* PAUSE_MENU, TWO: the date saved, MENU and the menu drawn; or the RTC
\* read fails (return) or the file does not open (break): nothing changes
PauseSave(k) ==
  /\ current_state = "PAUSE_MENU" /\ k = "TWO"
  /\ \/ Flow("MENU", "NOKEY") /\ buf' = draw_menu(buf)
     \/ Flow("PAUSE_MENU", k) /\ UNCHANGED buf
  /\ UNCHANGED <<game_alredy_started, can_draw_this>> /\ UNCHANGED vars

\* WINNER_SCREEN, ONE: erase, draw_menu, swap_buffers
WinnerBack(k) ==
  /\ current_state = "WINNER_SCREEN" /\ k = "ONE"
  /\ Flow("MENU", "NOKEY") /\ buf' = swap_buffers(draw_menu(erase_buffer(buf)))
  /\ UNCHANGED <<game_alredy_started, can_draw_this>> /\ UNCHANGED vars

router(k) ==
  \/ MenuNewGame(k) \/ MenuLoadGame(k) \/ MenuInstructions(k)
  \/ NewGamePreset(k) \/ NewGameOther(k)
  \/ InstructionsBack(k)
  \/ GameRedraw(k) \/ GameScrub(k) \/ GameResume(k)
  \/ PauseResume(k) \/ PauseSave(k)
  \/ WinnerBack(k)

\* a key the router has no case for in this flow: nothing changes but the key
Ignored(k) ==
  /\ ~ENABLED router(k)
  /\ key_pressed' = k
  /\ UNCHANGED <<current_state, game_alredy_started, can_draw_this, buf>>
  /\ UNCHANGED vars

\* a make code: key_pressed = k, router()
PressKey(k) == router(k) \/ Ignored(k)

\* a break code or a typematic repeat: router() with key_pressed as it is
RepeatKey == router(key_pressed) \/ Ignored(key_pressed)

-----------------------------------------------------------------------------
\* decrease_player_timer's drawing: the live frame when can_draw_this holds
decrease_player_timer(d) == IF can_draw_this THEN LiveFrame(d, board) ELSE d

(* The tick event in GAME: decrease_player_timer, then game_loop, which    *)
(* records the board and may find the game over (a king gone or a clock at *)
(* 0:00.0): WINNER_SCREEN, erase_buffer and the winner screen.             *)
Tick ==
  /\ current_state = "GAME"
  /\ \/ Record
     \/ tempBoard = board /\ UNCHANGED vars
  /\ LET d == decrease_player_timer(buf)
     IN \/ buf' = d /\ UNCHANGED <<current_state, game_alredy_started>>
        \/ /\ current_state' = "WINNER_SCREEN" /\ game_alredy_started' = FALSE
           /\ \/ buf' = draw_white_wins(erase_buffer(d))
              \/ buf' = draw_black_wins(erase_buffer(d))
  /\ UNCHANGED <<key_pressed, can_draw_this>>

\* the pause button: PAUSE_MENU, erase_buffer, draw_pause_menu
change_game_state_to_menu ==
  current_state' = "PAUSE_MENU" /\ buf' = draw_pause_menu(erase_buffer(buf))

(* A mouse packet: parse_values calls in_game_mouse_movement on its third  *)
(* byte, in every flow; then parse_mouse_input, if the flow is GAME, draws *)
(* the live frame of game->board whatever can_draw_this says.  The packet  *)
(* may complete a drag (a Move, animated by advance_piece), press the      *)
(* pause button, or do neither.                                             *)
(* With no game started the drag machine reads a NULL or freed block: that *)
(* is ChessGame's, and left out here.                                      *)
MouseFrame(flow, d, g) == IF flow = "GAME" THEN LiveFrame(d, g) ELSE d

parse_mouse_input ==
  /\ \/ /\ game_alredy_started /\ Move
        /\ \E isWhite \in BOOLEAN :
             buf' = MouseFrame(current_state, advance_piece(buf, isWhite), board')
        /\ UNCHANGED current_state
     \/ /\ game_alredy_started /\ change_game_state_to_menu
        /\ UNCHANGED vars
     \/ /\ buf' = MouseFrame(current_state, buf, board)
        /\ UNCHANGED current_state /\ UNCHANGED vars
  /\ UNCHANGED <<key_pressed, game_alredy_started, can_draw_this>>

DNext ==
  \/ /\ ~OutOfBounds
     /\ \/ \E k \in Keys : PressKey(k)
        \/ RepeatKey
        \/ Tick
        \/ parse_mouse_input
  \/ Halted /\ UNCHANGED dvars

\* the timer interrupt is periodic while the game is shown
DSpec == DInit /\ [][DNext]_allvars /\ WF_allvars(Tick)

-----------------------------------------------------------------------------
(* Every step into a menu, the instructions or a winner screen draws that  *)
(* screen in the same handler: each flow change of router(), the pause      *)
(* button and game_loop's end of the game put the new flow's screen on      *)
(* the display before the next event is served.                             *)
FlowEntryDrawn ==
  [][(current_state' # current_state /\ current_state' \in DOMAIN FlowScreen)
       => buf'.front \in FlowScreen[current_state']]_allvars

(* Each flow but GAME is on screen: whatever the keys, ticks and mouse      *)
(* packets did, every path of router(), game_loop and the pause button that *)
(* enters a menu, the instructions or a winner screen draws it, and no      *)
(* later handler draws over it while the flow stays.                        *)
ScreenShowsFlow ==
  current_state \in DOMAIN FlowScreen => buf.front \in FlowScreen[current_state]

(* A board is only ever shown over the game background: the background      *)
(* buffer that swap_BackgroundBuffer copies under every board drawn by a    *)
(* tick, a mouse packet or an arrow key has been filled by the NOKEY        *)
(* redraw before, on every path into GAME.                                  *)
BoardOverBackground ==
  \A i \in DOMAIN buf.front :
    buf.front[i] \in Grids => i = 3 /\ SubSeq(buf.front, 1, 2) = GameBackground

(* While the history is scrubbed (an arrow key cleared can_draw_this and    *)
(* the cursor index_ selects a snapshot), the screen shows that snapshot   *)
(* drawn over the background, not the live board with clocks and cursor,   *)
(* until ARROW_UP or NOKEY resumes live play.                               *)
ScrubViewKept ==
  (current_state = "GAME" /\ ~can_draw_this) => Len(buf.front) = 3 /\ buf.front[3] \in Grids


(* The screen shows what the user chose (spec 3, 5): each flow but GAME is  *)
(* on screen; while the history is scrubbed, the snapshot the cursor       *)
(* selects, drawn over the background; and every snapshot the arrow keys   *)
(* reach is a position of the current game, which game_loop never writes  *)
(* over.                                                                    *)
ScreenFaithful == []ScreenShowsFlow /\ []ScrubViewKept /\ HistoryIsGameRecord

=============================================================================
