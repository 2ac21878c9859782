# TLA+ models of the LCOM chess game

This directory holds TLA+ models of the chess game under `src/proj/src`, the TLC
configurations that check them, and `PROJECT.json`. PROJECT.json records the
components, the runs, the mutants, the source lines each definition models, the
findings and the hazards.

## The system

The program is a single-threaded MINIX driver. `proj_main_loop` (`main.c:166-263`)
does four things in order:
1. It enables mouse data reporting and subscribes the timer, keyboard, mouse and
   RTC interrupts.
2. It calls `setup()`, which sets the VBE mode, allocates the buffers and loads
   the sprites, then draws the menu.
3. It serves interrupts until ESC is pressed in MENU.
4. It calls `_exit_`.

Each hardware notification is handled to completion before the next one:

* **Timer.** While `current_state == GAME`, every 6th interrupt calls
  `decrease_player_timer()` and then `game_loop(game)`.
* **Keyboard.** `parse_keyboard_input()` decodes scancodes, one byte per
  interrupt, into `key_pressed` and calls `router()`.
  * A key release also runs `router()`, with the *previous* `key_pressed`.
  * The ESC break code sets `key_pressed = ESC` without routing.
* **Mouse.** `parse_mouse_input()` assembles a packet from three bytes. For
  every complete packet it moves the cursor and runs the drag state machine
  `in_game_mouse_movement()`, whatever the flow. In GAME it then redraws the
  screen.
* **RTC.** Its interrupt is subscribed but not served. The pause menu's save and
  LOAD_GAME read the date from its registers with `rtc_get_current_date`.

The parts and their state:

| Part | Source | State |
|---|---|---|
| Start-up and shut-down | `main.c` `proj_main_loop`, `setup`, `_exit_`; the subscribe functions; `enable_mouse_report`; `initialize_graphics` | IRQ policies, mouse reporting, video mode, frame buffer mapping, buffers, sprites |
| Flow router | `controller.c` `router`, `init_game`, `game_loop`, `decrease_player_timer` | `current_state`, `key_pressed`, `game_alredy_started`, `game` (a heap block), `dt`, the global `isWhiteTurn` |
| Board model and legality | `game.c` | `struct Board`: `pieces[32]` and `squares[8][8]`, two views of one position |
| Player clocks | `game.c` `initClock`, `controller.c` `decrease_player_timer`, `view.c` `draw_clockValue` | `minutes`, `seconds`, `a_tenth_of_a_second` per player |
| Mouse drag machine | `mouse.c` `in_game_mouse_movement` | `_current_state`, `initial_pos`, `piece_selected` |
| Mouse packet parser | `mouse.c` `parse_values`, `controller.c` `parse_mouse_input` | `counter_mouse`, `sync`, the packet, `cursor` |
| Keyboard decoder | `keyboard.c` `kbc_ih`, `receive_keyboard_scan`, `controller.c` `parse_keyboard_input` | `scancode`, `scan_info` (`size_counter`, `make_code`, `bytes[2]`) |
| Shared KBC | `main.c` dispatch on the AUX bit, `kbc.c` `read_commands_kbc`, `mouse.c` `mouse_ih` | the one-byte output buffer both devices fill |
| History buffer | `controller.c` (`game_loop` 61-82, GAME arrows) | `boardArray[1024]`, `index_`, `max_index`, `tempBoard` |
| Screen | `graphic.c`, `view.c` | `backBuffer`, `frontBuffer` (video memory), `backgroundBuffer`, `can_draw_this` |
| RTC and save file | `rtc.c`, PAUSE_MENU and LOAD_GAME | the RTC registers, `dt`, `current_current_date.txt` |

The parts are joined through globals:
* The mouse writes `current_state`, through the pause button.
* The keyboard frees and allocates `game`, in NEW_GAME.
* The timer frees `game` when a game is won.
* Nothing clears the mouse's selection between games.
* The keyboard and the mouse share the KBC's output buffer. The mouse's retry
  in `read_commands_kbc` can read a keyboard byte.

### Naming in the code

`load_xpm(..., WHITE)` gives the `isWhite == true` pieces the black sprites, so
the code's "White_player" plays the `isWhite == false` pieces:
* While `isWhiteTurn` holds, the `isWhite == false` pieces may be selected.
* While `isWhiteTurn` holds, White_player's clock runs.
* `king_count == 1`, meaning the `isWhite` king is gone, is reported as a white win.

The models keep the code's names, and `ToMove(turn)` names the player whose
clock runs.

## Modules

| Module | Models | Code |
|---|---|---|
| `ChessRules` | the board value, `init_board`, the board queries, `is_movement_legal` with its side effects, `change_piece_position`, `remove_piece_from_board`, `promote_pawn_to_queen`, `is_check` with `get_possible_moves` and `is_movement_legal_without_removing` | `game.c` |
| `PlayerClock` | one clock: `initClock`, the branch of `decrease_player_timer` for one player, and the clock face `draw_clockValue` | `game.c`, `controller.c:657-737`, `view.c`, `graphic.c` |
| `AbstractClock` | the clock the spec describes (4.5): one tenth per tick event, stopping at zero | spec |
| `ChessGame` | the program loop: router, game lifecycle, the heap cell of `game`, the timer path, keyboard outcomes, the mouse drag machine and `is_check`'s free. It uses `ChessRules` and instantiates `PlayerClock`. | `controller.c`, `mouse.c`, `main.c` |
| `HistoryBuffer` | `game_loop`'s history prologue, `init_game`'s reset and the GAME arrow keys | `controller.c` |
| `Display` | the three buffers and every drawing routine the handlers call, composed with `HistoryBuffer` | `graphic.c`, `view.c`, `controller.c`, `game.c:821` |
| `KeyboardDecoder` | the scancode path byte by byte (`kbc_ih`, `receive_keyboard_scan`, the decode) against a keyboard that presses, holds and releases keys, over a link that may flag a byte with an error | `keyboard.c`, `controller.c` |
| `MousePacket` | the packet path byte by byte against a mouse that sends three-byte reports and may lose a byte | `mouse.c`, `controller.c` |
| `KbcInput` | `KeyboardDecoder` and `MousePacket` composed over the shared output buffer, with `read_commands_kbc`'s retry | `main.c`, `kbc.c`, `mouse.c` |
| `Lifecycle` | start-up and shut-down: `enable_mouse_report`, the subscriptions, `setup`, `draw_menu`, `_exit_` | `main.c`, `kbc.c`, `mouse.c`, `timer.c`, `keyboard.c`, `rtc.c`, `graphic.c`, `view.c` |
| `Rtc` | `rtc_get_current_date` against an RTC that updates between any two register reads | `rtc.c` |
| `SaveLoad` | the pause menu's save into `dt` and LOAD_GAME's elapsed time, over two instances of `Rtc` on one RTC | `controller.c`, `rtc.c` |
| `MC*` | the constants TLC uses | |

### ChessRules

A board is `[pieces : Slots -> [type, pos, isWhite], squares : Squares -> [type, isWhite, hasMoved]]`,
on a board of `Files` x `Ranks` squares with the back-rank order `BackRank`.

`is_movement_legal` returns a `Verdict` with three fields:
* `ok` is the C return value;
* `capture` says whether it called `remove_piece_from_board`;
* `setMoved` says whether it set `piece->hasMoved`.

The side effects are part of the verdict because the C function changes the
board while it decides. The pawn branch keeps the code's asymmetries:
* On a pawn's first move, a diagonal capture is accepted without removing the
  taken piece (`game.c:601-608`).
* Only a white pawn's capture sets `hasMoved`.

`FirstSlotAt` is the "first `pieces[i]` at this position" loop shared by the
three mutators.

`is_check` (`game.c:161-195`) returns the set of outcomes the code can have:
* it takes the first attacker of the side to move;
* it computes that attacker's moves with `is_movement_legal_without_removing`,
  which is a rule set of its own: rook and queen capture along a line without
  the in-front test, the bishop never captures, and a king may take a king;
* it compares those moves with the opponent king's square, which is
  uninitialised when that king has no `pieces[]` entry; reading it is
  undefined behaviour, the outcome `"uninit_read"`, at which ChessGame stops;
* unless the first attacker gives check, it calls `free` on an array inside a
  local struct. That is an invalid free.

### PlayerClock and AbstractClock

`decrease` is one branch of `decrease_player_timer`: decrement the tenth, and
when it reaches zero or below, borrow a second or a minute, or clamp at 0:00.0.
`Tick` is one tick event, every 6th timer interrupt (`main.c:226`).

The clock face is the set of sprites `draw_clockValue` draws, each at its x:
`draw_number` draws the sprite of a digit 0-9 and nothing otherwise, and
`draw_two_points` draws the colon.

`Remaining` maps a clock to tenths, and
`Abstract == INSTANCE AbstractClock WITH remaining <- Remaining(clock)` is the
refinement mapping.

### ChessGame

**Variables**
* `current_state`, `key_pressed`, `game_alredy_started`, `dtSet` (whether `dt`
  is non-zero) and `isWhiteTurn` are the controller globals.
* `heap` is `"NULL"`, `"live"` or `"freed"`.
  * `create_game` reuses the same block, since `malloc` after `free` of one
    block returns it.
  * A freed block keeps its contents until `init_game`.
* `game` is the block's contents: the board, the two clocks and `isWhiteTurn`.
* `mouse_state` and `initial_pos` are the drag machine's globals.
  `piece_selected` is `&game->board.squares[initial_pos]`.
* `halt` records how the program stopped:
  * `"exit"` for ESC in MENU;
  * `"double_free"`, `"null_deref"`, `"invalid_free"` or `"out_of_bounds"` (a
    read of `squares[][]` off the board) for undefined behaviour. After it,
    `Terminated` stutters.
* `selections` counts the pieces selected in the current game. It is a bound,
  see below.

**Actions**
* `router` is one `CASE` over the flow. Each flow is an operator returning the
  set of possible results: `MenuRoute`, `NewGameRoute`, `LoadGame`,
  `InstructionsRoute`, `GameRoute`, `PauseRoute` and `WinnerRoute`.
* `PauseRoute`'s save has three outcomes: `rtc_get_current_date` fails,
  `fopen` fails, or the save succeeds.
* `LoadGame` debits one of the `Elapsed` times from the clock named by the
  global `isWhiteTurn`. It then runs the two loss checks, which may each free
  the block.
* The keyboard actions:
  * `PressKey(k)` is a make code, followed by `router()` and the main loop's
    ESC test;
  * `RepeatKey` is a key release, which routes the stale `key_pressed`;
  * `EscRelease` is the ESC break code.
* `MouseInitial`, `MouseSelected`, `MouseClicked`, `MouseDragged` and
  `MouseComplete` are the five cases of `in_game_mouse_movement`. They are
  enabled in every flow, as in the code.
* `MouseComplete` includes the whole case:
  * the move, the turn change (`changeTurn`) and the promotion test;
  * when the cursor is off the board, the promotion test reads `squares[][]`
    out of bounds (`mouse.c:371-381`), and the model halts with
    `"out_of_bounds"`;
  * then `is_check`, whose invalid free the allocator may or may not survive.
* `Tick` is `decrease_player_timer` followed by `game_loop`. `game_loop` frees
  the block on each of its end conditions, and each later condition reads the
  block left by the earlier free.

### HistoryBuffer and Display

**HistoryBuffer** abstracts a board to its grid of square types, which is all
`game_loop` compares.
* `Snapshot` and `Full` are `game_loop`'s prologue, with and without room left.
* `ScrubLeft`, `ScrubRight`, `ScrubDown` and `ResumeLive` are the arrow keys.
* An access outside `boardArray` is undefined behaviour, and the model halts
  there.

**Display** extends HistoryBuffer with the flow globals and the buffers
`[back, front, bg]`.
* A buffer is the sequence of layers drawn into it since it was last erased.
* Each drawing routine is an operator on the buffers, and each handler is the
  composition of those operators in the code's order.
* A completed drag is animated by `advance_piece`, in whatever flow it
  completes. `allocate_buffers` leaves garbage in `bg`.

### KeyboardDecoder and MousePacket

Both model a driver byte by byte against its device.
* **KeyboardDecoder.** `Press`, `Release` and holding a key produce make, break
  and typematic bytes. `ParseKeyboardInput` is one interrupt: `kbc_ih`, then
  `receive_keyboard_scan`, then the decode.
  * `kbc_ih` keeps its two `== 1` tests. The error test, on bits 6 and 7, never
    holds.
  * The KBC may flag a byte with a parity or timeout error. The byte read is
    then one of `GarbledBytes`, and the ghost `errored` records it.
* **MousePacket.** `Send` produces a report's three bytes. `LoseByte` is
  `read_commands_kbc` dropping a byte flagged with an error. `parse_mouse_input`
  is one interrupt.
  * `parse_values` keeps the `uint32_t` cursor arithmetic, so a move left past
    0 wraps.
  * It also keeps the 9-bit sign extension.

### KbcInput

`KbcInput` instantiates both drivers (`K == INSTANCE KeyboardDecoder`,
`M == INSTANCE MousePacket`). Each step of one leaves the other's variables
unchanged. The bytes of the two devices reach the buffer in any order.
* `Keyboard` and `Mouse` are main's two branches on the AUX bit.
* `read_commands_kbc` is `mouse_ih` on a mouse byte flagged with an error, with a
  keyboard byte arriving during the wait. The loop reads and drops that byte.
  Then either the next mouse byte is returned, or the loop ends and
  `parse_values` gets the keyboard byte.
* `taken` counts the keyboard bytes the mouse handler read.

### Lifecycle

`pc` is the next call `proj_main_loop` makes. Every kernel or BIOS call may
fail, and each call site is reached once:
* `EnableMouseReport` is `enable_mouse_report`: the two `send_commands_kbc`,
  then the reply read by `read_commands_kbc`, whose result is ignored. An
  unread reply leaves `error` uninitialised.
* `Subscribe(i)` is the four subscriptions.
* `Setup` is `setup()`: `initialize_graphics` and then the sprite loads.
  `proj_main_loop` ignores its result.
* `DrawMenu` and `Quit` lead into and out of the interrupt loop, which is
  ChessGame's.
* `set_text_mode`, `Unsubscribe(i)` and `vg_exit` are `_exit_`. Each failure
  returns at once.

### Rtc

The RTC holds the date in BCD registers.
* `SetUIP` sets UIP 244 microseconds before an update.
* `Update` advances the date one second, with its carries, and clears UIP.
* `update_in_progress` is the polling loop of `rtc_get_current_date`. It ends
  when UIP reads as **set**.
* `read_register(i)` reads the seven fields in the code's order. Each read may
  fail. The last one applies `adjust_date_values`.

An `ASSUME` checks that `convert_bcd_to_decimal` inverts
`convert_decimal_to_bcd` on 0..99.

### SaveLoad

SaveLoad composes two calls of `rtc_get_current_date` with the router code
around them. `RS == INSTANCE Rtc WITH ...` is the save's call. Its variables are
`supd`, `spc`, `dt` and `sseen`. `RL` is LOAD_GAME's call, with `lupd`, `lpc`,
`dt2` and `lseen`. The RTC (`now`, `uip`) is shared.
* `PressTwo` is PAUSE_MENU's key TWO (`controller.c:578-587`). After a failed
  call, router has returned with the key still TWO, so the call runs again on
  the partly written `dt`.
* `fopen` either fails, which keeps PAUSE_MENU and `dt`, or goes to MENU.
* `Elapse` is the real time until the user loads, one of `Gaps` seconds.
* `LoadGame` (`controller.c:382-393`) goes to GAME. Only when every field of
  `dt` it tests is non-zero (`dtSet`) does it start the call into `dt2`. That
  local is uninitialised, one of the `Junk` bytes.
* `Debit` runs whatever the call returned. It computes `diff_seconds`
  (`controller.c:398-404`), the seconds ChessGame's `debit` takes off the clock.

`ElapsedDebited` compares the debit with the seconds between a date the RTC
held during the save and one it held at the load. When the load skips its read,
the ghost `lseen` records the RTC's date at that moment.

## Runs

| Run | Cfg | Expect | Shows |
|---|---|---|---|
| clock | `PlayerClock.cfg` | pass | From each of the five NEW_GAME presets (32,388 states), four things hold: `decrease` keeps the clock well formed (`TypeOK`); the face reads as the clock's MM:SS (`FaceShowsClock`); the clock never adds time (`ClockNeverIncreases`); and it reaches 0:00.0 and stays there (`ClockRunsOut`). |
| clock_refinement | `PlayerClockRefinement.cfg` | violation | `AbstractSpec` fails at the first borrow: (0,59,1) goes to (0,58,9), skipping tenth 0. A second lasts 9 tick events, not 10. |
| session | `ChessGameSession.cfg` | pass | Two properties hold across every sequence of the keys ONE-FOUR, SIX and UP, releases, pauses, saves, loads, drags and wins, with one selection per game. `StartedMeansLive`: `game_alredy_started` implies the block is allocated. `SquaresBacked`: every occupied square still has a `pieces[]` entry after the moves, captures and promotions. `TypeOK` also holds. |
| liveness | `ChessGameLiveness.cfg` | pass | `GameEventuallyEnds`: a game in GAME leaves it, or the program halts. |
| undefined_behaviour | `NoUndefinedBehaviour.cfg` | violation | `NoUndefinedBehaviour`. The pause button in MENU and then `1` put the flow in GAME with `game == NULL`. The release of the key routes GAME's redraw, which dereferences NULL. |
| display | `Display.cfg` | pass | Four properties hold: `HistoryCounterBounded`; `FlowEntryDrawn`, that every step into a menu, the instructions or a winner screen draws that screen; `BoardOverBackground`, that every board shown lies over the game background; and `TypeOK`. |
| screen | `ScreenFaithful.cfg` | violation | `ScreenFaithful`. An arrow key before the first tick of a game shows `boardArray[0]`, which the current game never recorded. |
| time_across_save | `TimeKeptAcrossSave.cfg` (MCSaveLoad) | violation | `TimeKeptAcrossSave`. The RTC updates between the save's seconds read and its minutes read. `dt` keeps the old seconds with the new minutes, hours and day. From 14:30:59 that gives 14:31:59; from 23:59:59 on day 9 it gives 00:00:59 on day 10. Neither is a date the RTC held. With two workers, TLC may report either start date. |
| mouse | `MousePacket.cfg` | pass | Under byte loss, the packet counter stays in 0..2, the cursor stays on screen, and a packet built from one report decodes that report. |
| game_rules | `MovesFollowRules.cfg` | violation | `MovesFollowRules`. After the pause button in GAME, a piece is selected and moved while PAUSE_MENU is shown. |
| lifecycle | `ResourcesManaged.cfg` | violation | `ResourcesManaged`. The mouse's reply is not read, the uninitialised `error` holds NACK, and `proj_main_loop` returns 1 with the mouse streaming. |
| input | `InputsDecoded.cfg` | violation | `InputsDecoded`. A byte the KBC flags with a parity error reads as ONE's make code, and `kbc_ih` keeps it. |

Each violation run checks one contract. A contract is the conjunction of
properties the spec states about one part. TLC reports the shortest
counterexample. The other ways to break the contract are reproduced by the
cfgs below and named in the finding.

Each violation is a finding in PROJECT.json, with the line where it starts.

Each property of a passing run has a mutant in PROJECT.json. A mutant is a
variant of a mapped definition, written in the same module just before it, and
TLC finds that it violates the property. For example:
* `decrease_sec60` breaks `TypeOK`;
* `draw_clockValue_swapped` breaks `FaceShowsClock`;
* `change_piece_position_slot_kept` breaks `SquaresBacked`;
* `PauseSave_no_draw` breaks `FlowEntryDrawn`;
* `Clamp_signed` breaks `CursorInScreen`.

### Further checks kept beside the runs

The project has at most twelve runs. These cfgs check further properties; each
is cited by the hazard it covers.

| Cfg | Module | Result |
|---|---|---|
| `GraphicsReady.cfg` | `Lifecycle` | `GraphicsReadyBeforeDrawing` violated. `set_frame_mode` fails, `setup()` returns 1, and `proj_main_loop` still calls `draw_menu` with nothing mapped or allocated (`main.c:185`). |
| `ReleasedAtEnd.cfg` | `Lifecycle` | `ReleasedAtEnd` violated. An early return leaves IRQ policies set, and `_exit_` never disables reporting. |
| `NoDoubleFree.cfg` | `MCChessGame` | violated. White_player's clock expires and the block is freed. The pause button, then `1`, return to GAME, and the next tick frees the block again. |
| `InvalidFree.cfg` | `MCChessGame` | `NoInvalidFree` violated on the first completed drag whose first attacker gives no check. |
| `ChessGameBoard.cfg` | `MCChessGame` | passes (`SquaresBacked`) with three selections per game, so a pawn takes twice. |
| `BoardConsistent.cfg` | `MCChessGame` | `BoardConsistent` violated. After a pawn's first-move capture, two `pieces[]` entries stand on one square. |
| `KingCaptureEndsGame.cfg` | `MCChessGame` | violated. A king taken that way stays in `pieces[]`, and the game does not end. |
| `MovesOnlyInGame.cfg` | `MCChessGame` | violated. A drag started in GAME completes in PAUSE_MENU and changes the board. |
| `OnlySideToMoveMoves.cfg` | `MCChessGame` | violated. A selection made in one game completes in the next and moves a piece of the side not to move. |
| `HistoryIsGameRecord.cfg` | `MCHistoryBuffer` | violated. An arrow key before the first tick reads slot 0 of an empty history. |
| `HistoryAccessInBounds.cfg` | `MCHistoryBuffer` | violated. ARROW_RIGHT at the newest board reads `boardArray[max_index-2]`, which is index -2 or -1 early in a game. |
| `HistoryAppendOnly.cfg` | `MCHistoryBuffer` | violated. A move made while scrubbed is recorded at the scrubbed index. |
| `ScrubShowsCurrentGame.cfg` | `MCHistoryBuffer` | violated. `init_game` keeps `max_index`, so the arrows reach an earlier game's boards. |
| `MoveEventuallyRecorded.cfg` | `MCHistoryBuffer` | violated. The arrows move `index_`, and the recording of a move can be postponed for ever. |
| `ScrubViewKept.cfg` | `MCDisplay` | `ScrubViewKept` violated. A mouse packet redraws the live board over the snapshot an arrow key showed (`controller.c:246`). The spec says the cursor index selects the board shown. |
| `ScreenShowsFlow.cfg` | `MCDisplay` | `ScreenShowsFlow` violated. A drag completed in PAUSE_MENU is animated by `advance_piece` over the pause menu (`game.c:821`). |
| `ErrorNeverMakesKey.cfg` | `MCKeyboardDecoder` | violated. A byte flagged with an error is kept by `kbc_ih` and decoded as a make code. With the test written `!= 0`, the property holds. |
| `KeyPressRoutesKey.cfg` | `MCKeyboardDecoder` | violated on an error-free link. With two keys held, the second make code routes the first key. |
| `BytesInBounds.cfg` | `MCKeyboardDecoder` | violated on an error-free link. Two keys held, a typematic repeat, or an arrow's make and break write `scan_info.bytes` past its two entries. |
| `KeyboardDecoder.cfg` | `MCKeyboardDecoder` | passes (`DecoderIdleBetweenKeys`) on an error-free link. |
| `KeyboardIdleBetweenKeys.cfg` | `MCKbcInput` | violated on an error-free keyboard link. The mouse's retry takes ONE's break code, and `size_counter` stays 1 after the key is released. |
| `DateConsistent.cfg` | `MCRtc` | violated. The same torn date, for the call alone. |
| `ElapsedDebited.cfg` | `MCSaveLoad` | violated. A save read as 14:31:00 has a zero seconds field. LOAD_GAME, 61 seconds later, debits nothing (`controller.c:390`). |
| `NoUninitRead.cfg` | `MCChessGame` | violated after 41 steps. A completed drag runs `is_check` when the opponent's king has no `pieces[]` entry, and the comparison reads the uninitialised `king_pos` (`game.c:186`). |
| `PacketStartsWithSync.cfg` | `MCMousePacket` | violated. After one lost byte, packets start on a delta byte, because the sync test `(data & SYNC) == 1` never holds. |

## Bounds

* **Board.** The ChessGame runs use a 2 x 4 board (`MCFiles`, `MCRanks`) with
  back rank KING, ROOK. It has pawns on both sides, a pawn two steps from
  promotion, a king that can be taken, and a rook.
  * Every branch of the pawn rule that the findings need happens on it.
  * The operators are written for any board from 2 x 4 to 8 x 8.
* **Presets.** In ChessGame every NEW_GAME preset starts the clocks at 0:01, so
  a time win happens within 10 ticks. The clock run uses the five real presets,
  1:00, 5:00, 10:00, 30:00 and 59:58, and explores each clock down to zero.
* **Elapsed.** `MCElapsed = {0, 61}`: a load with no elapsed time, and one with
  more elapsed time than the clock holds, which exercises the minute clamp.
* **Keys.** `MCKeys` holds every key that changes the flow. `MCKeysOne` is
  just ONE, the smallest set in which games follow one another.
* **Selections.** `MaxSelections` caps the pieces selected per game, and
  NEW_GAME resets the count.
  * A cap of 3 lets a pawn take twice, with a move of the other side between.
  * A cap of 1 still gives every game a move and a stale selection.
* **History.**
  * `MCCapacity` is 3 in HistoryBuffer and 2 in Display. That is enough to
    scrub back, forward, past the end, and to fill the buffer.
  * There are two or three grids.
* **Mouse.** Three reports, with one lost byte at most:
  * a large step;
  * a diagonal step with a button;
  * a step that reaches the 20-pixel edge band.
* **Keyboard.** Four keys, one per decoding case: a digit, a letter, an arrow
  (E0-prefixed) and ESC. The garbled byte is ONE's make code, and the
  error-free cfgs use none.
* **KbcInput.** The key ONE and one mouse report, a lost mouse byte at most, and
  two reports. That is enough for a keyboard byte to fall into the mouse's retry.
* **RTC.** Three start dates, each a second before a minute, an hour or a day
  rolls over, and at most two updates per call.
* **SaveLoad.** Two start dates, 14:30:59 and 23:59:59, with one update per call.
  * The update makes a torn save and a save at second 0.
  * The gaps are 61 s and 3600 s, so the load's seconds, minutes and hours all
    differ from the save's.
  * The junk bytes for `dt2` are 0 and 170.

## Fairness

* ChessGame's `Tick` is weakly fair, and so are Display's and HistoryBuffer's
  ticks. The timer interrupt is periodic, and while `current_state == GAME`
  every 6th one runs the timer path.
* MousePacket's `parse_mouse_input` is weakly fair, because every byte in the
  KBC raises an interrupt that the loop serves.
* Keys and mouse packets come from the user and get no fairness. The user may
  stop at any point.
* Lifecycle, Rtc, SaveLoad, KeyboardDecoder and KbcInput check only safety
  properties.
* `rtc_get_current_date` busy-waits until UIP is set. The RTC sets UIP once a
  second, so the wait ends. The model bounds the RTC's updates, so no run
  checks this.

## Not modelled

* **The timer.c configuration functions** (`timer_set_frequency`,
  `timer_display_conf` and the others). The game never calls them, and their
  header `i8254.h` is not in the repository.
* **Port I/O below the outcomes.** The polling of `send_commands_kbc`,
  `util_sys_inb`, and the VBE and `sys_int86` calls are modelled only as the
  results they return. `read_commands_kbc`'s retry is modelled in `KbcInput` and
  `MousePacket`. Its `continue` on a failed status read, which can spin for
  ever, is listed as a hazard.
* **Pixels.** The loops of `draw_xpm`, `vg_draw_pixel`, the colours and the
  sprite geometry are out of scope. Each sprite is a layer, because the `.xpm`
  files are not in the repository.
* **`is_stalemate` and `is_draw`.** Nothing calls them.
* **`draw_both_clocks`** and **`return_to_initial_pos`**. The first is unused,
  and the second is called only from commented-out code.
* **`print_date` and `print_time`.** They are only `printf`.
* **`disable_mouse_report`.** It is never called, and its absence is a hazard.
* **The labs under `src/lab*` and `utils/linked_list.c`.** They are not part of
  the game.
