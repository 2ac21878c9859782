------------------------------ MODULE Lifecycle ------------------------------
(***************************************************************************)
(* Start-up and shut-down of the program: proj_main_loop (main.c) enables  *)
(* mouse data reporting, subscribes the timer, keyboard, mouse and RTC     *)
(* interrupts, calls setup() (the VBE mode, the buffers and the sprites)   *)
(* and draw_menu, serves interrupts until ESC in MENU, then calls _exit_.  *)
(* What the program holds of the machine is the state: the IRQ policies   *)
(* set, whether the mouse streams packets, the video mode, the mapping of  *)
(* the frame buffer and the two malloc'd buffers.                          *)
(*                                                                         *)
(* Every kernel and BIOS call may fail; each call site is reached at most  *)
(* once, so no bound is needed.  The mouse answers a command byte with     *)
(* ACK (0xFA), NACK (0xFE) or ERROR (0xFC).  What the interrupt loop does  *)
(* is ChessGame's; here it only runs until the user quits.                 *)
(***************************************************************************)
EXTENDS Integers

VARIABLES
  pc,           \* where proj_main_loop is: the next call it makes
  subscribed,   \* devices whose sys_irqsetpolicy succeeded and not removed
  reporting,    \* the mouse has data reporting enabled
  video,        \* "text" or "graphics": the mode the VBE is in
  mapped,       \* frontBuffer points at mapped video memory
  allocated,    \* backBuffer and backgroundBuffer are both malloc'd
  sprites       \* the sprites loaded

vars == <<pc, subscribed, reporting, video, mapped, allocated, sprites>>

\* the subscriptions of proj_main_loop, in the order it makes them
SubscribeOrder == <<"timer", "keyboard", "mouse", "rtc">>

Devices == {SubscribeOrder[i] : i \in 1..4}

\* i8042.h: the constants enable_mouse_report compares the reply with
ACK == 244
NACK == 254
ERROR == 252

\* what a PS/2 mouse sends back for a command byte
Replies == {250, NACK, ERROR}

-----------------------------------------------------------------------------
(* The device calls, each as the outcomes it can have.                     *)

\* send_commands_kbc: 0 once the input buffer is free within 5 polls and
\* the byte is written; 1 when the status read or the write fails, or the
\* buffer stays full
send_commands_kbc == {0, 1}

\* read_commands_kbc for the mouse's reply: the reply once it is in the
\* output buffer with the AUX bit and no error (<<reply>>), or no byte
\* after 5 polls (<<>>)
read_commands_kbc(reply) == {<<reply>>, <<>>}

(* enable_mouse_report: 0xD4 and 0xF4 through send_commands_kbc, then the  *)
(* reply through read_commands_kbc, whose result is ignored: when no byte  *)
(* is read, `error` is uninitialised and may hold any byte.  The switch    *)
(* returns 1 on NACK and ERROR, 0 otherwise.  The mouse enables reporting  *)
(* when it acknowledges 0xF4; a reply that is not read may have been       *)
(* either.                                                                 *)
enable_mouse_report ==
  LET answer(on, e) == [ret |-> IF e \in {NACK, ERROR} THEN 1 ELSE 0, on |-> on]
  IN {[ret |-> 1, on |-> FALSE] : s \in send_commands_kbc \ {0}}
     \cup UNION {UNION {IF e = <<>>
                        THEN {answer(on, b) : on \in BOOLEAN, b \in {ACK, NACK, ERROR, 0}}
                        ELSE {answer(r = 250, e[1])}
                        : e \in read_commands_kbc(r)} : r \in Replies}

\* the IRQ policies: sys_irqsetpolicy and sys_irqrmpolicy on its hook id
timer_subscribe_int(s) == s \cup {"timer"}
keyboard_subscribe_int(s) == s \cup {"keyboard"}
mouse_subscribe_int(s) == s \cup {"mouse"}
rtc_subscribe_int(s) == s \cup {"rtc"}
timer_unsubscribe_int(s) == s \ {"timer"}
keyboard_unsubscribe_int(s) == s \ {"keyboard"}
mouse_unsubscribe_int(s) == s \ {"mouse"}
rtc_unsubscribe_int(s) == s \ {"rtc"}

\* set_frame_mode: vbe_get_mode_info may fail (1); sys_privctl and
\* vm_map_phys failing end the process through panic
set_frame_mode == {"ok", "fail", "panic"}

\* set_graphic_mode: the VBE call 0x4F02 through sys_int86
set_graphic_mode == {0, 1}

\* allocate_buffers: 1 when either malloc returns NULL
allocate_buffers == {0, 1}

(* initialize_graphics: set_frame_mode, set_graphic_mode and              *)
(* allocate_buffers, stopping at the first that fails.                    *)
initialize_graphics ==
  {[ret |-> IF f = "ok" /\ g = 0 /\ a = 0 THEN 0 ELSE 1,
    abort |-> f = "panic", mapped |-> f = "ok",
    video |-> IF f = "ok" /\ g = 0 THEN "graphics" ELSE "text",
    allocated |-> f = "ok" /\ g = 0 /\ a = 0]
   : f \in set_frame_mode, g \in set_graphic_mode, a \in allocate_buffers}

(* The sprites, each the xpm_image_t global xpm_load fills: a group and an *)
(* index in it.  xpm_load is taken to succeed; an image it leaves empty    *)
(* is drawn as nothing.                                                    *)
PieceTypes == {"PAWN", "BISHOP", "KNIGHT", "QUEEN", "KING", "ROOK"}

\* load_xpm: the image of pieceType in its colour
load_xpm(s, pieceType, isWhite) == s \cup {<<pieceType, IF isWhite THEN 1 ELSE 0>>}

\* load_numbers: the digits 0..9 of the clocks, then the colon
load_numbers(s) == s \cup {<<"number", i>> : i \in 0..9} \cup {<<"two_points", 0>>}

\* load_xpm_clocks_board: the clock frame and the board
load_xpm_clocks_board(s) == s \cup {<<"clock", 0>>, <<"board", 0>>}

\* load_xpm_cursor: the default, grabbing and grab cursors
load_xpm_cursor(s) == s \cup {<<"cursor", i>> : i \in 0..2}

\* load_xpm_menu: main menu, instructions, game type, both wins, pause menu
load_xpm_menu(s) == s \cup {<<"menu", i>> : i \in 0..5}

\* load_xpm_game_background
load_xpm_game_background(s) == s \cup {<<"background", 0>>}

\* every sprite the screens draw
AllSprites ==
  load_numbers(load_xpm_clocks_board(load_xpm_cursor(load_xpm_menu(
    load_xpm_game_background({<<t, w>> : t \in PieceTypes, w \in 0..1})))))

(* setup: initialize_graphics, returning 1 when it fails; otherwise the 24 *)
(* load_xpm calls (the twelve pieces, twice), load_xpm_cursor,             *)
(* load_xpm_menu, load_xpm_game_background, load_xpm_clocks_board,         *)
(* load_numbers, and cursor_draw_start, whose cursor is MousePacket's.     *)
setup ==
  LET pieces == UNION {load_xpm({}, t, w) : t \in PieceTypes, w \in BOOLEAN}
      loaded == load_numbers(load_xpm_clocks_board(load_xpm_game_background(
                  load_xpm_menu(load_xpm_cursor(pieces)))))
  IN {[abort |-> i.abort, mapped |-> i.mapped, video |-> i.video,
       allocated |-> i.allocated, sprites |-> IF i.ret = 0 THEN loaded ELSE {}]
      : i \in initialize_graphics}

-----------------------------------------------------------------------------
Init ==
  /\ pc = "enable_mouse_report"
  /\ subscribed = {} /\ reporting = FALSE
  /\ video = "text" /\ mapped = FALSE /\ allocated = FALSE /\ sprites = {}

\* a failed call makes proj_main_loop return 1 at once
Return == pc' = "returned"

EnableMouseReport ==
  /\ pc = "enable_mouse_report"
  /\ \E r \in enable_mouse_report :
       /\ reporting' = r.on
       /\ IF r.ret = 0 THEN pc' = SubscribeOrder[1] ELSE Return
  /\ UNCHANGED <<subscribed, video, mapped, allocated, sprites>>

(* timer_subscribe_int, keyboard_subscribe_int, mouse_subscribe_int and    *)
(* rtc_subscribe_int: sys_irqsetpolicy, then the next one or setup().      *)
Subscribe(i) ==
  /\ pc = SubscribeOrder[i]
  /\ \/ /\ subscribed' = CASE i = 1 -> timer_subscribe_int(subscribed)
                             [] i = 2 -> keyboard_subscribe_int(subscribed)
                             [] i = 3 -> mouse_subscribe_int(subscribed)
                             [] i = 4 -> rtc_subscribe_int(subscribed)
        /\ pc' = IF i < 4 THEN SubscribeOrder[i + 1] ELSE "setup"
     \/ Return /\ UNCHANGED subscribed
  /\ UNCHANGED <<reporting, video, mapped, allocated, sprites>>

\* proj_main_loop calls setup() and carries on whatever it returns
Setup ==
  /\ pc = "setup"
  /\ \E s \in setup :
       /\ mapped' = s.mapped /\ video' = s.video /\ allocated' = s.allocated
       /\ sprites' = s.sprites
       /\ pc' = IF s.abort THEN "aborted" ELSE "draw_menu"
  /\ UNCHANGED <<subscribed, reporting>>

\* draw_menu and swap_buffers, then the interrupt loop
DrawMenu ==
  /\ pc = "draw_menu"
  /\ pc' = "loop"
  /\ UNCHANGED <<subscribed, reporting, video, mapped, allocated, sprites>>

\* ESC in MENU clears isRunning; the loop ends and _exit_ is called
Quit ==
  /\ pc = "loop"
  /\ pc' = "set_text_mode"
  /\ UNCHANGED <<subscribed, reporting, video, mapped, allocated, sprites>>

(* _exit_: set_text_mode, the four unsubscriptions in order and vg_exit,   *)
(* returning at the first that fails; proj_main_loop ignores its result.   *)
ExitOrder == <<"set_text_mode", "timer_off", "keyboard_off", "mouse_off", "rtc_off", "vg_exit">>

set_text_mode ==
  /\ pc = "set_text_mode"
  /\ \/ video' = "text" /\ pc' = "timer_off"
     \/ Return /\ UNCHANGED video
  /\ UNCHANGED <<subscribed, reporting, mapped, allocated, sprites>>

\* sys_irqrmpolicy for the i-th device
Unsubscribe(i) ==
  /\ pc = ExitOrder[i + 1]
  /\ \/ /\ subscribed' = CASE i = 1 -> timer_unsubscribe_int(subscribed)
                             [] i = 2 -> keyboard_unsubscribe_int(subscribed)
                             [] i = 3 -> mouse_unsubscribe_int(subscribed)
                             [] i = 4 -> rtc_unsubscribe_int(subscribed)
        /\ pc' = ExitOrder[i + 2]
     \/ Return /\ UNCHANGED subscribed
  /\ UNCHANGED <<reporting, video, mapped, allocated, sprites>>

\* vg_exit sets text mode through the BIOS again
vg_exit ==
  /\ pc = "vg_exit"
  /\ \/ video' = "text"
     \/ UNCHANGED video
  /\ Return
  /\ UNCHANGED <<subscribed, reporting, mapped, allocated, sprites>>

\* the process has ended: returned from proj_main_loop, or panicked
Ended == pc \in {"returned", "aborted"} /\ UNCHANGED vars

Next ==
  \/ EnableMouseReport
  \/ \E i \in 1..4 : Subscribe(i)
  \/ Setup \/ DrawMenu \/ Quit
  \/ set_text_mode
  \/ \E i \in 1..4 : Unsubscribe(i)
  \/ vg_exit
  \/ Ended

Spec == Init /\ [][Next]_vars

-----------------------------------------------------------------------------
TypeOK ==
  /\ pc \in {"enable_mouse_report", "setup", "draw_menu", "loop", "returned", "aborted"}
            \cup Devices \cup {ExitOrder[i] : i \in 1..6}
  /\ subscribed \subseteq Devices /\ reporting \in BOOLEAN
  /\ video \in {"text", "graphics"} /\ mapped \in BOOLEAN /\ allocated \in BOOLEAN
  /\ sprites \subseteq AllSprites

(* The program draws only once the graphics are ready: when draw_menu and  *)
(* the interrupt loop run, the frame buffer is mapped, the VBE mode set,   *)
(* both buffers allocated and every sprite loaded, whichever call of       *)
(* setup() failed.                                                         *)
GraphicsReadyBeforeDrawing ==
  pc \in {"draw_menu", "loop"} =>
    mapped /\ allocated /\ video = "graphics" /\ sprites = AllSprites

(* When the process ends it leaves the machine as it found it: no IRQ      *)
(* policy left set, the text mode back, and the mouse no longer streaming  *)
(* packets, on every path out of proj_main_loop.                           *)
ReleasedAtEnd ==
  pc = "returned" => subscribed = {} /\ video = "text" /\ ~reporting


(* The program holds the machine's devices the way a MINIX driver must:    *)
(* it draws only once setup() has made the graphics ready, and it leaves   *)
(* no interrupt policy, no graphics mode and no streaming mouse behind,    *)
(* whichever call of start-up or shut-down failed.                         *)
ResourcesManaged == GraphicsReadyBeforeDrawing /\ ReleasedAtEnd

=============================================================================
