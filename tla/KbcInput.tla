------------------------------ MODULE KbcInput ------------------------------
(***************************************************************************)
(* The keyboard and the mouse share one i8042 controller (KBC) and its     *)
(* one-byte output buffer.  main.c's loop reads the status byte on either  *)
(* interrupt and, the buffer being full, calls parse_mouse_input when the  *)
(* AUX bit says the byte is the mouse's and parse_keyboard_input otherwise *)
(* (KeyboardDecoder and MousePacket, composed here).                       *)
(*                                                                         *)
(* The two paths meet in read_commands_kbc (kbc.c), mouse_ih's read.  A    *)
(* mouse byte flagged with a parity or timeout error is read and dropped,  *)
(* and the loop polls again after DELAY_US, up to five times, reading      *)
(* whatever the KBC holds by then.  A keyboard byte (AUX clear) is read    *)
(* and dropped as well; if no mouse byte follows, the loop ends with that  *)
(* keyboard byte in `data`, and mouse_ih, ignoring the result, hands it to *)
(* parse_values.  The bytes of the two devices reach the buffer in any     *)
(* order: the two queues of the components, served in any order.           *)
(***************************************************************************)
EXTENDS Integers, Sequences

CONSTANTS KeyCodes, GarbledBytes, Movements, MaxLost, MaxReports

VARIABLES
  scancode, size_counter, make_code, bytes, key_pressed,   \* keyboard.c
  pending, held, routed, sending, overflow, errored,
  counter_mouse, sync_v, pp, cursor,                       \* mouse.c
  wire, lost, sent, srcs,
  taken   \* ghost: keyboard bytes read by the mouse handler

kvars == <<scancode, size_counter, make_code, bytes, key_pressed,
           pending, held, routed, sending, overflow, errored>>

mvars == <<counter_mouse, sync_v, pp, cursor, wire, lost, sent, srcs>>

vars == <<kvars, mvars, taken>>

K == INSTANCE KeyboardDecoder

M == INSTANCE MousePacket

\* the record of a keyboard byte handed to parse_values: it is no report's
KeyByte(b) == [b |-> b, idx |-> 0, mv |-> [dx |-> 0, dy |-> 0, lb |-> 0, rb |-> 0]]

-----------------------------------------------------------------------------
Init == K!Init /\ M!Init /\ taken = 0

Keyboard ==
  /\ ~overflow
  /\ \/ \E k \in K!Keys : K!Press(k) \/ K!Release(k)
     \/ K!ParseKeyboardInput
  /\ UNCHANGED <<mvars, taken>>

Mouse ==
  /\ \/ \E mv \in Movements : M!Send(mv)
     \/ M!LoseByte
     \/ M!parse_mouse_input
  /\ UNCHANGED <<kvars, taken>>

(* mouse_ih on a mouse byte flagged with an error, a keyboard byte reaching *)
(* the buffer during the DELAY_US wait: read_commands_kbc reads and drops   *)
(* it (AUX clear), then returns the next mouse byte, or, none arriving in   *)
(* its remaining polls, leaves the keyboard byte in data for parse_values.  *)
read_commands_kbc ==
  /\ ~overflow
  /\ wire # <<>> /\ pending # <<>> /\ lost < MaxLost
  /\ \/ /\ Len(wire) >= 2
        /\ M!ParseByte(wire[2])
        /\ wire' = Tail(Tail(wire))
     \/ /\ M!ParseByte(KeyByte(Head(pending)))
        /\ wire' = Tail(wire)
  /\ pending' = Tail(pending) /\ lost' = lost + 1 /\ taken' = taken + 1
  /\ UNCHANGED <<scancode, size_counter, make_code, bytes, key_pressed,
                 held, routed, sending, overflow, errored, sent>>

\* both devices are done, or a write outside scan_info.bytes ended the claims
Stop ==
  /\ overflow \/ (sent = MaxReports /\ wire = <<>> /\ pending = <<>>)
  /\ UNCHANGED vars

Next == Keyboard \/ Mouse \/ read_commands_kbc \/ Stop

Spec == Init /\ [][Next]_vars

-----------------------------------------------------------------------------
(* Every byte of the keyboard reaches kbc_ih: once every key is released   *)
(* and the last byte is read, scan_info is idle again, size_counter 0, so  *)
(* the next key starts at bytes[0].  The mouse handler's retry must not    *)
(* take a break code on its way.                                           *)
KeyboardIdleBetweenKeys == K!DecoderIdleBetweenKeys

(* The input devices are decoded (spec 6: the core consumes decoded key and *)
(* mouse events): every keystroke routes its key and stays inside          *)
(* scan_info.bytes, an errored byte makes no key, the decoder is idle       *)
(* between keystrokes whatever the mouse handler reads, and every mouse     *)
(* packet starts at the byte with the SYNC bit.                            *)
InputsDecoded ==
  /\ K!KeystrokesDecoded
  /\ KeyboardIdleBetweenKeys
  /\ M!PacketStartsWithSync

=============================================================================
