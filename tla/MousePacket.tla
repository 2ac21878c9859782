---------------------------- MODULE MousePacket ----------------------------
(***************************************************************************)
(* The mouse packet path: parse_mouse_input (controller.c) calls mouse_ih, *)
(* which reads one byte with read_commands_kbc and hands it to             *)
(* parse_values (mouse.c); the third byte of a packet moves the cursor and *)
(* calls in_game_mouse_movement, and parse_mouse_input then resets         *)
(* counter_mouse.  The drag machine behind in_game_mouse_movement is       *)
(* ChessGame's; here the call is the packet it receives (lb, rb, cursor).  *)
(*                                                                         *)
(* The mouse is the environment: it sends three-byte PS/2 packets for the  *)
(* movements in Movements.  The fault is a lost byte: read_commands_kbc    *)
(* reads a byte that the status flags as a parity or timeout error, waits  *)
(* DELAY_US and, the next byte of the packet having arrived meanwhile,     *)
(* returns that one instead; at most MaxLost bytes are lost.               *)
(***************************************************************************)
EXTENDS Integers, Sequences, Bitwise

CONSTANTS
  Movements,   \* [dx, dy, lb, rb] the mouse reports, dx and dy in -255..255
  MaxLost,     \* bound on lost bytes
  MaxReports   \* bound on the reports the mouse sends

WIDTH == 800

HEIGHT == 600

VARIABLES
  counter_mouse, sync_v,
  pp,          \* struct packet mouse: lb, rb, delta_x, delta_y
  cursor,      \* cursor.position, two uint32_t
  wire,        \* bytes sent and not yet read: [b, idx (1..3 in its packet), mv]
  lost, sent,  \* bytes lost and reports sent so far
  srcs         \* ghost: the wire records of the packet being assembled

vars == <<counter_mouse, sync_v, pp, cursor, wire, lost, sent, srcs>>

\* the PS/2 packet for a movement: byte 1 has bit 3 set, the sign bits 4, 5
Encode(mv) ==
  LET b1 == mv.lb + 2 * mv.rb + 8 + (IF mv.dx < 0 THEN 16 ELSE 0)
              + (IF mv.dy < 0 THEN 32 ELSE 0)
  IN <<[b |-> b1, idx |-> 1, mv |-> mv], [b |-> mv.dx % 256, idx |-> 2, mv |-> mv],
       [b |-> mv.dy % 256, idx |-> 3, mv |-> mv]>>

\* delta |= data without the masking that follows the sign test
SignExtend_no_mask(delta, data) == delta | data

\* delta |= data, then the sign test on bit 8: the int16_t it leaves
SignExtend(delta, data) ==
  LET v == delta | data
  IN IF shiftR(v, 8) = 1 THEN (v % 256) - 256 ELSE v % 256

\* the edge tests as if cursor.position were signed
Clamp_signed(v, limit) ==
  CASE v >= limit - 20 /\ v <= limit -> 5
    [] v >= limit - 20 -> limit - 25
    [] OTHER -> v

\* x += delta_x on a uint32_t, then the two edge tests of parse_values; the
\* sum v lies in -256..1035, and a negative one wraps to 2^32 + v, above
\* every limit
Clamp(v, limit) ==
  CASE v >= limit - 20 /\ v <= limit -> 5
    [] v >= limit - 20 \/ v < 0 -> limit - 25
    [] OTHER -> v

CleanPacket == [lb |-> 0, rb |-> 0, delta_x |-> 0, delta_y |-> 0]

\* parse_values on the byte `data` with *cnt = cnt: the new counter, packet
\* and cursor, and whether the sync test returned early
parse_values(data, cnt, p, c) ==
  LET p0 == IF cnt = 0 THEN CleanPacket ELSE p
      n == cnt + 1
      p1 == CASE n = 1 -> [p0 EXCEPT !.lb = data & 1, !.rb = shiftR(data & 2, 1),
                                     !.delta_x = (data & 16) * 16,
                                     !.delta_y = (data & 32) * 8]
              [] n = 2 -> [p0 EXCEPT !.delta_x = SignExtend(@, data)]
              [] n = 3 -> [p0 EXCEPT !.delta_y = SignExtend(@, data)]
              [] OTHER -> p0
  IN IF n = 1 /\ ~sync_v /\ (data & 8) = 1
     THEN [cnt |-> 0, p |-> p0, c |-> c, sync |-> TRUE]
     ELSE [cnt |-> n, p |-> p1, sync |-> FALSE,
           c |-> IF n = 3
                 THEN [x |-> Clamp(c.x + p1.delta_x, WIDTH),
                       y |-> Clamp(c.y - p1.delta_y, HEIGHT)]
                 ELSE c]

-----------------------------------------------------------------------------
\* the globals, after cursor_draw_start
Init ==
  /\ counter_mouse = 0 /\ sync_v = FALSE /\ pp = CleanPacket
  /\ cursor = [x |-> 0, y |-> 0]
  /\ wire = <<>> /\ lost = 0 /\ sent = 0 /\ srcs = <<>>

\* the mouse reports a movement
Send(mv) ==
  /\ wire = <<>> /\ sent < MaxReports
  /\ wire' = Encode(mv) /\ sent' = sent + 1
  /\ UNCHANGED <<counter_mouse, sync_v, pp, cursor, lost, srcs>>

\* read_commands_kbc drops a byte flagged with an error for the next one
LoseByte ==
  /\ wire # <<>> /\ lost < MaxLost
  /\ wire' = Tail(wire) /\ lost' = lost + 1
  /\ UNCHANGED <<counter_mouse, sync_v, pp, cursor, sent, srcs>>

\* parse_mouse_input without its reset of counter_mouse after a packet
parse_mouse_input_no_reset ==
  /\ wire # <<>>
  /\ LET r == parse_values(Head(wire).b, counter_mouse, pp, cursor)
     IN /\ pp' = r.p /\ cursor' = r.c
        /\ sync_v' = (sync_v \/ r.sync)
        /\ counter_mouse' = r.cnt
        /\ srcs' = IF r.sync THEN <<>>
                   ELSE (IF counter_mouse = 0 THEN <<>> ELSE srcs) \o <<Head(wire)>>
  /\ wire' = Tail(wire)
  /\ UNCHANGED <<lost, sent>>

(* parse_mouse_input on the byte mouse_ih got: parse_values, then the     *)
(* reset of counter_mouse after the third byte                            *)
ParseByte(rec) ==
  LET r == parse_values(rec.b, counter_mouse, pp, cursor)
  IN /\ pp' = r.p /\ cursor' = r.c
     /\ sync_v' = (sync_v \/ r.sync)
     /\ counter_mouse' = IF r.cnt = 3 THEN 0 ELSE r.cnt
     /\ srcs' = IF r.sync THEN <<>>
                ELSE (IF counter_mouse = 0 THEN <<>> ELSE srcs) \o <<rec>>

\* one mouse interrupt: parse_mouse_input
parse_mouse_input ==
  /\ wire # <<>>
  /\ ParseByte(Head(wire))
  /\ wire' = Tail(wire)
  /\ UNCHANGED <<lost, sent>>

\* the mouse has sent its reports and every byte has been read
Done == sent = MaxReports /\ wire = <<>> /\ UNCHANGED vars

Next ==
  \/ Done
  \/ \E mv \in Movements : Send(mv)
  \/ LoseByte
  \/ parse_mouse_input

\* every byte the KBC holds raises an interrupt that main's loop serves
Spec == Init /\ [][Next]_vars /\ WF_vars(parse_mouse_input)

-----------------------------------------------------------------------------
TypeOK ==
  /\ counter_mouse \in 0..2 /\ sync_v \in BOOLEAN
  /\ pp \in [lb : {0, 1}, rb : {0, 1}, delta_x : -256..256, delta_y : -256..256]
  /\ cursor \in [x : Nat, y : Nat] /\ lost \in 0..MaxLost

\* the packet just completed was assembled from bytes 1, 2, 3 of one report
Aligned ==
  /\ counter_mouse = 0 /\ Len(srcs) = 3
  /\ \A i \in 1..3 : srcs[i].idx = i /\ srcs[i].mv = srcs[1].mv

(* The cursor stays on the screen: whatever the packets say, the unsigned   *)
(* update and the two edge tests of parse_values keep cursor.position       *)
(* inside [0, WIDTH-20) x [0, HEIGHT-20), where draw_cursor_mouse and the   *)
(* square arithmetic of the COMPLETE state expect it.                       *)
CursorInScreen ==
  cursor.x \in 0..WIDTH - 21 /\ cursor.y \in 0..HEIGHT - 21

(* A packet assembled from one report carries that report: parse_values     *)
(* rebuilds the 9-bit two's-complement deltas from the sign bits of byte 1  *)
(* and bytes 2 and 3, and the button bits from byte 1.                      *)
AlignedPacketDecoded ==
  Aligned => LET mv == srcs[1].mv
             IN pp = [lb |-> mv.lb, rb |-> mv.rb, delta_x |-> mv.dx, delta_y |-> mv.dy]

(* Every packet starts at a report's first byte, the one with bit 3 set: *)
(* the test parse_values makes on the first byte of a packet (the SYNC    *)
(* bit) keeps a shifted byte stream from being assembled into packets.    *)
PacketStartsWithSync ==
  (counter_mouse # 0 \/ Len(srcs) = 3) => (srcs[1].b & 8) = 8

=============================================================================
