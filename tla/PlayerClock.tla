----------------------------- MODULE PlayerClock -----------------------------
(***************************************************************************)
(* Player Clock: one player's struct Clock and the countdown that          *)
(* decrease_player_timer (src/proj/src/mvc/controller/controller.c)        *)
(* applies to it once per tick event while the game is on screen.  The     *)
(* days and hours fields are always 0 and never read, so they are left     *)
(* out.  A tick event is every 6th timer interrupt (main.c: counter % 6).  *)
(***************************************************************************)
EXTENDS Integers, FiniteSets

CONSTANTS
  Presets   \* the [minutes, seconds] a new game may start a clock with

VARIABLE clock

\* initClock (game.c): the tenths start at 0
initClock(minutes, seconds) ==
  [minutes |-> minutes, seconds |-> seconds, a_tenth_of_a_second |-> 0]

(* Slips a hand-written borrow chain is prone to, as variants of decrease: *)
(* a second borrowed as 60, a minute never taken, the last tenth kept.    *)
decrease_sec60(c) ==
  LET t == c.a_tenth_of_a_second - 1
  IN CASE t > 0 -> [c EXCEPT !.a_tenth_of_a_second = t]
       [] c.seconds = 0 /\ c.minutes = 0 -> [c EXCEPT !.a_tenth_of_a_second = 0]
       [] c.seconds = 0 /\ c.minutes > 0 ->
            [minutes |-> c.minutes - 1, seconds |-> 60, a_tenth_of_a_second |-> 9]
       [] OTHER -> [c EXCEPT !.seconds = @ - 1, !.a_tenth_of_a_second = 9]

decrease_no_minute_borrow(c) ==
  LET t == c.a_tenth_of_a_second - 1
  IN CASE t > 0 -> [c EXCEPT !.a_tenth_of_a_second = t]
       [] c.seconds = 0 /\ c.minutes = 0 -> [c EXCEPT !.a_tenth_of_a_second = 0]
       [] c.seconds = 0 -> [c EXCEPT !.seconds = 59, !.a_tenth_of_a_second = 9]
       [] OTHER -> [c EXCEPT !.seconds = @ - 1, !.a_tenth_of_a_second = 9]

decrease_last_tenth_kept(c) ==
  LET t == c.a_tenth_of_a_second - 1
  IN CASE t > 0 -> [c EXCEPT !.a_tenth_of_a_second = t]
       [] c.seconds = 0 /\ c.minutes = 0 -> c
       [] c.seconds = 0 /\ c.minutes > 0 ->
            [minutes |-> c.minutes - 1, seconds |-> 59, a_tenth_of_a_second |-> 9]
       [] c.seconds = 0 -> [c EXCEPT !.seconds = 0, !.a_tenth_of_a_second = 9]
       [] OTHER -> [c EXCEPT !.seconds = @ - 1, !.a_tenth_of_a_second = 9]

\* one branch of decrease_player_timer: tenths first, then the borrow chain
decrease(c) ==
  LET t == c.a_tenth_of_a_second - 1
  IN CASE t > 0 -> [c EXCEPT !.a_tenth_of_a_second = t]
       [] c.seconds = 0 /\ c.minutes = 0 -> [c EXCEPT !.a_tenth_of_a_second = 0]
       [] c.seconds = 0 /\ c.minutes > 0 ->
            [minutes |-> c.minutes - 1, seconds |-> 59, a_tenth_of_a_second |-> 9]
       [] c.seconds = 0 -> [c EXCEPT !.seconds = 0, !.a_tenth_of_a_second = 9]
       [] OTHER -> [c EXCEPT !.seconds = @ - 1, !.a_tenth_of_a_second = 9]

\* the test game_loop uses to declare a player out of time
Expired(c) == c.minutes = 0 /\ c.seconds = 0 /\ c.a_tenth_of_a_second = 0

\* the time the clock shows, in tenths of a second
Remaining(c) == c.minutes * 600 + c.seconds * 10 + c.a_tenth_of_a_second

(* The clock face (view.c, graphic.c): each sprite drawn is its x on the  *)
(* screen and the sprite, named as Lifecycle loads them.  The pixel loops  *)
(* are left out.                                                           *)

\* draw_number: the digit's sprite for 0..9; any other number returns 1
\* and draws nothing
draw_number(x, number) ==
  IF number \in 0..9 THEN {<<x, <<"number", number>>>>} ELSE {}

\* draw_two_points: the colon between minutes and seconds
draw_two_points(x) == {<<x, <<"two_points", 0>>>>}

\* draw_clockValue with the tens of the seconds drawn where the units go
draw_clockValue_swapped(c) ==
  draw_number(670, c.minutes \div 10) \cup draw_number(695, c.minutes % 10)
  \cup draw_two_points(720)
  \cup draw_number(745, c.seconds % 10) \cup draw_number(770, c.seconds \div 10)

\* draw_clockValue for one player: MM:SS, the tenths not shown
draw_clockValue(c) ==
  draw_number(670, c.minutes \div 10) \cup draw_number(695, c.minutes % 10)
  \cup draw_two_points(720)
  \cup draw_number(745, c.seconds \div 10) \cup draw_number(770, c.seconds % 10)

Init == clock \in {initClock(p.minutes, p.seconds) : p \in Presets}

Tick == clock' = decrease(clock)

\* the timer interrupt keeps firing at a fixed rate while a game is shown
Spec == Init /\ [][Tick]_clock /\ WF_clock(Tick)

-----------------------------------------------------------------------------
TypeOK ==
  clock \in [minutes : Nat, seconds : 0..59, a_tenth_of_a_second : 0..9]

(* The countdown never gives time back: the time shown by a clock never    *)
(* grows from one tick to the next, through every borrow of                *)
(* decrease_player_timer.                                                  *)
ClockNeverIncreases == [][Remaining(clock') <= Remaining(clock)]_clock

(* Every clock eventually shows exactly 0:00.0 and stays there, which is   *)
(* the only value game_loop recognises as out of time: the clamp in        *)
(* decrease_player_timer must stop the countdown at zero, not below or     *)
(* above it.                                                               *)
ClockRunsOut == <>[]Expired(clock)

(* The face game_loop draws reads as the clock: one digit at each of the  *)
(* four digit places and the colon between them, and read as MM:SS they   *)
(* are the minutes and seconds left, at every tick of every preset.       *)
FaceShowsClock ==
  LET face == draw_clockValue(clock)
      digit(x) == {d[2][2] : d \in {e \in face : e[1] = x /\ e[2][1] = "number"}}
  IN /\ <<720, <<"two_points", 0>>>> \in face
     /\ \E m1 \in digit(670), m2 \in digit(695), s1 \in digit(745), s2 \in digit(770) :
          /\ Cardinality(face) = 5
          /\ m1 * 10 + m2 = clock.minutes /\ s1 * 10 + s2 = clock.seconds

(* The clock component promises one tenth of a second per tick event      *)
(* (spec 4.5, 6): it implements AbstractClock under the mapping of the    *)
(* shown time to a number of tenths.                                       *)
Abstract == INSTANCE AbstractClock WITH remaining <- Remaining(clock)

AbstractSpec == Abstract!Spec

=============================================================================
