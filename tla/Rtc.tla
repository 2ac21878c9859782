--------------------------------- MODULE Rtc ---------------------------------
(***************************************************************************)
(* rtc_get_current_date (rtc.c) against the real-time clock it reads.  The *)
(* RTC keeps the date in BCD registers (register B left as the BIOS set    *)
(* it, BCD mode) and advances them once a second.  Bit 7 of register A,    *)
(* UIP, is set about 244 microseconds before an update and stays set      *)
(* through it; the registers are stable for that long only from a poll    *)
(* that finds UIP clear, which is longer than seven register reads.        *)
(*                                                                         *)
(* The program polls UIP with update_in_progress, then reads the seconds, *)
(* minutes, hours, day, day of week, month and year registers one by one   *)
(* through read_register, each of which may fail, and converts them with   *)
(* adjust_date_values.  The RTC's update is one step, between any two of    *)
(* the program's; MaxUpdates bounds the updates.                            *)
(***************************************************************************)
EXTENDS Integers, Bitwise

CONSTANTS
  StartDates,  \* dates the RTC may hold when the call starts (decimal)
  MaxUpdates   \* bound on the RTC's updates during the call

\* the registers in the order rtc_get_current_date reads them
Fields == <<"seconds", "minutes", "hours", "day", "day_week", "month", "year">>

Reading == {Fields[i] : i \in 1..7}

\* months of 28 days or more: the model keeps the day below 28
ASSUME \A d \in StartDates : d.day < 28 /\ d.day_week \in 1..7

VARIABLES
  now,       \* the date the RTC registers hold, in decimal
  uip,       \* register A's UIP bit
  updates,   \* updates the RTC has made
  pc,        \* "poll", the field read next, "done" or "failed"
  date,      \* the current_date the call fills in
  seen       \* ghost: the dates the RTC held since the first register read

vars == <<now, uip, updates, pc, date, seen>>

\* convert_bcd_to_decimal: the high nibble times 10 plus the low nibble
convert_bcd_to_decimal(value) == (shiftR(value & 240, 4) * 10 + (value & 15)) % 256

\* convert_decimal_to_bcd: (value / 10) << 4 | value % 10, on a uint8_t
convert_decimal_to_bcd(value) == (((value \div 10) * 16) % 256) + (value % 10)

\* the two conversions agree on every two-digit value
ASSUME \A v \in 0..99 : convert_bcd_to_decimal(convert_decimal_to_bcd(v)) = v

\* adjust_date_values: every field from BCD to decimal
adjust_date_values(d) == [f \in DOMAIN d |-> convert_bcd_to_decimal(d[f])]

\* the RTC's update: one second later, with its carries
NextSecond(d) ==
  LET s == (d.seconds + 1) % 60
      m == IF s = 0 THEN (d.minutes + 1) % 60 ELSE d.minutes
      h == IF s = 0 /\ m = 0 THEN (d.hours + 1) % 24 ELSE d.hours
      midnight == s = 0 /\ m = 0 /\ h = 0
  IN [d EXCEPT !.seconds = s, !.minutes = m, !.hours = h,
               !.day = IF midnight THEN @ + 1 ELSE @,
               !.day_week = IF midnight THEN (@ % 7) + 1 ELSE @]

-----------------------------------------------------------------------------
\* the call starts; the globals of a zero current_date
Init ==
  /\ now \in StartDates /\ uip \in BOOLEAN /\ updates = 0
  /\ pc = "poll" /\ date = [f \in Reading |-> 0]
  /\ seen = {}

\* the RTC announces an update
SetUIP ==
  /\ ~uip /\ updates < MaxUpdates
  /\ uip' = TRUE
  /\ UNCHANGED <<now, updates, pc, date, seen>>

\* the RTC updates and clears UIP, at any point of the 244 microseconds
\* (and the update cycle after them) in which UIP reads as set
Update ==
  /\ uip
  /\ now' = NextSecond(now) /\ uip' = FALSE /\ updates' = updates + 1
  /\ seen' = IF pc \in Reading THEN seen \cup {now'} ELSE seen
  /\ UNCHANGED <<pc, date>>

(* The loop of rtc_get_current_date: update_in_progress reads register A; *)
(* -1 returns -1, 1 (UIP set) breaks out of the loop, and 0 polls again,   *)
(* a step that changes nothing.                                            *)
update_in_progress ==
  /\ pc = "poll"
  /\ \/ pc' = "failed" /\ UNCHANGED seen
     \/ uip /\ pc' = Fields[1] /\ seen' = {now}
  /\ UNCHANGED <<now, uip, updates, date>>

(* read_register for the i-th field: the register's BCD byte, or -1 when   *)
(* sys_outb or sys_inb fails; after the year, adjust_date_values.          *)
read_register(i) ==
  /\ pc = Fields[i]
  /\ \/ pc' = "failed" /\ UNCHANGED date
     \/ LET d == [date EXCEPT ![Fields[i]] = convert_decimal_to_bcd(now[Fields[i]])]
        IN IF i < 7 THEN pc' = Fields[i + 1] /\ date' = d
           ELSE pc' = "done" /\ date' = adjust_date_values(d)
  /\ UNCHANGED <<now, uip, updates, seen>>

\* the call has returned, or the RTC has made its last update
Ended ==
  /\ pc \in {"done", "failed"} \/ (updates = MaxUpdates /\ ~uip)
  /\ UNCHANGED vars

Next ==
  \/ SetUIP \/ Update
  \/ update_in_progress
  \/ \E i \in 1..7 : read_register(i)
  \/ Ended

Spec == Init /\ [][Next]_vars

-----------------------------------------------------------------------------
TypeOK ==
  /\ updates \in 0..MaxUpdates /\ uip \in BOOLEAN
  /\ pc \in {"poll", "done", "failed"} \cup Reading
  /\ date \in [Reading -> 0..255]

(* A date rtc_get_current_date returns is one the RTC held: all seven      *)
(* fields were read between the same two updates, not some before the      *)
(* update and some after it.                                               *)
DateConsistent == pc = "done" => date \in seen

=============================================================================
