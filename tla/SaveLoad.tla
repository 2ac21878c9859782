------------------------------ MODULE SaveLoad ------------------------------
(***************************************************************************)
(* The save of the pause menu and the time debit of LOAD_GAME (router,     *)
(* controller.c), composed with the two calls of rtc_get_current_date they *)
(* make: one into the global dt when PAUSE_MENU takes key TWO, one into    *)
(* LOAD_GAME's local dt2 when MENU later takes key TWO.  Each call is an   *)
(* instance of Rtc over its own variables; the RTC itself (now, uip) is    *)
(* shared, and between the two calls the real time moves on by one of the  *)
(* Gaps.  The debit of the player's clock itself is ChessGame's `debit`;   *)
(* here LOAD_GAME's result is the number of seconds it debits.             *)
(***************************************************************************)
EXTENDS Integers

CONSTANTS
  StartDates,  \* dates the RTC may hold when the save is made
  MaxUpdates,  \* bound on the RTC's updates during each call
  Gaps,        \* seconds of real time between the save and the load
  Junk         \* byte values an uninitialised dt2 field may hold

VARIABLES
  now, uip,
  supd, spc, dt, sseen,     \* the save's call, into the global dt
  lupd, lpc, dt2, lseen,    \* LOAD_GAME's call, into the local dt2
  flow,      \* "PAUSE_MENU", "MENU", "LOAD_GAME" or "GAME"
  debited    \* seconds LOAD_GAME debits, -1 before it runs

save == <<supd, spc, dt, sseen>>

load == <<lupd, lpc, dt2, lseen>>

vars == <<now, uip, save, load, flow, debited>>

RS == INSTANCE Rtc WITH updates <- supd, pc <- spc, date <- dt, seen <- sseen

RL == INSTANCE Rtc WITH updates <- lupd, pc <- lpc, date <- dt2, seen <- lseen

\* the seconds of the day LOAD_GAME computes from a date's three fields
TotalSeconds(d) == d.hours * 3600 + d.minutes * 60 + d.seconds

\* diff_seconds: end minus start, a day added when negative
diff_seconds(start, end) ==
  LET diff == TotalSeconds(end) - TotalSeconds(start)
  IN IF diff < 0 THEN diff + 24 * 3600 ELSE diff

\* the RTC g seconds on, with the carry into the day
Later(d, g) ==
  LET t == TotalSeconds(d) + g
      days == t \div 86400
      r == t % 86400
  IN [d EXCEPT !.hours = r \div 3600, !.minutes = (r % 3600) \div 60,
               !.seconds = r % 60, !.day = @ + days,
               !.day_week = ((@ - 1 + days) % 7) + 1]

\* LOAD_GAME's guard: every field of dt it tests is non-zero
dtSet == \A f \in {"day", "month", "year", "hours", "minutes", "seconds"} : dt[f] # 0

-----------------------------------------------------------------------------
\* the game is paused; dt is the zero date the globals start with
Init ==
  /\ now \in StartDates /\ uip \in BOOLEAN
  /\ supd = 0 /\ spc = "idle" /\ dt = [f \in RS!Reading |-> 0] /\ sseen = {}
  /\ lupd = 0 /\ lpc = "idle" /\ dt2 = [f \in RS!Reading |-> 0] /\ lseen = {}
  /\ flow = "PAUSE_MENU" /\ debited = -1

\* PAUSE_MENU, key TWO: rtc_get_current_date(&dt) starts; after a failed
\* call router has returned with the key still TWO, and runs it again
PressTwo ==
  /\ flow = "PAUSE_MENU" /\ spc \in {"idle", "failed"}
  /\ spc' = "poll"
  /\ UNCHANGED <<now, uip, supd, dt, sseen, load, flow, debited>>

\* a step of the save's call, or of the RTC during it
SaveCall ==
  /\ spc \in {"poll"} \cup RS!Reading
  /\ \/ RS!SetUIP \/ RS!Update \/ RS!update_in_progress
     \/ \E i \in 1..7 : RS!read_register(i)
  /\ UNCHANGED <<load, flow, debited>>

(* the call returned 0: fopen either fails (printf, break: still paused,   *)
(* dt kept) or the date is written and the flow goes to MENU               *)
fopen ==
  /\ flow = "PAUSE_MENU" /\ spc = "done"
  /\ \/ spc' = "idle" /\ UNCHANGED flow
     \/ flow' = "MENU" /\ UNCHANGED spc
  /\ UNCHANGED <<now, uip, supd, dt, sseen, load, debited>>

\* the real time between the save and the load
Elapse ==
  /\ flow = "MENU"
  /\ \E g \in Gaps : now' = Later(now, g)
  /\ uip' \in BOOLEAN
  /\ flow' = "LOAD_GAME"
  /\ UNCHANGED <<save, load, debited>>

(* LOAD_GAME with a game started: GAME, and, only when dt's fields are all *)
(* non-zero, rtc_get_current_date(&dt2) on an uninitialised dt2           *)
LoadGame ==
  /\ flow = "LOAD_GAME"
  /\ flow' = "GAME"
  /\ IF dtSet
       THEN /\ lpc' = "poll" /\ dt2' \in {[f \in RS!Reading |-> v] : v \in Junk}
            /\ UNCHANGED <<debited, lseen>>
       ELSE /\ debited' = 0 /\ lseen' = {now}   \* ghost: the time of the load
            /\ UNCHANGED <<lpc, dt2>>
  /\ UNCHANGED <<now, uip, save, lupd>>

\* a step of LOAD_GAME's call, or of the RTC during it
LoadCall ==
  /\ lpc \in {"poll"} \cup RS!Reading
  /\ \/ RL!SetUIP \/ RL!Update \/ RL!update_in_progress
     \/ \E i \in 1..7 : RL!read_register(i)
  /\ UNCHANGED <<save, flow, debited>>

\* the call has returned, its result unread: the seconds from dt to dt2
Debit ==
  /\ lpc \in {"done", "failed"} /\ debited = -1
  /\ debited' = diff_seconds(dt, dt2)
  /\ UNCHANGED <<now, uip, save, load, flow>>

\* the load is over, or a call waits on an RTC that has made its updates
Done ==
  /\ \/ flow = "GAME" /\ debited # -1
     \/ spc = "poll" /\ supd = MaxUpdates /\ ~uip
     \/ lpc = "poll" /\ lupd = MaxUpdates /\ ~uip
  /\ UNCHANGED vars

Next == PressTwo \/ SaveCall \/ fopen \/ Elapse \/ LoadGame \/ LoadCall \/ Debit \/ Done

Spec == Init /\ [][Next]_vars

-----------------------------------------------------------------------------
(* The save records a date the RTC held (rtc_get_current_date's seven      *)
(* register reads between two of the RTC's updates).                       *)
SaveDateConsistent == RS!DateConsistent

(* LOAD_GAME debits the real time elapsed since the save (spec,           *)
(* Persistence): the seconds it debits are those from a date the RTC held *)
(* while the save read it to one it held at the load, modulo a day.        *)
ElapsedDebited ==
  debited # -1 => \E a \in sseen, b \in lseen : debited = diff_seconds(a, b)

(* The time kept across a save (spec, Persistence): the saved date is one *)
(* the RTC held, and the load debits the time since.                       *)
TimeKeptAcrossSave == SaveDateConsistent /\ ElapsedDebited

=============================================================================
