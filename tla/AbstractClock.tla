---------------------------- MODULE AbstractClock ----------------------------
(***************************************************************************)
(* What a player clock promises: a count of tenths of a second that a      *)
(* tick event lowers by exactly one, stopping at zero.                     *)
(***************************************************************************)
EXTENDS Integers

CONSTANTS Presets

VARIABLE remaining

Init == remaining \in {p.minutes * 600 + p.seconds * 10 : p \in Presets}

Tick == remaining' = IF remaining = 0 THEN 0 ELSE remaining - 1

Spec == Init /\ [][Tick]_remaining

=============================================================================
