---------------------------- MODULE MCPlayerClock ----------------------------
EXTENDS PlayerClock

\* the five presets of the NEW_GAME menu (router, controller.c)
MCPresets ==
  {[minutes |-> 1, seconds |-> 0], [minutes |-> 5, seconds |-> 0],
   [minutes |-> 10, seconds |-> 0], [minutes |-> 30, seconds |-> 0],
   [minutes |-> 59, seconds |-> 58]}

=============================================================================
