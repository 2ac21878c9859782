----------------------------------- MODULE MCRtc -----------------------------------
EXTENDS Rtc

\* a second before a minute, an hour and a day roll over
MCStartDates ==
  {[seconds |-> 59, minutes |-> 30, hours |-> 14, day |-> 9, day_week |-> 3, month |-> 6, year |-> 24],
   [seconds |-> 59, minutes |-> 59, hours |-> 11, day |-> 9, day_week |-> 3, month |-> 6, year |-> 24],
   [seconds |-> 59, minutes |-> 59, hours |-> 23, day |-> 9, day_week |-> 7, month |-> 6, year |-> 24]}

MCMaxUpdates == 2

=============================================================================
