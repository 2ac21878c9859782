--------------------------- MODULE MCMousePacket ---------------------------
EXTENDS MousePacket

(* Three reports: a large step right, a left-and-down step with the left    *)
(* button held, and a small step right and up that lands the cursor in the  *)
(* 20-pixel band at each screen edge.                                       *)
MCMovements ==
  { [dx |-> 150, dy |-> 0, lb |-> 0, rb |-> 0],
    [dx |-> -100, dy |-> -125, lb |-> 1, rb |-> 0],
    [dx |-> 25, dy |-> 25, lb |-> 0, rb |-> 1] }

\* one lost byte is enough to shift every later packet
MCMaxLost == 1

\* three reports: the one that loses a byte and two after it
MCMaxReports == 3

=============================================================================
