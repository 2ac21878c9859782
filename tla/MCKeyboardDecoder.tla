------------------------- MODULE MCKeyboardDecoder -------------------------
EXTENDS KeyboardDecoder

(* Four keys, one of each kind the decoder treats differently: a digit and *)
(* a letter (single-byte codes of the first switch), an arrow (E0-prefixed *)
(* code of the second switch) and ESC, whose make code no switch maps and   *)
(* whose break code receive_keyboard_scan handles apart (i8042.h codes).   *)
MCKeyCodes ==
  [k \in {"ONE", "S", "UP", "ESC"} |->
     CASE k = "ONE" -> [extended |-> FALSE, code |-> 2, key |-> "ONE"]
       [] k = "S"   -> [extended |-> FALSE, code |-> 31, key |-> "ARROW_DOWN"]
       [] k = "UP"  -> [extended |-> TRUE, code |-> 72, key |-> "ARROW_UP"]
       [] k = "ESC" -> [extended |-> FALSE, code |-> 1, key |-> ""]]

(* A byte garbled on the wire that reads as the make code of ONE.          *)
MCGarbledBytes == {2}

\* a link without errors
MCNoErrors == {}

=============================================================================
