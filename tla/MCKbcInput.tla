------------------------------ MODULE MCKbcInput ------------------------------
EXTENDS KbcInput

\* the digit ONE: a one-byte make code 0x02 and break code 0x82
MCKeyCodes == [k \in {"ONE"} |-> [extended |-> FALSE, code |-> 2, key |-> "ONE"]]

\* a byte garbled on the wire that reads as the make code of ONE
MCGarbledBytes == {2}

\* a keyboard link without errors
MCNoErrors == {}

\* one report with the left button held
MCMovements == {[dx |-> 10, dy |-> 0, lb |-> 1, rb |-> 0]}

\* one mouse byte flagged with an error
MCMaxLost == 1

\* two reports: a byte of the first lost, the second to resynchronise
MCMaxReports == 2

=============================================================================
