-------------------------- MODULE KeyboardDecoder --------------------------
(***************************************************************************)
(* The scancode path of the keyboard: receive_keyboard_scan and            *)
(* clean_scan_info (keyboard.c) filling the global scan_info, and the      *)
(* decoding half of parse_keyboard_input (controller.c) that sets          *)
(* key_pressed and calls router().                                         *)
(*                                                                         *)
(* The keyboard is the environment: the user presses, holds (typematic     *)
(* repeat) and releases keys, and each key sends its make or break bytes   *)
(* one interrupt per byte.  scan_info.bytes has two entries; a write past  *)
(* them is undefined behaviour (it lands in whatever the linker put after  *)
(* scan_info), after which the model claims nothing and halts.             *)
(*                                                                         *)
(* The link is unreliable: the KBC may flag a byte with a parity or        *)
(* timeout error (status bits 7 and 6), and the byte it then holds is not  *)
(* the one the keyboard sent; here it is any byte some key can send.       *)
(***************************************************************************)
EXTENDS Integers, Sequences, Bitwise

CONSTANTS
  KeyCodes,     \* key -> [extended, code (its make code), key (the key_pressed it stands for)]
  GarbledBytes  \* what OUT_SCANCODES may hold when the KBC flags an error

VARIABLES
  scancode,     \* the global byte kbc_ih reads into
  size_counter, make_code, bytes,   \* struct scancode_info scan_info
  key_pressed,
  pending,      \* bytes of the current code not yet delivered
  held,         \* keys the user holds down
  routed,       \* ghost: the key router() ran with on the last byte, or ""
  sending,      \* ghost: <<key, is a release>> whose bytes are pending
  overflow,     \* ghost: the last byte was written outside bytes[]
  errored       \* ghost: the KBC flagged the last byte with an error

vars == <<scancode, errored, size_counter, make_code, bytes, key_pressed, pending, held, routed, sending, overflow>>

E0 == 224

ESC_BREAK_CODE == 129

\* status register bits (i8042.h)
OUT_BUFF_FULL == 1

KEYBOARD_STATUS_ERRORS == 192   \* PARITY_ERROR | TIMEOUT_ERROR

Keys == DOMAIN KeyCodes

\* the bytes a key sends when pressed or released (bit 7 set on release)
Code(k, release) ==
  LET c == KeyCodes[k].code + (IF release THEN 128 ELSE 0)
  IN IF KeyCodes[k].extended THEN <<E0, c>> ELSE <<c>>

\* the first switch of parse_keyboard_input, on bytes[0]
DecodeSingle(b, key) ==
  CASE b = 17 -> "ARROW_UP"   [] b = 31 -> "ARROW_DOWN"
    [] b = 30 -> "ARROW_LEFT" [] b = 32 -> "ARROW_RIGHT"
    [] b \in 2..7 -> <<"ONE", "TWO", "THREE", "FOUR", "FIVE", "SIX">>[b - 1]
    [] b = ESC_BREAK_CODE -> "ESC"
    [] OTHER -> key

\* the second switch, on bytes[1], meant for E0-prefixed codes
DecodeExtended(b, key) ==
  CASE b = 72 -> "ARROW_UP"   [] b = 80 -> "ARROW_DOWN"
    [] b = 75 -> "ARROW_LEFT" [] b = 77 -> "ARROW_RIGHT"
    [] b = 28 -> "ENTER"
    [] OTHER -> key

\* clean_scan_info with the reset of size_counter left out
Clean_size_kept(s) == [s EXCEPT !.bytes = [i \in {0, 1} |-> IF i < s.size THEN 0 ELSE @[i]],
                                !.make = FALSE, !.oob = s.oob \/ s.size > 2]

\* clean_scan_info: zero bytes[0 .. size_counter-1], then reset
Clean(s) == [s EXCEPT !.bytes = [i \in {0, 1} |-> IF i < s.size THEN 0 ELSE @[i]],
                      !.size = 0, !.make = FALSE, !.oob = s.oob \/ s.size > 2]

\* receive_keyboard_scan(&scan_info, &sc): the new scan_info and its result
Receive(s, sc) ==
  IF sc = ESC_BREAK_CODE
  THEN [scan |-> Clean([s EXCEPT !.make = FALSE, !.size = 1, !.bytes[0] = sc]), valid |-> FALSE]
  ELSE IF sc = E0
  THEN [scan |-> [s EXCEPT !.bytes[0] = sc, !.size = (@ + 1) % 256], valid |-> TRUE]
  ELSE LET s1 == [s EXCEPT !.make = (shiftR(sc, 7) & 1) = 0,
                           !.bytes = IF s.size < 2 THEN [@ EXCEPT ![s.size] = sc] ELSE @,
                           !.oob = s.size >= 2,
                           !.size = (@ + 1) % 256]
       IN [scan |-> IF s1.make THEN s1 ELSE Clean(s1), valid |-> TRUE]

\* the status byte the KBC shows with a byte in its output buffer
Status(err) == OUT_BUFF_FULL + (IF err THEN 128 ELSE 0)

(* kbc_ih: read the status (its result ignored), read OUT_SCANCODES into   *)
(* scancode when the buffer is full, and overwrite it with -1 (0xFF) on an *)
(* error.  Both tests compare a masked byte with 1, so the error test, on   *)
(* bits 6 and 7, never holds.                                              *)
kbc_ih(st, data, old) ==
  LET sc == IF (st & OUT_BUFF_FULL) = 1 THEN data ELSE old
  IN IF (st & KEYBOARD_STATUS_ERRORS) = 1 THEN 255 ELSE sc

ScanInfo == [size |-> size_counter, make |-> make_code, bytes |-> bytes, oob |-> FALSE]

-----------------------------------------------------------------------------
Init ==
  /\ size_counter = 0 /\ make_code = FALSE /\ bytes = [i \in {0, 1} |-> 0]
  /\ key_pressed = "NOKEY" /\ pending = <<>> /\ held = {}
  /\ routed = "" /\ sending = <<"", FALSE>> /\ overflow = FALSE
  /\ scancode = 0 /\ errored = FALSE

\* the user presses a key, or holds it and the keyboard repeats its make code
Press(k) ==
  /\ pending = <<>> /\ pending' = Code(k, FALSE) /\ held' = held \cup {k}
  /\ sending' = <<k, FALSE>>
  /\ UNCHANGED <<scancode, errored, size_counter, make_code, bytes, key_pressed, routed, overflow>>

Release(k) ==
  /\ pending = <<>> /\ k \in held
  /\ pending' = Code(k, TRUE) /\ held' = held \ {k}
  /\ sending' = <<k, TRUE>>
  /\ UNCHANGED <<scancode, errored, size_counter, make_code, bytes, key_pressed, routed, overflow>>

(* one keyboard interrupt: main has seen OUT_BUFF_FULL without AUX, and   *)
(* parse_keyboard_input runs kbc_ih on the next byte, or on a byte the KBC *)
(* flagged with an error                                                   *)
ParseKeyboardInput ==
  /\ pending # <<>>
  /\ \E err \in BOOLEAN :
     \E data \in IF err THEN GarbledBytes ELSE {Head(pending)} :
     LET sc == kbc_ih(Status(err), data, scancode)
         r == Receive(ScanInfo, sc)
         s == r.scan
         key == IF ~r.valid THEN "ESC"
                ELSE IF s.size = 1 THEN DecodeSingle(s.bytes[0], key_pressed)
                ELSE DecodeExtended(s.bytes[1], key_pressed)
     IN /\ scancode' = sc /\ errored' = err
        /\ size_counter' = s.size /\ make_code' = s.make /\ bytes' = s.bytes
        /\ overflow' = s.oob
        /\ key_pressed' = key
        /\ routed' = IF r.valid THEN key ELSE ""
  /\ pending' = Tail(pending)
  /\ UNCHANGED <<held, sending>>

\* after a write outside scan_info.bytes nothing more is claimed
Halted == overflow /\ UNCHANGED vars

Next ==
  \/ /\ ~overflow
     /\ \/ \E k \in Keys : Press(k) \/ Release(k)
        \/ ParseKeyboardInput
  \/ Halted

Spec == Init /\ [][Next]_vars

-----------------------------------------------------------------------------
\* the last byte delivered completed the make code of key k
MadeKey(k) == pending = <<>> /\ sending = <<k, FALSE>> /\ routed # ""

(* Between keystrokes the decoder is idle: once every key is released and   *)
(* its last byte parsed, receive_keyboard_scan and clean_scan_info have     *)
(* brought size_counter back to 0, so the next code starts at bytes[0].     *)
DecoderIdleBetweenKeys ==
  (pending = <<>> /\ held = {} /\ ~overflow) => size_counter = 0

(* Every write of receive_keyboard_scan and clean_scan_info stays inside    *)
(* scan_info.bytes, whatever keys the user presses, holds and releases.     *)
BytesInBounds == ~overflow

(* Pressing a key the controller decodes makes router() run with that key:  *)
(* when the last byte of its make code is parsed, key_pressed is the key.   *)
KeyPressRoutesKey ==
  \A k \in Keys : MadeKey(k) /\ KeyCodes[k].key # "" => routed = KeyCodes[k].key

(* A byte the KBC flags with a parity or timeout error is discarded, as    *)
(* kbc_ih means to do by replacing it with 0xFF: it never leaves scan_info  *)
(* holding a make code.                                                     *)
ErrorNeverMakesKey == errored => ~make_code

(* Every keystroke is decoded: whatever keys the user presses, holds and    *)
(* releases, the last byte of a make code routes router() with that key,   *)
(* no write of receive_keyboard_scan or clean_scan_info leaves              *)
(* scan_info.bytes on the way, and a byte the KBC flags as erroneous makes  *)
(* no key.                                                                  *)
KeystrokesDecoded == BytesInBounds /\ KeyPressRoutesKey /\ ErrorNeverMakesKey

========================================================================
