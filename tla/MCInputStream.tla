--------------------------- MODULE MCInputStream ---------------------------
(***************************************************************************)
(* A keyboard with a digit of its upper row, which Shift changes, the same *)
(* digit of its keypad, which Shift makes a named key, and Shift, whose    *)
(* packet the desktop cannot read; and a mouse with its left button.       *)
(***************************************************************************)
EXTENDS InputStream, TLC

CONSTANTS digit, keypad, shift

MCNamedKeys == {"Shift", "End"}
MCVisibleChars == {"1", "!"}
MCOtherChars == {}

MCPlain == digit :> "1" @@ keypad :> "1" @@ shift :> "Shift"
MCShifted == digit :> "!" @@ keypad :> "End" @@ shift :> "Shift"
=============================================================================
