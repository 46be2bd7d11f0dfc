---------------------------- MODULE InputPackets ----------------------------
(***************************************************************************)
(* What becomes of a key, a button or a pointer position between the       *)
(* browser (egg/src/input.ts), the packet (hammeregg_core) and Enigo       *)
(* (hammeregg_backend/src/input.rs).                                       *)
(*                                                                         *)
(* A browser names a key by a string: its character, or a name such as     *)
(* Enter or ArrowLeft, which begins with a capital letter.                 *)
(*                                                                         *)
(* A definition F_Change is F with a plausible mistake in it, used by no   *)
(* action.                                                                 *)
(***************************************************************************)
EXTENDS Integers

CONSTANTS
    NamedKeys,      \* key values longer than one character
    VisibleChars,   \* the characters from ! to ~
    OtherChars      \* the other characters; the space bar's value is one

ASSUME KeyValuesDiffer ==
    /\ NamedKeys \cap (VisibleChars \cup OtherChars) = {}
    /\ VisibleChars \cap OtherChars = {}

KeyValues == NamedKeys \cup VisibleChars \cup OtherChars

SpecialKeyInput ==
    {"Alt", "Backspace", "CapsLock", "Control", "Delete", "DownArrow", "End",
     "Escape", "F1", "F10", "F11", "F12", "F2", "F3", "F4", "F5", "F6", "F7",
     "F8", "F9", "Home", "LeftArrow", "Meta", "Option", "PageDown", "PageUp",
     "Return", "RightArrow", "Shift", "Space", "Tab", "UpArrow"}

BrowserKey(special) ==
    CASE special = "DownArrow"  -> "ArrowDown"
      [] special = "LeftArrow"  -> "ArrowLeft"
      [] special = "RightArrow" -> "ArrowRight"
      [] special = "UpArrow"    -> "ArrowUp"
      [] special = "Return"     -> "Enter"
      [] special = "Space"      -> " "
      [] OTHER                  -> special

BrowserKeys == {BrowserKey(s) : s \in SpecialKeyInput}

BROWSER2ENIGO == [b \in BrowserKeys |-> CHOOSE s \in SpecialKeyInput : BrowserKey(s) = b]

\* KeyInput, or a button, and nothing: an event for which no packet is sent.
Special(s) == [kind |-> "special_key", of |-> s]
Alpha(c) == [kind |-> "alpha_key", of |-> c]
Button(b) == [kind |-> "button", of |-> b]
Nothing == [kind |-> "none", of |-> "none"]

\* The range test compares strings, so a name lies between ! and ~ as its first
\* letter does.  keyCode is a property of the event's prototype, never its own: no
\* raw_key is sent.
InRange(value) == value \in VisibleChars \cup NamedKeys

KeyEventToKeyInput(value) ==
    CASE InRange(value) -> Alpha(value)
      [] ~InRange(value) /\ value \in BrowserKeys -> Special(BROWSER2ENIGO[value])
      [] OTHER -> Nothing

ButtonToInput(button) ==
    CASE button = 0 -> Button("Left")
      [] button = 1 -> Button("Middle")
      [] button = 2 -> Button("Right")
      [] OTHER      -> Nothing

\* An alpha_key is a char: a longer string is refused, and the packet with it.
Deserializes(input) == input.kind = "alpha_key" => input.of \notin NamedKeys

\* What Enigo is told to press: convert_key and convert_button keep names apart.
Converted(input) ==
    CASE input.kind = "special_key" -> [key |-> input.of]
      [] input.kind = "alpha_key"   -> [layout |-> input.of]
      [] input.kind = "button"      -> [button |-> input.of]

-----------------------------------------------------------------------------
(***************************************************************************)
(* The pointer.  Lengths are pixels; a coordinate of a MouseMove is an     *)
(* exact fraction here, a float in the code.  The picture keeps its ratio  *)
(* and is centred in the window, with bars beside or above it.             *)
(***************************************************************************)
Fraction(n, d) == [num |-> n, den |-> d]

BarsAreBeside(window, video) == video.h * window.w >= window.h * video.w

MouseMove(window, video, at) ==
    IF BarsAreBeside(window, video)
    THEN [x |-> Fraction(2 * at.x * video.h - (window.w * video.h - window.h * video.w),
                         2 * window.h * video.w),
          y |-> Fraction(at.y, window.h)]
    ELSE [x |-> Fraction(at.x, window.w),
          y |-> Fraction(2 * at.y * video.w - (window.h * video.w - window.w * video.h),
                         2 * window.w * video.h)]

\* f32::round: half away from zero.
Round(n, d) == IF n >= 0 THEN (2 * n + d) \div (2 * d) ELSE -((d - 2 * n) \div (2 * d))

MovedTo_SwapsSides(monitor, move) ==
    [x |-> Round(move.x.num * monitor.h, move.x.den),
     y |-> Round(move.y.num * monitor.w, move.y.den)]

MovedTo(monitor, move) ==
    [x |-> Round(move.x.num * monitor.w, move.x.den),
     y |-> Round(move.y.num * monitor.h, move.y.den)]
=============================================================================
