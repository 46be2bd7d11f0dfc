-------------------------- MODULE PointerPosition --------------------------
(***************************************************************************)
(* Where on the desktop the pointer goes as it moves over the window of    *)
(* Egg, whose size may change between two moves.  The stream keeps the     *)
(* ratio of the monitor, so that the monitor's size stands for the video's.*)
(***************************************************************************)
EXTENDS InputPackets

CONSTANTS
    Windows,    \* sizes of the browser's window
    Monitors    \* MonitorBounds

\* A pointer moves over a window that has a size, and a monitor that is shared has
\* one; its place among the monitors may be left of or above the first's.
ASSUME SizesAssumption ==
    /\ \A size \in Windows : size.w \in Nat \ {0} /\ size.h \in Nat \ {0}
    /\ \A bounds \in Monitors :
         /\ bounds.w \in Nat \ {0} /\ bounds.h \in Nat \ {0}
         /\ bounds.x \in Int /\ bounds.y \in Int

VARIABLES
    monitor,    \* the monitor that is shared
    window,     \* window.innerWidth, window.innerHeight
    at,         \* the pointer in the window
    pointer     \* the pointer on the desktop

vars == <<monitor, window, at, pointer>>

Places(size) == [x : 0..(size.w - 1), y : 0..(size.h - 1)]

Init ==
    /\ monitor \in Monitors
    /\ window \in Windows
    /\ at = [x |-> 0, y |-> 0]
    /\ pointer = [x |-> 0, y |-> 0]

\* video.onmousemove, and handle_input at the other end of the channel.
Move(place) ==
    /\ at' = place
    /\ pointer' = MovedTo(monitor, MouseMove(window, monitor, place))
    /\ UNCHANGED <<monitor, window>>

\* The pointer is wherever the resized window has it; no event is sent.
Resize(size) ==
    /\ size # window
    /\ window' = size
    /\ at' \in Places(size)
    /\ UNCHANGED <<monitor, pointer>>

Next ==
    \/ \E place \in Places(window) : Move(place)
    \/ \E size \in Windows : Resize(size)

Spec == Init /\ [][Next]_vars

-----------------------------------------------------------------------------
(***************************************************************************)
(* The reference: the picture is the largest of the monitor's ratio that   *)
(* fits, in the middle of the window, and shows the monitor's pixels side  *)
(* by side.                                                                *)
(***************************************************************************)
Scale(size, bounds) ==
    IF size.w * bounds.h <= size.h * bounds.w
    THEN Fraction(size.w, bounds.w)
    ELSE Fraction(size.h, bounds.h)

\* The pixel of a row of length pixels that is seen at position p of a window of
\* the given length.
PixelOf(p, length, pixels, scale) ==
    ((2 * p - length) * scale.den + pixels * scale.num) \div (2 * scale.num)

PixelAt(size, bounds, place) ==
    [x |-> PixelOf(place.x, size.w, bounds.w, Scale(size, bounds)),
     y |-> PixelOf(place.y, size.h, bounds.h, Scale(size, bounds))]

OnMonitor(pixel, bounds) == pixel.x \in 0..(bounds.w - 1) /\ pixel.y \in 0..(bounds.h - 1)

\* A move over the picture takes the desktop's pointer to the pixel that is seen
\* there, or to its neighbour when the fraction is rounded up, whatever the ratios
\* of window and monitor, on whichever sides the bars are (input.ts:60-83,
\* input.rs:12-16).
PointerFollowsPicture ==
    [][LET seen == PixelAt(window, monitor, at') IN
       window' = window /\ OnMonitor(seen, monitor) =>
           /\ pointer'.x - (monitor.x + seen.x) \in {0, 1}
           /\ pointer'.y - (monitor.y + seen.y) \in {0, 1}]_<<at, pointer>>
=============================================================================
