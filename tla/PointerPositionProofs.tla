----------------------- MODULE PointerPositionProofs -----------------------
(***************************************************************************)
(* The pointer goes where the picture shows it, for every size of window   *)
(* and monitor: integer arithmetic about the two divisions, the page's and *)
(* the picture's, whose fractions are equal.                               *)
(***************************************************************************)
EXTENDS PointerPosition, TLAPS

-----------------------------------------------------------------------------
(***************************************************************************)
(* Products and quotients.                                                 *)
(***************************************************************************)
LEMMA Product == ASSUME NEW a \in Int, NEW b \in Int  PROVE a * b \in Int
  OBVIOUS

LEMMA Positive ==
  ASSUME NEW a \in Int, NEW b \in Int, a > 0, b > 0  PROVE a * b > 0
  OBVIOUS

LEMMA Cancel ==
  ASSUME NEW a \in Int, NEW b \in Int, NEW c \in Int, c > 0
  PROVE  /\ a <= b => a * c <= b * c
         /\ a < b => a * c < b * c
         /\ a * c <= b * c => a <= b
         /\ a * c < b * c => a < b
<1>1. a <= b => a * c <= b * c
  OBVIOUS
<1>2. a < b => a * c < b * c
  OBVIOUS
<1>3. a > b => a * c > b * c
  OBVIOUS
<1>4. a >= b => a * c >= b * c
  OBVIOUS
<1> QED BY <1>1, <1>2, <1>3, <1>4, Product

LEMMA Division ==
  ASSUME NEW a \in Int, NEW b \in Int, b > 0
  PROVE  /\ a \div b \in Int
         /\ (a \div b) * b <= a
         /\ a < ((a \div b) + 1) * b
  OBVIOUS

-----------------------------------------------------------------------------
\* f32::round of a fraction that is not negative is its floor or the number after,
\* in whatever terms the floor was computed.
LEMMA Rounding ==
  ASSUME NEW n \in Int, NEW d \in Int, NEW num \in Int, NEW den \in Int,
         d > 0, den > 0, n * den = num * d, num \div den >= 0
  PROVE  Round(n, d) - (num \div den) \in {0, 1}
<1> DEFINE q == num \div den
           r == (2 * n + d) \div (2 * d)
<1>1. q \in Int /\ q * den <= num /\ num < (q + 1) * den
  BY Division
<1>2. (q * d) * den <= n * den /\ n * den < ((q + 1) * d) * den
  <2>1. (q * den) * d <= num * d /\ num * d < ((q + 1) * den) * d
    BY <1>1, Cancel, Product
  <2>2. (q * den) * d = (q * d) * den /\ ((q + 1) * den) * d = ((q + 1) * d) * den
    BY <1>1
  <2> QED BY <2>1, <2>2
<1>3. q * d <= n /\ n < (q + 1) * d
  <2>1. q * d \in Int /\ (q + 1) * d \in Int
    BY <1>1, Product
  <2> QED BY <1>2, <2>1, Cancel
<1>4. n >= 0
  <2>1. 0 * d <= q * d
    BY <1>1, Cancel
  <2> QED BY <1>1, <1>3, <2>1, Product
<1>5. Round(n, d) = r
  BY <1>4 DEF Round
<1>6. r \in Int /\ r * (2 * d) <= 2 * n + d /\ 2 * n + d < (r + 1) * (2 * d)
  BY Division
<1> HIDE DEF q, r
<1>7. q * (2 * d) = 2 * (q * d) /\ (q + 1) * (2 * d) = 2 * ((q + 1) * d)
      /\ (q + 2) * (2 * d) = 2 * ((q + 1) * d) + 2 * d
  BY <1>1
<1>8. /\ q * (2 * d) < (r + 1) * (2 * d)
      /\ r * (2 * d) < (q + 2) * (2 * d)
  <2>1. /\ q * d \in Int /\ (q + 1) * d \in Int
        /\ r * (2 * d) \in Int /\ (r + 1) * (2 * d) \in Int
    BY <1>1, <1>6, Product
  <2> QED BY <1>3, <1>6, <1>7, <2>1
<1>9. q < r + 1 /\ r < q + 2
  BY <1>1, <1>6, <1>8, Cancel
<1>10. r - q \in {0, 1}
  BY <1>1, <1>6, <1>9
<1> QED BY <1>5, <1>10 DEF q

-----------------------------------------------------------------------------
(***************************************************************************)
(* One move.  The page divides by the picture's size in the window,        *)
(* input.rs multiplies by the monitor's: nx / dx and ny / dy are what the  *)
(* page sends, px and py stand above the picture's division by 2 * sn,     *)
(* whose scale is sn / sd.  A window and a monitor of one ratio are the    *)
(* case in which both conditions, beside and wide, hold.                   *)
(***************************************************************************)
Sized(size) == size.w \in Int /\ size.h \in Int /\ size.w > 0 /\ size.h > 0

\* Wherever the monitor is, a move over the picture goes to the pixel that is seen
\* there, counted from the monitor's corner, or to the next one.
LEMMA MoveFollows ==
  ASSUME NEW size, NEW bounds, NEW place, Sized(size), Sized(bounds),
         place.x \in Int, place.y \in Int,
         PixelAt(size, bounds, place).x >= 0, PixelAt(size, bounds, place).y >= 0
  PROVE  LET to == MovedTo(bounds, MouseMove(size, bounds, place))
             seen == PixelAt(size, bounds, place)
         IN to.x - seen.x \in {0, 1} /\ to.y - seen.y \in {0, 1}
<1> DEFINE ww == size.w  wh == size.h  vw == bounds.w  vh == bounds.h
           ax == place.x  ay == place.y
           to == MovedTo(bounds, MouseMove(size, bounds, place))
           seen == PixelAt(size, bounds, place)
           beside == vh * ww >= wh * vw
           wide == ww * vh <= wh * vw
           nx == IF beside THEN 2 * ax * vh - (ww * vh - wh * vw) ELSE ax
           dx == IF beside THEN 2 * wh * vw ELSE ww
           ny == IF beside THEN ay ELSE 2 * ay * vw - (wh * vw - ww * vh)
           dy == IF beside THEN wh ELSE 2 * ww * vh
           sn == IF wide THEN ww ELSE wh
           sd == IF wide THEN vw ELSE vh
           px == (2 * ax - ww) * sd + vw * sn
           py == (2 * ay - wh) * sd + vh * sn
<1>1. /\ ww \in Int /\ wh \in Int /\ vw \in Int /\ vh \in Int /\ ax \in Int /\ ay \in Int
      /\ ww > 0 /\ wh > 0 /\ vw > 0 /\ vh > 0
  BY DEF Sized
<1>2. to.x = Round(nx * vw, dx) /\ to.y = Round(ny * vh, dy)
  BY DEF MovedTo, MouseMove, Fraction, BarsAreBeside
<1>3. seen.x = px \div (2 * sn) /\ seen.y = py \div (2 * sn)
  BY DEF PixelAt, PixelOf, Scale, Fraction
<1> HIDE DEF ww, wh, vw, vh, ax, ay, to, seen
<1>4. /\ ww * vh \in Int /\ wh * vw \in Int /\ ax * vh \in Int /\ ay * vw \in Int
      /\ vh * ww = ww * vh
      /\ ww * vh > 0 /\ wh * vw > 0
  BY <1>1, Product, Positive
<1>5. /\ nx \in Int /\ ny \in Int /\ nx * vw \in Int /\ ny * vh \in Int
      /\ dx \in Int /\ dy \in Int /\ dx > 0 /\ dy > 0
  BY <1>1, <1>4, Product
<1>6. /\ px \in Int /\ py \in Int
      /\ 2 * sn \in Int /\ 2 * sn > 0
  BY <1>1, Product
<1>7. (nx * vw) * (2 * sn) = px * dx /\ (ny * vh) * (2 * sn) = py * dy
  <2>1. CASE vh * ww > wh * vw
    <3>1. beside /\ ~wide  BY <2>1, <1>1, <1>4
    <3> QED BY <3>1, <1>1
  <2>2. CASE vh * ww < wh * vw
    <3>1. ~beside /\ wide  BY <2>2, <1>1, <1>4
    <3> QED BY <3>1, <1>1
  <2>3. CASE vh * ww = wh * vw
    <3>1. beside /\ wide  BY <2>3, <1>1, <1>4
    <3> QED BY <3>1, <2>3, <1>1
  <2> QED BY <2>1, <2>2, <2>3, <1>4
<1> HIDE DEF nx, ny, dx, dy, px, py, sn
<1> QED BY <1>2, <1>3, <1>5, <1>6, <1>7, Rounding DEF to, seen

-----------------------------------------------------------------------------
(***************************************************************************)
(* The property.                                                           *)
(***************************************************************************)
\* The monitors whose pointer positions are the desktop's own.
AtOrigin == \A bounds \in Monitors : bounds.x = 0 /\ bounds.y = 0

KnownSizes == monitor \in Monitors /\ window \in Windows

LEMMA KnownSizesStep == KnownSizes /\ [Next]_vars => KnownSizes'
  BY DEF KnownSizes, Next, Move, Resize, vars

LEMMA FollowsStep ==
  ASSUME AtOrigin, KnownSizes, [Next]_vars
  PROVE  [LET seen == PixelAt(window, monitor, at') IN
          window' = window /\ OnMonitor(seen, monitor) =>
              /\ pointer'.x - (monitor.x + seen.x) \in {0, 1}
              /\ pointer'.y - (monitor.y + seen.y) \in {0, 1}]_<<at, pointer>>
<1> DEFINE seen == PixelAt(window, monitor, at')
<1>1. Sized(window) /\ Sized(monitor) /\ monitor.x = 0 /\ monitor.y = 0
  BY SizesAssumption DEF AtOrigin, KnownSizes, Sized
<1>2. ASSUME NEW place \in Places(window), Move(place), OnMonitor(seen, monitor)
      PROVE  /\ pointer'.x - (monitor.x + seen.x) \in {0, 1}
             /\ pointer'.y - (monitor.y + seen.y) \in {0, 1}
  <2>1. place.x \in Int /\ place.y \in Int
    BY <1>1 DEF Places, Sized
  <2>2. at' = place /\ pointer' = MovedTo(monitor, MouseMove(window, monitor, place))
    BY <1>2 DEF Move
  <2>3. seen.x \in Int /\ seen.x >= 0 /\ seen.y \in Int /\ seen.y >= 0
    BY <1>1, <1>2 DEF OnMonitor, Sized
  <2>4. pointer'.x - seen.x \in {0, 1} /\ pointer'.y - seen.y \in {0, 1}
    BY <1>1, <2>1, <2>2, <2>3, MoveFollows
  <2>5. monitor.x + seen.x = seen.x /\ monitor.y + seen.y = seen.y
    BY <1>1, <2>3
  <2> QED BY <2>4, <2>5
<1>3. ASSUME NEW size \in Windows, Resize(size)  PROVE window' # window
  BY <1>3 DEF Resize
<1> QED BY <1>2, <1>3 DEF Next, vars

\* A move over the picture takes the desktop's pointer to the pixel that is seen
\* there or to its neighbour, for every size of window and of monitor, with bars
\* beside the picture, above it or none, however the window is resized between two
\* moves (input.ts:60-83, input.rs:12-16).  The monitor is at the desktop's origin:
\* handle_input does not add its position.
THEOREM PointerIsWhereSeen == AtOrigin => (Spec => PointerFollowsPicture)
<1> SUFFICES ASSUME AtOrigin PROVE Spec => PointerFollowsPicture
  OBVIOUS
<1>1. Init => KnownSizes
  BY DEF Init, KnownSizes
<1>2. KnownSizes /\ [Next]_vars =>
        [LET seen == PixelAt(window, monitor, at') IN
         window' = window /\ OnMonitor(seen, monitor) =>
             /\ pointer'.x - (monitor.x + seen.x) \in {0, 1}
             /\ pointer'.y - (monitor.y + seen.y) \in {0, 1}]_<<at, pointer>>
  BY FollowsStep
<1> QED BY <1>1, <1>2, KnownSizesStep, PTL DEF Spec, PointerFollowsPicture
=============================================================================
