------------------------- MODULE MCPointerPosition -------------------------
(***************************************************************************)
(* Windows wider and higher than the monitor's ratio, of that ratio, and   *)
(* smaller and larger than the monitor.                                    *)
(***************************************************************************)
EXTENDS PointerPosition

MCWindows == {[w |-> 9, h |-> 4], [w |-> 5, h |-> 9], [w |-> 8, h |-> 6], [w |-> 3, h |-> 3]}

MCMonitors == {[x |-> 0, y |-> 0, w |-> 8, h |-> 6], [x |-> 0, y |-> 0, w |-> 5, h |-> 3]}

\* No key is pressed here.
NoKeys == {}
=============================================================================
