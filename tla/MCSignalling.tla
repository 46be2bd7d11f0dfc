---------------------------- MODULE MCSignalling ----------------------------
(***************************************************************************)
(* Small instances of Signalling for TLC.                                  *)
(***************************************************************************)
EXTENDS SignallingRefinement, TLC

CONSTANTS h1, h2, r1, r2, r3, nameA, nameB

\* Everybody uses one name: a desktop that reconnects, or two computers that
\* were given the same name.
OneName == [c \in Conns |-> nameA]

\* Two desktops with a name and a remote each.
TwoNames == [c \in Conns |-> IF c \in {h2, r2} THEN nameB ELSE nameA]

\* Connections that use one name are alike.
ReuseSymmetry == Permutations({h1, h2}) \cup Permutations({r1, r2})

RemoteSymmetry == Permutations({r1, r2, r3})
=============================================================================
