---------------------------- MODULE MCDesktopApp ----------------------------
(***************************************************************************)
(* Three attempts: one that fails, one that is given up after the server's *)
(* grant, and one that runs.                                               *)
(***************************************************************************)
EXTENDS DesktopApp

CONSTANTS a1, a2, a3
=============================================================================
