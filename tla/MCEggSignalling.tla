-------------------------- MODULE MCEggSignalling --------------------------
(***************************************************************************)
(* Three submissions of the form: one that fails, and two after it, which  *)
(* may overlap.                                                            *)
(***************************************************************************)
EXTENDS EggSignalling

CONSTANTS a1, a2, a3
=============================================================================
