----------------------------- MODULE MCBootNext -----------------------------
(***************************************************************************)
(* Instances of BootNext for TLC.                                          *)
(***************************************************************************)
EXTENDS BootNext

CONSTANTS a, b, c

MCEntry == {a, b, c}
=============================================================================
