-------------------------------- MODULE MCUi --------------------------------
(***************************************************************************)
(* Instances of Ui for TLC: the screen is at most two cursors wide and     *)
(* high, and there are modes that are too wide, too high, or both.         *)
(***************************************************************************)
EXTENDS Ui

MCSizes == (1..3) \X (1..3)
=============================================================================
