----------------------------- MODULE MCSleepers -----------------------------
(***************************************************************************)
(* Instances of Sleepers for TLC.                                          *)
(***************************************************************************)
EXTENDS Sleepers

ASSUME MCSleepersAssumption == TwoTasks

MCEvent == {Packet, Key, Pointer, NetTimer, UiTimer}
=============================================================================
