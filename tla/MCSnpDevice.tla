---------------------------- MODULE MCSnpDevice ----------------------------
(***************************************************************************)
(* Instances of SnpDevice for TLC.                                         *)
(***************************************************************************)
EXTENDS SnpDevice
=============================================================================
