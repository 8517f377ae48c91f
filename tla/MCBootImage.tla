----------------------------- MODULE MCBootImage -----------------------------
(***************************************************************************)
(* Instances of BootImage for TLC: the constants are numbers.              *)
(***************************************************************************)
EXTENDS BootImage
=============================================================================
