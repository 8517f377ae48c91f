----------------------------- MODULE MCExecutor -----------------------------
(***************************************************************************)
(* Instances of Executor for TLC.                                          *)
(***************************************************************************)
EXTENDS Executor

CONSTANTS e1, e2

MCEvent == {e1, e2}
=============================================================================
