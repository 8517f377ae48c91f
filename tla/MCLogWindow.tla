----------------------------- MODULE MCLogWindow -----------------------------
(***************************************************************************)
(* Instances of LogWindow for TLC: messages that are short, that fill half *)
(* of the window, and that are longer than it.                             *)
(***************************************************************************)
EXTENDS LogWindow

MCLengths == {1, 2, 5}
=============================================================================
