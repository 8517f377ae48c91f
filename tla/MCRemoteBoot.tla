---------------------------- MODULE MCRemoteBoot ----------------------------
(***************************************************************************)
(* Instances of RemoteBoot for TLC.  One unit of time is 100 ms, and a      *)
(* limit of 3 units instead of 5 leaves the same cases: before the grace    *)
(* period, between it and the limit, after the limit.                      *)
(***************************************************************************)
EXTENDS RemoteBoot
=============================================================================
