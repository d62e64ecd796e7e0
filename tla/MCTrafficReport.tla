--------------------------- MODULE MCTrafficReport ---------------------------
(***************************************************************************)
(* Instances of TrafficReport for TLC: one cell in each of two of the      *)
(* three maps, so that a sample that stops half way leaves the maps at     *)
(* different points of time.                                               *)
(***************************************************************************)
EXTENDS TrafficReport

MCUserKeys == {"user"}
MCRelayKeys == {"relay"}
=============================================================================
