---- MODULE MCProcess ----
(* The process alone, with two configurations that are both good and no failures: is a saved           *)
(* configuration followed?                                                                             *)
EXTENDS Process
MCGood == {[id |-> i, parses |-> TRUE, normal |-> TRUE, layout |-> TRUE, parts |-> {"p"}, port |-> i] : i \in 1..2}
ProcSpec == ProcInit /\ [][ProcNext]_procVars /\ ProcFairness
====
