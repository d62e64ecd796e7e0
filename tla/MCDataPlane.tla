---- MODULE MCDataPlane ----
(* The parts of the data plane on small instances: three connections of two addresses at the           *)
(* dispatcher, two clients of a relay entry, two flows at the tracker, one AnyTLS session.             *)
EXTENDS DataPlane, TLC
CONSTANTS c1, c2, c3, k1, k2, f1, f2
MCConns == {c1, c2, c3}
MCClients == {k1, k2}
MCFlows == {f1, f2}
MCIdentity == [x |-> 1, x0 |-> 1, y |-> 2, z |-> 3]
U(id, uuid) == [id |-> id, uuid |-> uuid, limit |-> 0]
MCUserSets == {{}, {U(1, "x")}, {U(1, "y")}, {U(2, "z")}, {U(1, "x"), U(2, "z")}, {U(1, "x"), U(2, "x0")}}
MCElsewhere == {{1}}
DataPlaneSymmetry == Permutations(MCConns) \cup Permutations(MCClients) \cup Permutations(MCFlows)
====
