---- MODULE MCLifecycles ----
(* The parts that live and die with a configuration on small instances: a kernel of two nodes that is *)
(* started three times, two nodes at the firewall, five contents of the configuration file.           *)
EXTENDS Lifecycles, PortMerge

\* Two credentials of one user, a limited user beside another, and a node of each of two tags.
U(id, uuid, limit) == [id |-> id, uuid |-> uuid, limit |-> limit]
MCUserSets == {{}, {U(1, "x", 0)}, {U(1, "y", 0)}, {U(1, "x", 1), U(2, "z", 0)}}
MCNodeOf == [c \in {"c1", "c2"} |-> IF c = "c1" THEN "n1" ELSE "n2"]

\* Two nodes on hysteria: on port 1, on port 1 with port hopping, and on port 3. The administrator
\* edits port 1.
Node(port, hopping) ==
  [protocol |-> "hysteria", version |-> 2, network |-> "tcp", port |-> port, listen |-> "0.0.0.0",
   hopping |-> hopping, landing |-> [protocol |-> "", port |-> 0]]
Hop(a, b) == [from |-> a, to |-> b]
MCWishes == {PlanForNode(n, "xray") : n \in {Node(1, {}), Node(1, {Hop(1, 2)}), Node(3, {})}}
MCEdited == {AsRule([family |-> 4, address |-> ""], "udp", Hop(1, 1), 0)}
MCBudgets == {[calls |-> 2, troubles |-> 1], [calls |-> 1, troubles |-> 2]}

\* Two good files, one that does not parse, one with a wrong instance and one with a wrong layout.
Content(id, parses, normal, layout, parts, port) ==
  [id |-> id, parses |-> parses, normal |-> normal, layout |-> layout, parts |-> parts, port |-> port]
MCContents == {Content(1, TRUE, TRUE, TRUE, {"p", "q"}, 1), Content(2, TRUE, TRUE, TRUE, {"p"}, 2),
  Content(3, FALSE, FALSE, FALSE, {}, 0), Content(4, TRUE, FALSE, FALSE, {}, 0), Content(5, TRUE, TRUE, FALSE, {"q"}, 1)}

\* Whatever four ranges of ports there are, sorting and absorbing them joins them.
ASSUME MergeJoins ==
  LET ranges == {r \in {Hop(a, b) : a, b \in 1..5} : r.from <= r.to}
  IN \A few \in UNION {kSubset(k, ranges) : k \in 0..4} : MergeSorted(few) = Merge(few)
====
