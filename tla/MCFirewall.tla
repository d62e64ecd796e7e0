---- MODULE MCFirewall ----
(* Two nodes on hysteria: on port 1, on port 1 with port hopping, and on port 3. The administrator      *)
(* edits port 1. Saving the record may fail after the new file is in place.                            *)
EXTENDS Firewall
Node(port, hopping) ==
  [protocol |-> "hysteria", version |-> 2, network |-> "tcp", port |-> port, listen |-> "0.0.0.0",
   hopping |-> hopping, landing |-> [protocol |-> "", port |-> 0]]
Hop(a, b) == [from |-> a, to |-> b]
MCWishes == {PlanForNode(n, "xray") : n \in {Node(1, {}), Node(1, {Hop(1, 2)}), Node(3, {})}}
MCEdited == {AsRule([family |-> 4, address |-> ""], "udp", Hop(1, 1), 0)}
MCAmple == {[calls |-> 3, troubles |-> 1]}
====
