--------------------------- MODULE TrafficBilling ---------------------------
(***************************************************************************)
(* What traffic accounting promises to the people who are billed: the      *)
(* panel never bills a byte the kernel did not carry, never takes a byte   *)
(* back, and once a node reports that it shut down cleanly the bill equals *)
(* the traffic carried.  TrafficReport implements this specification.      *)
(***************************************************************************)
EXTENDS Naturals

CONSTANT Keys      \* accounted counters: user, relay node, user on relay node

VARIABLES carried, \* bytes carried by the kernel, per counter
          billed,  \* bytes settled by the panel, per counter
          settled  \* the node has shut down with nothing left to report

vars == <<carried, billed, settled>>

Init == /\ carried = [k \in Keys |-> 0]
        /\ billed = [k \in Keys |-> 0]
        /\ settled = FALSE

Carry == /\ ~settled
         /\ \E k \in Keys : carried' = [carried EXCEPT ![k] = @ + 1]
         /\ UNCHANGED <<billed, settled>>

Bill == /\ ~settled
        /\ billed' \in [Keys -> Nat]
        /\ \A k \in Keys : billed[k] <= billed'[k] /\ billed'[k] <= carried[k]
        /\ UNCHANGED <<carried, settled>>

Settle == /\ ~settled
          /\ billed = carried
          /\ settled' = TRUE
          /\ UNCHANGED <<carried, billed>>

Next == Carry \/ Bill \/ Settle

Spec == Init /\ [][Next]_vars
=============================================================================
