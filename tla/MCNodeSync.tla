------------------------------ MODULE MCNodeSync ------------------------------
(***************************************************************************)
(* Instances of NodeSync for TLC: a node with a WebSocket of its own, which *)
(* polls alone whenever that is lost, and a node of a machine.             *)
(***************************************************************************)
EXTENDS NodeSync

MCModes == {"push", "rest", "machine"}
MCPush == {"push"}
MCUserPushes == {"users", "add", "remove"}
\* Configurations are interchangeable at the start.
MCStarts == {[config |-> CHOOSE c \in Configs : TRUE, users |-> {}]}
\* One change of the configuration, or of the users; two of the users where both may be under way as pushes.
Spend(config, users) == [config |-> config, users |-> users]
MCBudgets == [m \in MCModes |->
  IF m = "push" THEN {Spend(1, 0), Spend(0, 2)} ELSE {Spend(1, 0), Spend(0, 1)}]
MCOne == [m \in MCPush |-> {Spend(1, 0)}]
=============================================================================
