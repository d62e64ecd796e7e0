----------------------------- MODULE NodeMailbox -----------------------------
(***************************************************************************)
(* The mailbox between the machine's shared WebSocket and one node service *)
(* (internal/controlplane/mailbox.go): events are coalesced, the latest    *)
(* wins, and the service drains them once it is ready.  Operators from a   *)
(* mailbox, a record, to the mailbox a method leaves.  Device snapshots    *)
(* are coalesced like configurations and have no operator of their own.    *)
(***************************************************************************)

CONSTANTS Configs, Users, None

ASSUME NoneAssumption == None \notin Configs

\* What a push says; config and users count only for the types that carry them.
Events == [type : {"config", "users", "add", "remove"},
           config : Configs \cup {None}, users : SUBSET Users]

Boxes == [ready : BOOLEAN, config : Configs \cup {None}, users : SUBSET Users,
          full : BOOLEAN,        \* hasFullUserState
          dirtyConfig : BOOLEAN, dirtyUsers : BOOLEAN, reconcile : BOOLEAN,
          token : BOOLEAN,       \* notifyCh holds a token
          waking : BOOLEAN]      \* Apply has unlocked and not yet notified

NewBox == [ready |-> FALSE, config |-> None, users |-> {}, full |-> FALSE,
           dirtyConfig |-> FALSE, dirtyUsers |-> FALSE, reconcile |-> FALSE,
           token |-> FALSE, waking |-> FALSE]

Notify(box) == [box EXCEPT !.token = TRUE, !.waking = FALSE]

\* SeedBaseline, then MarkReady.
Seed(box, users, config) ==
  Notify([box EXCEPT !.users = IF box.full THEN @ ELSE users,
                     !.full = TRUE,
                     !.config = IF @ = None THEN config ELSE @,
                     !.ready = TRUE])

\* applyUserDelta of the mailbox.
Delta(users, e) == IF e.type = "add" THEN users \cup e.users ELSE users \ e.users

\* A delta needs a baseline; without one the event is dropped and the service
\* is asked to reconcile.
Apply(box, e) ==
  CASE e.type = "config" ->
         [box EXCEPT !.config = e.config, !.dirtyConfig = TRUE, !.waking = TRUE]
    [] e.type = "users" ->
         [box EXCEPT !.users = e.users, !.dirtyUsers = TRUE, !.full = TRUE,
                     !.waking = TRUE]
    [] e.type \in {"add", "remove"} /\ ~box.full ->
         [box EXCEPT !.reconcile = TRUE, !.waking = TRUE]
    [] e.type \in {"add", "remove"} /\ box.full ->
         [box EXCEPT !.users = Delta(@, e), !.dirtyUsers = TRUE, !.waking = TRUE]

\* Mutant: needsReconcile is not reset.
DrainedKeepingReconcile(box) ==
  [box EXCEPT !.token = FALSE,
     !.dirtyConfig = @ /\ ~box.ready, !.dirtyUsers = @ /\ ~box.ready]

\* DrainIfReady, by the receiver of the token: what is dirty has been handed out.
Drained(box) ==
  IF ~box.ready THEN [box EXCEPT !.token = FALSE]
  ELSE [box EXCEPT !.token = FALSE, !.dirtyConfig = FALSE, !.dirtyUsers = FALSE,
                   !.reconcile = FALSE]
=============================================================================
