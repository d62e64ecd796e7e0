-------------------------- MODULE MachineOrchestrator --------------------------
(***************************************************************************)
(* The nodes of a machine (internal/machine/machine.go): a main loop and   *)
(* goroutines that sync.nodes pushes start run rediscover at the same      *)
(* time; each stops and starts nodes, and every node ends in a goroutine   *)
(* of its own.  Every lock section is a step.  What a node does with its   *)
(* mailbox is NodeSync's subject, how it serves NodeRuntime's.             *)
(***************************************************************************)
EXTENDS Naturals

CONSTANTS
  Nodes, Kernels,
  Handles,       \* nodeHandle values; one that is done and unused is used again
  Main,          \* the goroutine of Run
  Syncs,         \* bound: rediscovers of pushes that run at the same time
  None,
  Starts,        \* bound: the nodes bound to the machine at first
  MaxChanges,    \* bound: changes the panel makes
  MaxSyncs,      \* bound: sync.nodes pushes
  MaxFailures    \* bound: services whose initial setup fails

ASSUME OrchestratorAssumption ==
  /\ None \notin Nodes \cup Kernels \cup Handles \cup {"starting", "running", "failed", "stopped"}
  /\ Main \notin Syncs /\ Starts \subseteq [Nodes -> Kernels \cup {None}]
  /\ (Syncs \cup {Main}) \cap Handles = {}

VARIABLES
  panel,         \* the kernel of every node bound to the machine
  changes, syncs, failures,   \* bounds
  nodes,         \* the handle of every node, or None
  handle,        \* the handles and the goroutines behind them
  mailboxes,     \* whose mailbox the mux finds, by node
  statuses,      \* whose status channel, by node
  nodeStatuses,  \* the last status of every node, or None; the aggregate is reported
  worker,        \* the goroutines that run rediscover
  draining,      \* the handles stopAll waits for
  ws,            \* "unknown", then whether the panel offers a WebSocket
  shutdown       \* the context is cancelled

boundVars == <<panel, changes, syncs, failures>>
routeVars == <<mailboxes, statuses>>
lifeVars == <<draining, ws, shutdown>>
vars == <<panel, changes, syncs, failures, nodes, handle, mailboxes, statuses,
          nodeStatuses, worker, draining, ws, shutdown>>

Workers == Syncs \cup {Main}
Status == {"starting", "running", "failed", "stopped"}
Wishes == [Nodes -> Kernels \cup {None}]

\* A handle, its Run (from "launched" to "serving") and its way out.
Phases == {"prepared", "launched", "initial", "serving", "returned",
           "unregistered", "finished", "done"}
HandleRecords ==
  [node : Nodes \cup {None}, kernel : Kernels \cup {None}, phase : Phases,
   cancelled : BOOLEAN, failed : BOOLEAN, healthy : BOOLEAN,
   late : BOOLEAN]      \* history: created after the shutdown began
NoHandle == [node |-> None, kernel |-> None, phase |-> "done", cancelled |-> FALSE,
             failed |-> FALSE, healthy |-> FALSE, late |-> FALSE]

\* back is where stopNode returns to.
WorkerRecords ==
  [pc : {"boot", "connect", "idle", "scan", "remove", "start", "find", "create", "route",
         "show", "launch", "cancel", "await", "forget", "draining", "returned"},
   wanted : Wishes, todo : SUBSET Nodes, node : Nodes \cup {None},
   handle : Handles \cup {None}, back : {"remove", "create"}]
Idle == [pc |-> "idle", wanted |-> [n \in Nodes |-> None], todo |-> {}, node |-> None,
         handle |-> None, back |-> "remove"]

Init ==
  /\ panel \in Starts /\ changes = 0 /\ syncs = 0 /\ failures = 0
  /\ nodes = [n \in Nodes |-> None] /\ handle = [h \in Handles |-> NoHandle]
  /\ mailboxes = [n \in Nodes |-> None] /\ statuses = [n \in Nodes |-> None]
  /\ nodeStatuses = [n \in Nodes |-> None]
  /\ worker = [w \in Workers |-> IF w = Main THEN [Idle EXCEPT !.pc = "boot"] ELSE Idle]
  /\ draining = {} /\ ws = "unknown" /\ shutdown = FALSE

-----------------------------------------------------------------------------
(* Statuses.                                                               *)

Aggregate ==
  IF \E n \in Nodes : nodeStatuses[n] = "failed" THEN "failed"
  ELSE IF \E n \in Nodes : nodeStatuses[n] \in {"starting", "stopped"} THEN "starting"
  ELSE "running"

\* setNodeStatus, and removeNodeStatus when status is None.  The handler is told the
\* aggregate after the unlock; here it is as good as told with the lock held.
SetNodeStatus(n, status) == nodeStatuses' = [nodeStatuses EXCEPT ![n] = status]

-----------------------------------------------------------------------------
(* rediscover.                                                             *)

At(w, pc) == worker[w].pc = pc
Goto(w, pc) == worker' = [worker EXCEPT ![w].pc = pc]

\* Mutant: the place stopNode returns to is taken from the loop.
ResumeThere(r, pc) ==
  [r EXCEPT !.pc = pc, !.node = None, !.handle = None, !.back = pc]

\* startNode or stopNode returns to the loop of rediscover.
Resume(r, pc) == [r EXCEPT !.pc = pc, !.node = None, !.handle = None, !.back = "remove"]

\* The answer of the panel; one that fails changes nothing.
Rediscover(w) ==
  /\ worker' = [worker EXCEPT ![w].pc = "scan", ![w].wanted = panel]
  /\ UNCHANGED <<panel, changes, failures, nodes, handle, routeVars, nodeStatuses, lifeVars>>

\* The ticker of Run.
RediscoverOnTick ==
  /\ At(Main, "idle")
  /\ Rediscover(Main) /\ UNCHANGED syncs

\* A sync.nodes push.
RediscoverOnPush(w) ==
  /\ w \in Syncs /\ At(w, "idle")
  /\ ws = "on" /\ syncs < MaxSyncs /\ worker[Main].pc # "returned"
  /\ Rediscover(w) /\ syncs' = syncs + 1

Scan(w) ==
  /\ At(w, "scan")
  /\ worker' = [worker EXCEPT ![w].pc = "remove",
       ![w].todo = {n \in Nodes : nodes[n] # None /\ worker[w].wanted[n] = None}]
  /\ UNCHANGED <<boundVars, nodes, handle, routeVars, nodeStatuses, lifeVars>>

\* reconcileNodeStatuses, once no unwanted node is left to stop.
Reconcile(w) ==
  /\ At(w, "remove") /\ worker[w].todo = {}
  /\ LET wanted == worker[w].wanted IN
     /\ nodeStatuses' = [n \in Nodes |->
          IF wanted[n] # None /\ nodeStatuses[n] = None THEN "starting"
          ELSE IF wanted[n] # None THEN nodeStatuses[n] ELSE None]
     /\ worker' = [worker EXCEPT
          ![w].pc = IF ws = "unknown" THEN "connect" ELSE "start",
          ![w].todo = {n \in Nodes : wanted[n] # None}]
  /\ UNCHANGED <<boundVars, nodes, handle, routeVars, lifeVars>>

\* All nodes of the answer are started.
Ends(w) ==
  /\ At(w, "start") /\ worker[w].todo = {}
  /\ worker' = [worker EXCEPT ![w] = Idle]
  /\ UNCHANGED <<boundVars, nodes, handle, routeVars, nodeStatuses, lifeVars>>

-----------------------------------------------------------------------------
(* stopNode.                                                               *)

\* The handle is looked up; without one stopNode returns.
Find(w, n, back) ==
  /\ \/ /\ nodes[n] # None
        /\ worker' = [worker EXCEPT ![w].pc = "cancel", ![w].todo = @ \ {n}, ![w].node = n,
                                    ![w].handle = nodes[n], ![w].back = back]
     \/ /\ nodes[n] = None
        /\ worker' = [worker EXCEPT ![w].pc = back, ![w].todo = @ \ {n}]
  /\ UNCHANGED <<boundVars, nodes, handle, routeVars, nodeStatuses, lifeVars>>

StopUnwanted(w) ==
  /\ At(w, "remove")
  /\ \E n \in worker[w].todo : Find(w, n, "remove")

StopChanged(w) ==
  /\ At(w, "find")
  /\ Find(w, worker[w].node, "create")

Cancel(w) ==
  /\ At(w, "cancel")
  /\ mailboxes' = [mailboxes EXCEPT ![worker[w].node] = None]
  /\ handle' = [handle EXCEPT ![worker[w].handle].cancelled = TRUE]
  /\ Goto(w, "await")
  /\ UNCHANGED <<boundVars, nodes, statuses, nodeStatuses, lifeVars>>

\* Mutant: the node is taken off without waiting for its goroutine.
DropNode(w) ==
  /\ At(w, "await")
  /\ nodes' = [nodes EXCEPT ![worker[w].node] = IF @ = worker[w].handle THEN None ELSE @]
  /\ Goto(w, "forget")
  /\ UNCHANGED <<boundVars, handle, routeVars, nodeStatuses, lifeVars>>

\* <-h.done
Await(w) ==
  /\ At(w, "await") /\ handle[worker[w].handle].phase = "done"
  /\ nodes' = [nodes EXCEPT ![worker[w].node] = IF @ = worker[w].handle THEN None ELSE @]
  /\ Goto(w, "forget")
  /\ UNCHANGED <<boundVars, handle, routeVars, nodeStatuses, lifeVars>>

Forget(w) ==
  /\ At(w, "forget")
  /\ SetNodeStatus(worker[w].node, None)
  /\ worker' = [worker EXCEPT ![w] = IF @.back = "create"
                                            THEN [@ EXCEPT !.pc = "create", !.handle = None]
                                            ELSE Resume(@, "remove")]
  /\ UNCHANGED <<boundVars, nodes, handle, routeVars, lifeVars>>

-----------------------------------------------------------------------------
(* startNode.                                                              *)

Free(h) ==
  /\ handle[h].phase = "done" /\ h \notin draining
  /\ \A w \in Workers : worker[w].handle # h

\* A new handle is put into o.nodes.
Insert(w, n) ==
  /\ \E h \in Handles : Free(h)
  /\ LET h == CHOOSE h \in Handles : Free(h) IN
       /\ nodes' = [nodes EXCEPT ![n] = h]
       /\ handle' = [handle EXCEPT ![h] =
            [NoHandle EXCEPT !.node = n, !.kernel = worker[w].wanted[n],
                             !.phase = "prepared", !.late = shutdown]]
       /\ worker' = [worker EXCEPT ![w].pc = "route", ![w].todo = @ \ {n},
                                   ![w].node = n, ![w].handle = h]
  /\ UNCHANGED <<boundVars, routeVars, nodeStatuses, lifeVars>>

\* Mutant: the kernel is not compared.
StartAbsentNode(w) ==
  /\ At(w, "start")
  /\ \E n \in worker[w].todo :
       \/ nodes[n] = None /\ Insert(w, n)
       \/ /\ nodes[n] # None
          /\ worker' = [worker EXCEPT ![w].todo = @ \ {n}]
          /\ UNCHANGED <<boundVars, nodes, handle, routeVars, nodeStatuses, lifeVars>>

\* A node that runs with the wanted kernel is left alone, one with another kernel
\* is stopped first.
StartNode(w) ==
  /\ At(w, "start")
  /\ \E n \in worker[w].todo :
       \/ nodes[n] = None /\ Insert(w, n)
       \/ /\ nodes[n] # None /\ handle[nodes[n]].kernel = worker[w].wanted[n]
          /\ worker' = [worker EXCEPT ![w].todo = @ \ {n}]
          /\ UNCHANGED <<boundVars, nodes, handle, routeVars, nodeStatuses, lifeVars>>
       \/ /\ nodes[n] # None /\ handle[nodes[n]].kernel # worker[w].wanted[n]
          /\ worker' = [worker EXCEPT ![w].todo = @ \ {n}, ![w].pc = "find", ![w].node = n]
          /\ UNCHANGED <<boundVars, nodes, handle, routeVars, nodeStatuses, lifeVars>>

\* After stopNode; another rediscover may have been faster.
Create(w) ==
  /\ At(w, "create")
  /\ LET n == worker[w].node IN
     \/ nodes[n] = None /\ Insert(w, n)
     \/ /\ nodes[n] # None
        /\ worker' = [worker EXCEPT ![w] = Resume(@, "start")]
        /\ UNCHANGED <<boundVars, nodes, handle, routeVars, nodeStatuses, lifeVars>>

Route(w) ==
  /\ At(w, "route")
  /\ mailboxes' = [mailboxes EXCEPT ![worker[w].node] = worker[w].handle]
  /\ Goto(w, "show")
  /\ UNCHANGED <<boundVars, nodes, handle, statuses, nodeStatuses, lifeVars>>

Show(w) ==
  /\ At(w, "show")
  /\ SetNodeStatus(worker[w].node, "starting")
  /\ Goto(w, "launch")
  /\ UNCHANGED <<boundVars, nodes, handle, routeVars, lifeVars>>

\* The configuration has been fetched to resolve the kernel; the goroutine starts.
Launch(w) ==
  /\ At(w, "launch")
  /\ handle' = [handle EXCEPT ![worker[w].handle].phase = "launched"]
  /\ worker' = [worker EXCEPT ![w] = Resume(@, "start")]
  /\ UNCHANGED <<boundVars, nodes, routeVars, nodeStatuses, lifeVars>>

-----------------------------------------------------------------------------
(* The goroutine of a node: Service.Run, then unregisterNode, finishNode   *)
(* and close(done).                                                        *)

In(h, phase) == handle[h].phase = phase
Enter(h, phase) == handle' = [handle EXCEPT ![h].phase = phase]

RunBegins(h) ==
  /\ In(h, "launched")
  /\ Enter(h, "initial")
  /\ SetNodeStatus(handle[h].node, "starting")
  /\ UNCHANGED <<boundVars, nodes, routeVars, worker, lifeVars>>

\* Without an initial snapshot Run returns an error.
InitialFails(h) ==
  /\ In(h, "initial") /\ failures < MaxFailures
  /\ failures' = failures + 1
  /\ handle' = [handle EXCEPT ![h].phase = "returned", ![h].failed = TRUE]
  /\ SetNodeStatus(handle[h].node, "failed")
  /\ UNCHANGED <<panel, changes, syncs, nodes, routeVars, worker, lifeVars>>

HealthStatus(healthy) == IF healthy THEN "running" ELSE "failed"

\* The initial snapshot arrives, registerNode exposes the mailbox if there is a
\* WebSocket, and the snapshot is applied or fails.
SetUp(h, healthy) ==
  /\ In(h, "initial")
  /\ handle' = [handle EXCEPT ![h].phase = "serving", ![h].healthy = healthy]
  /\ statuses' = IF ws = "on" THEN [statuses EXCEPT ![handle[h].node] = h] ELSE statuses
  /\ SetNodeStatus(handle[h].node, HealthStatus(healthy))
  /\ UNCHANGED <<boundVars, nodes, mailboxes, worker, lifeVars>>

\* A later snapshot is applied or fails; either is notified.
ApplySnapshot(h, healthy) ==
  /\ In(h, "serving")
  /\ handle' = [handle EXCEPT ![h].healthy = healthy]
  /\ SetNodeStatus(handle[h].node, HealthStatus(healthy))
  /\ UNCHANGED <<boundVars, nodes, routeVars, worker, lifeVars>>

RunEnds(h) ==
  /\ In(h, "serving") /\ (handle[h].cancelled \/ shutdown)
  /\ handle' = [handle EXCEPT ![h].phase = "returned", ![h].healthy = FALSE]
  /\ SetNodeStatus(handle[h].node, "stopped")
  /\ UNCHANGED <<boundVars, nodes, routeVars, worker, lifeVars>>

\* Mutant: the mailbox stays.
UnregisterStatusOnly(h) ==
  /\ In(h, "returned")
  /\ Enter(h, "unregistered")
  /\ mailboxes' = mailboxes
  /\ statuses' = [statuses EXCEPT ![handle[h].node] = None]
  /\ UNCHANGED <<boundVars, nodes, nodeStatuses, worker, lifeVars>>

Unregister(h) ==
  /\ In(h, "returned")
  /\ Enter(h, "unregistered")
  /\ mailboxes' = [mailboxes EXCEPT ![handle[h].node] = None]
  /\ statuses' = [statuses EXCEPT ![handle[h].node] = None]
  /\ UNCHANGED <<boundVars, nodes, nodeStatuses, worker, lifeVars>>

FinishNode(h) ==
  /\ In(h, "unregistered")
  /\ Enter(h, "finished")
  /\ nodes' = [nodes EXCEPT ![handle[h].node] = IF @ = h THEN None ELSE @]
  /\ UNCHANGED <<boundVars, routeVars, nodeStatuses, worker, lifeVars>>

\* Mutant: done is not closed after an error.
ShowFailureOnly(h) ==
  /\ In(h, "finished") /\ handle[h].failed
  /\ SetNodeStatus(handle[h].node, "failed")
  /\ UNCHANGED <<boundVars, nodes, handle, routeVars, worker, lifeVars>>

\* The second half of finishNode.
ShowFailure(h) ==
  /\ In(h, "finished") /\ handle[h].failed
  /\ handle' = [handle EXCEPT ![h].failed = FALSE]
  /\ SetNodeStatus(handle[h].node, "failed")
  /\ UNCHANGED <<boundVars, nodes, routeVars, worker, lifeVars>>

\* close(done)
Close(h) ==
  /\ In(h, "finished") /\ ~handle[h].failed
  /\ handle' = [handle EXCEPT ![h] = NoHandle]
  /\ UNCHANGED <<boundVars, nodes, routeVars, nodeStatuses, worker, lifeVars>>

-----------------------------------------------------------------------------
(* Run.                                                                    *)

\* The initial discovery; a failure ends the machine.
Boot ==
  /\ At(Main, "boot")
  /\ worker' = [worker EXCEPT ![Main].pc = "remove", ![Main].wanted = panel]
  /\ UNCHANGED <<boundVars, nodes, handle, routeVars, nodeStatuses, lifeVars>>

BootFails ==
  /\ At(Main, "boot")
  /\ Goto(Main, "returned")
  /\ UNCHANGED <<boundVars, nodes, handle, routeVars, nodeStatuses, lifeVars>>

\* tryStartWS
TryStartWS ==
  /\ At(Main, "connect")
  /\ ws' \in {"on", "off"}
  /\ Goto(Main, "start")
  /\ UNCHANGED <<boundVars, nodes, handle, routeVars, nodeStatuses, draining, shutdown>>

\* stopAll, in its two halves: the context of every node is cancelled already.
StopAll ==
  /\ At(Main, "idle") /\ shutdown
  /\ draining' = {nodes[n] : n \in Nodes} \ {None}
  /\ Goto(Main, "draining")
  /\ UNCHANGED <<boundVars, nodes, handle, routeVars, nodeStatuses, ws, shutdown>>

\* Mutant: stopAll waits for the nodes that serve only.
ReturnEarly ==
  /\ At(Main, "draining") /\ \A h \in draining : handle[h].phase # "serving"
  /\ draining' = {}
  /\ Goto(Main, "returned")
  /\ UNCHANGED <<boundVars, nodes, handle, routeVars, nodeStatuses, ws, shutdown>>

Return ==
  /\ At(Main, "draining") /\ \A h \in draining : handle[h].phase = "done"
  /\ draining' = {}
  /\ Goto(Main, "returned")
  /\ UNCHANGED <<boundVars, nodes, handle, routeVars, nodeStatuses, ws, shutdown>>

-----------------------------------------------------------------------------
\* The panel binds, unbinds and changes nodes.
ChangePanel ==
  /\ changes < MaxChanges
  /\ panel' \in Wishes /\ panel' # panel
  /\ changes' = changes + 1
  /\ UNCHANGED <<syncs, failures, nodes, handle, routeVars, nodeStatuses, worker, lifeVars>>

CancelContext ==
  /\ ~shutdown /\ shutdown' = TRUE
  /\ UNCHANGED <<boundVars, nodes, handle, routeVars, nodeStatuses, worker, draining, ws>>

\* What a worker does on its own.
Work(w) ==
  \/ Scan(w) \/ Reconcile(w) \/ Ends(w)
  \/ StopUnwanted(w) \/ StopChanged(w) \/ Cancel(w) \/ Await(w) \/ Forget(w)
  \/ StartNode(w) \/ Create(w) \/ Route(w) \/ Show(w) \/ Launch(w)

Serve(h) ==
  \/ RunBegins(h) \/ InitialFails(h) \/ \E healthy \in BOOLEAN : SetUp(h, healthy)
  \/ RunEnds(h) \/ Unregister(h) \/ FinishNode(h) \/ ShowFailure(h) \/ Close(h)

Run == Boot \/ BootFails \/ TryStartWS \/ RediscoverOnTick \/ StopAll \/ Return

Next ==
  \/ ChangePanel \/ CancelContext
  \/ Run
  \/ \E w \in Workers : RediscoverOnPush(w) \/ Work(w)
  \/ \E h \in Handles : Serve(h) \/ \E healthy \in BOOLEAN : ApplySnapshot(h, healthy)

Spec == Init /\ [][Next]_vars

\* Goroutines that can run do, the ticker fires and its request is answered again
\* and again, a cancelled context is seen.
LiveSpec ==
  /\ Spec
  /\ WF_vars(Boot \/ BootFails) /\ WF_vars(TryStartWS)
  /\ WF_vars(RediscoverOnTick \/ StopAll) /\ SF_vars(StopAll) /\ WF_vars(Return)
  /\ \A w \in Workers : WF_vars(Work(w))
  /\ \A h \in Handles : WF_vars(Serve(h) /\ UNCHANGED failures)

-----------------------------------------------------------------------------
(* Properties.                                                             *)

TypeOK ==
  /\ panel \in Wishes /\ changes \in Nat /\ syncs \in Nat /\ failures \in Nat
  /\ nodes \in [Nodes -> Handles \cup {None}]
  /\ handle \in [Handles -> HandleRecords]
  /\ mailboxes \in [Nodes -> Handles \cup {None}]
  /\ statuses \in [Nodes -> Handles \cup {None}]
  /\ nodeStatuses \in [Nodes -> Status \cup {None}]
  /\ worker \in [Workers -> WorkerRecords]
  /\ draining \subseteq Handles /\ ws \in {"unknown", "on", "off"} /\ shutdown \in BOOLEAN

\* From startNode to the return of Run.
Alive(h) == handle[h].phase \in {"prepared", "launched", "initial", "serving"}

\* Two services of one node would compete for its ports: however many rediscovers
\* stop and start it, a node has one.
OneService ==
  \A g, h \in Handles : Alive(g) /\ Alive(h) /\ handle[g].node = handle[h].node => g = h

\* The mux hands events and statuses to the service the node has now, or to none.
RoutedToOwner ==
  \A n \in Nodes : mailboxes[n] \in {None, nodes[n]} /\ statuses[n] \in {None, nodes[n]}

\* stopAll: when Run returns, no service that was started before the shutdown is left.
ShutdownWaits ==
  worker[Main].pc = "returned" => \A h \in Handles : Alive(h) => handle[h].late

InCharge == ~shutdown /\ worker[Main].pc # "returned"

Follows(n) ==
  IF panel[n] = None THEN nodes[n] = None
  ELSE /\ nodes[n] # None /\ handle[nodes[n]].phase = "serving"
       /\ handle[nodes[n]].kernel = panel[n]

\* Once the panel is quiet, exactly the nodes it wants are served, with the kernel it
\* selects: no failure, race or stale answer keeps a node out or in.
FollowsPanel == []InCharge => <>[](\A n \in Nodes : Follows(n))

\* Run returns after its context is cancelled.
ShutdownEnds == shutdown ~> worker[Main].pc = "returned"

AllRunning ==
  /\ InCharge
  /\ \A n \in Nodes : Follows(n) /\ (panel[n] # None => handle[nodes[n]].healthy)

\* "SetStatusHandler reports the aggregate state of all managed nodes."
HealthCatchesUp == <>[]AllRunning => <>[](Aggregate = "running")
=============================================================================
