---------------------- MODULE MachineOrchestratorProofs ----------------------
(***************************************************************************)
(* Proofs about MachineOrchestrator: one service per node, mailboxes of    *)
(* their owners and a shutdown that leaves none behind, for any nodes,     *)
(* kernels, number of concurrent rediscovers and bounds.                   *)
(***************************************************************************)
EXTENDS MachineOrchestrator, TLAPS

\* The phases in which a handle is in o.nodes.
Present == {"prepared", "launched", "initial", "serving", "returned", "unregistered"}

Holding(r) == r.pc \in {"route", "show", "launch"}

\* A worker inside startNode or stopNode knows its node, and most of the time a handle.
Placed(r) ==
  /\ r.pc \in {"find", "create", "cancel", "await", "forget", "route", "show", "launch"} =>
       r.node \in Nodes
  /\ r.pc \in {"cancel", "await", "forget", "route", "show", "launch"} => r.handle \in Handles

Typed == TypeOK /\ \A w \in Workers : Placed(worker[w])

\* nodes and the handles name each other.
Owned ==
  /\ \A n \in Nodes : nodes[n] # None =>
       handle[nodes[n]].node = n /\ handle[nodes[n]].phase \in Present
  /\ \A h \in Handles : handle[h].phase \in Present =>
       handle[h].node \in Nodes /\ nodes[handle[h].node] = h

Routed ==
  /\ RoutedToOwner
  /\ \A n \in Nodes : nodes[n] # None /\ handle[nodes[n]].phase = "unregistered" =>
       mailboxes[n] = None /\ statuses[n] = None

\* A handle is prepared by one worker, until that one launches it.
Held ==
  /\ \A w \in Workers : Holding(worker[w]) =>
       /\ handle[worker[w].handle].phase = "prepared"
       /\ handle[worker[w].handle].node = worker[w].node
  /\ \A v, w \in Workers :
       Holding(worker[v]) /\ Holding(worker[w]) /\ worker[v].handle = worker[w].handle => v = w

\* Before the WebSocket is tried there is no node.
Booting ==
  /\ worker[Main].pc = "boot" => ws = "unknown"
  /\ ws = "unknown" =>
       /\ worker[Main].pc \in {"boot", "remove", "connect", "returned"}
       /\ worker[Main].pc \in {"boot", "remove"} => worker[Main].todo = {}
       /\ \A w \in Syncs : worker[w].pc = "idle"
       /\ \A h \in Handles : handle[h].phase = "done"

\* What stopAll does not wait for came after the shutdown.
Ending ==
  /\ worker[Main].pc = "draining" =>
       shutdown /\ \A h \in Handles : Alive(h) => handle[h].late \/ h \in draining
  /\ worker[Main].pc = "returned" =>
       /\ ws = "unknown" \/ shutdown
       /\ \A h \in Handles : Alive(h) => handle[h].late

IInv == Typed /\ Owned /\ Routed /\ Held /\ Booting /\ Ending

-----------------------------------------------------------------------------
(* Steps of a worker that leave nodes and handles alone.                   *)

\* What a worker at this point may become.
Moves(w, r) ==
  /\ r \in WorkerRecords /\ Placed(r)
  /\ Holding(r) => /\ Holding(worker[w])
                   /\ r.handle = worker[w].handle /\ r.node = worker[w].node
  /\ w = Main => r.pc \notin {"boot", "draining"}
  /\ ws = "unknown" =>
       /\ w = Main /\ r.pc \in {"remove", "connect", "returned"}
       /\ r.pc = "remove" => r.todo = {}
  /\ w = Main /\ ws # "unknown" => r.pc # "returned"

LEMMA Moved ==
  ASSUME IInv, NEW w \in Workers, NEW r, Moves(w, r),
         worker' = [worker EXCEPT ![w] = r],
         UNCHANGED <<nodes, handle, statuses, lifeVars>>,
         \/ mailboxes' = mailboxes
         \/ \E n \in Nodes : mailboxes' = [mailboxes EXCEPT ![n] = None]
  PROVE  /\ worker' \in [Workers -> WorkerRecords] /\ \A v \in Workers : Placed(worker'[v])
         /\ Owned' /\ Routed' /\ Held' /\ Booting' /\ Ending'
<1>0. worker \in [Workers -> WorkerRecords] /\ mailboxes \in [Nodes -> Handles \cup {None}]
      /\ Main \in Workers
  BY DEF IInv, Typed, TypeOK, Workers
<1>1. /\ worker'[w] = r /\ \A v \in Workers \ {w} : worker'[v] = worker[v]
      /\ worker' \in [Workers -> WorkerRecords]
  BY <1>0 DEF Moves
<1>2. \A v \in Workers : Placed(worker'[v])
  BY <1>1 DEF IInv, Typed, Moves
<1>3. Owned'
  BY DEF IInv, Owned
<1>4. \A n \in Nodes : mailboxes'[n] \in {None, mailboxes[n]}
  BY <1>0
<1>5. Routed'
  BY <1>4 DEF IInv, Routed, RoutedToOwner
<1>6. Held'
  BY <1>1 DEF IInv, Held, Moves, Holding
<1>7. Booting'
  BY <1>0, <1>1 DEF IInv, Booting, Moves, lifeVars, Workers
<1>8. Ending'
  BY <1>0, <1>1 DEF IInv, Ending, Booting, Moves, lifeVars, Alive
<1> QED BY <1>1, <1>2, <1>3, <1>5, <1>6, <1>7, <1>8

\* Except where it boots, a worker that does something finds the WebSocket tried.
LEMMA Booted ==
  ASSUME IInv, NEW w \in Workers,
         worker[w].pc \notin {"boot", "remove", "connect", "returned", "idle"}
  PROVE  ws # "unknown"
BY DEF IInv, Booting, Workers

LEMMA FreeToMove ==
  ASSUME NEW w \in Workers, NEW r \in WorkerRecords, ws # "unknown", ~Holding(r), Placed(r),
         r.pc \notin {"boot", "draining", "returned"}
  PROVE  Moves(w, r)
BY DEF Moves

LEMMA RediscoverStep ==
  ASSUME IInv, NEW w \in Workers, At(w, "idle"), w # Main => ws = "on", Rediscover(w),
         syncs' \in Nat
  PROVE  IInv'
<1> DEFINE r == [worker[w] EXCEPT !.pc = "scan", !.wanted = panel]
<1>0. worker \in [Workers -> WorkerRecords] /\ Main \in Workers
  BY DEF IInv, Typed, TypeOK, Workers
<1>1. Moves(w, r)
  <2>1. worker[w] \in WorkerRecords /\ panel \in Wishes
    BY <1>0 DEF IInv, Typed, TypeOK
  <2>2. r \in WorkerRecords /\ r.pc = "scan"
    BY <2>1 DEF WorkerRecords
  <2>3. ws # "unknown"
    BY DEF At, IInv, Booting
  <2> HIDE DEF r
  <2> QED BY <2>2, <2>3, FreeToMove DEF Placed, Holding
<1>2. worker' = [worker EXCEPT ![w] = r]
  BY <1>0 DEF Rediscover
<1> HIDE DEF r
<1> QED BY <1>1, <1>2, Moved
        DEF Rediscover, IInv, Typed, TypeOK, boundVars, routeVars, lifeVars

LEMMA ScanStep ==
  ASSUME IInv, NEW w \in Workers, Scan(w)
  PROVE  IInv'
<1> DEFINE r == [worker[w] EXCEPT !.pc = "remove",
                     !.todo = {n \in Nodes : nodes[n] # None /\ worker[w].wanted[n] = None}]
<1>0. worker \in [Workers -> WorkerRecords] /\ Main \in Workers
  BY DEF IInv, Typed, TypeOK, Workers
<1>1. Moves(w, r)
  <2>1. worker[w] \in WorkerRecords /\ ws # "unknown"
    BY <1>0, Booted DEF Scan, At
  <2>2. r \in WorkerRecords /\ r.pc = "remove"
    BY <2>1 DEF WorkerRecords
  <2> HIDE DEF r
  <2> QED BY <2>1, <2>2, FreeToMove DEF Placed, Holding
<1>2. worker' = [worker EXCEPT ![w] = r]
  BY <1>0 DEF Scan, Goto
<1> HIDE DEF r
<1> QED BY <1>1, <1>2, Moved
        DEF Scan, IInv, Typed, TypeOK, boundVars, routeVars, lifeVars, Workers, Status

LEMMA ReconcileStep ==
  ASSUME IInv, NEW w \in Workers, Reconcile(w)
  PROVE  IInv'
<1> DEFINE r == [worker[w] EXCEPT
                     !.pc = IF ws = "unknown" THEN "connect" ELSE "start",
                     !.todo = {n \in Nodes : worker[w].wanted[n] # None}]
<1>0. worker \in [Workers -> WorkerRecords] /\ Main \in Workers
  BY DEF IInv, Typed, TypeOK, Workers
<1>1. Moves(w, r)
  <2>1. worker[w] \in WorkerRecords /\ worker[w].pc = "remove"
    BY <1>0 DEF Reconcile, At
  <2>2. ws = "unknown" => w = Main
    BY <2>1 DEF IInv, Booting, Workers
  <2>3. CASE ws = "unknown"
    BY <2>1, <2>2, <2>3 DEF Moves, Placed, Holding, WorkerRecords
  <2>4. CASE ws # "unknown"
    BY <2>1, <2>4 DEF Moves, Placed, Holding, WorkerRecords
  <2> QED BY <2>3, <2>4
<1>2. worker' = [worker EXCEPT ![w] = r]
  BY <1>0 DEF Reconcile, Goto, Workers
<1> HIDE DEF r
<1> QED BY <1>1, <1>2, Moved
        DEF Reconcile, IInv, Typed, TypeOK, boundVars, routeVars, lifeVars, Workers, Status, Workers

LEMMA EndsStep ==
  ASSUME IInv, NEW w \in Workers, Ends(w)
  PROVE  IInv'
<1> DEFINE r == Idle
<1>0. worker \in [Workers -> WorkerRecords] /\ Main \in Workers
  BY DEF IInv, Typed, TypeOK, Workers
<1>1. Moves(w, r)
  BY <1>0, Booted DEF Ends, At, Moves, IInv, Typed, TypeOK, Booting, Placed, Holding,
     WorkerRecords, Wishes, Idle
<1>2. worker' = [worker EXCEPT ![w] = r]
  BY <1>0 DEF Ends, Goto, Idle
<1> HIDE DEF r
<1> QED BY <1>1, <1>2, Moved
        DEF Ends, IInv, Typed, TypeOK, boundVars, routeVars, lifeVars, Workers, Status, Idle

LEMMA FindStep ==
  ASSUME IInv, NEW w \in Workers, NEW n \in Nodes, NEW back \in {"remove", "create"},
         Find(w, n, back), ws # "unknown", back = "create" => worker[w].node \in Nodes,
         worker[w].pc \in {"remove", "find"}
  PROVE  IInv'
<1> DEFINE r == IF nodes[n] # None
                  THEN [worker[w] EXCEPT !.pc = "cancel", !.todo = worker[w].todo \ {n},
                                         !.node = n, !.handle = nodes[n], !.back = back]
                  ELSE [worker[w] EXCEPT !.pc = back, !.todo = worker[w].todo \ {n}]
<1>0. worker \in [Workers -> WorkerRecords] /\ Main \in Workers
  BY DEF IInv, Typed, TypeOK, Workers
<1>1. Moves(w, r)
  <2>1. worker[w] \in WorkerRecords /\ nodes[n] \in Handles \cup {None}
    BY <1>0 DEF IInv, Typed, TypeOK
  <2>2. r \in WorkerRecords /\ ~Holding(r) /\ r.pc \in {"cancel", "remove", "create"}
    BY <2>1 DEF WorkerRecords, Holding
  <2>3. Placed(r)
    BY <2>1 DEF Placed, WorkerRecords
  <2> HIDE DEF r
  <2> QED BY <2>2, <2>3, FreeToMove
<1>2. worker' = [worker EXCEPT ![w] = r]
  <2>1. CASE nodes[n] # None
    BY <1>0, <2>1 DEF Find
  <2>2. CASE nodes[n] = None
    BY <1>0, <2>2 DEF Find
  <2> QED BY <2>1, <2>2
<1> HIDE DEF r
<1> QED BY <1>1, <1>2, Moved DEF Find, IInv, Typed, TypeOK, boundVars, routeVars, lifeVars

LEMMA StopUnwantedStep ==
  ASSUME IInv, NEW w \in Workers, StopUnwanted(w)
  PROVE  IInv'
<1>1. PICK n \in worker[w].todo : Find(w, n, "remove")
  BY DEF StopUnwanted
<1>2. n \in Nodes /\ worker[w].pc = "remove"
  BY DEF StopUnwanted, At, IInv, Typed, TypeOK, WorkerRecords
<1>3. ws # "unknown"
  BY <1>1, <1>2 DEF IInv, Booting, Workers
<1> QED BY <1>1, <1>2, <1>3, FindStep

LEMMA StopChangedStep ==
  ASSUME IInv, NEW w \in Workers, StopChanged(w)
  PROVE  IInv'
<1>1. worker[w].node \in Nodes /\ worker[w].pc = "find"
  BY DEF StopChanged, At, IInv, Typed, Placed
<1> QED BY <1>1, FindStep, Booted DEF StopChanged

LEMMA AwaitStep ==
  ASSUME IInv, NEW w \in Workers, Await(w)
  PROVE  IInv'
<1> DEFINE r == [worker[w] EXCEPT !.pc = "forget"]
<1>0. worker \in [Workers -> WorkerRecords] /\ Main \in Workers
      /\ nodes \in [Nodes -> Handles \cup {None}]
  BY DEF IInv, Typed, TypeOK, Workers
<1>1. Moves(w, r)
  <2>1. /\ worker[w] \in WorkerRecords /\ worker[w].pc = "await" /\ ws # "unknown"
        /\ Placed(worker[w])
    BY <1>0, Booted DEF Await, At, IInv, Typed
  <2>2. /\ r \in WorkerRecords /\ r.pc = "forget" /\ r.node = worker[w].node
        /\ r.handle = worker[w].handle
    BY <2>1 DEF WorkerRecords
  <2> HIDE DEF r
  <2> QED BY <2>1, <2>2, FreeToMove DEF Placed, Holding
<1>2. worker' = [worker EXCEPT ![w] = r]
  BY <1>0 DEF Await, Goto
<1>3. nodes' = nodes
  <2>1. worker[w].node \in Nodes /\ worker[w].handle \in Handles
        /\ handle[worker[w].handle].phase \notin Present
    BY DEF Await, At, IInv, Typed, Placed, Present
  <2>2. nodes[worker[w].node] # worker[w].handle
    BY <2>1, OrchestratorAssumption DEF IInv, Owned
  <2> QED BY <1>0, <2>1, <2>2 DEF Await
<1> HIDE DEF r
<1> QED BY <1>1, <1>2, <1>3, Moved DEF Await, IInv, Typed, TypeOK, boundVars, routeVars, lifeVars

LEMMA ForgetStep ==
  ASSUME IInv, NEW w \in Workers, Forget(w)
  PROVE  IInv'
<1> DEFINE r == IF worker[w].back = "create"
                  THEN [worker[w] EXCEPT !.pc = "create", !.handle = None]
                  ELSE Resume(worker[w], "remove")
<1>0. worker \in [Workers -> WorkerRecords] /\ Main \in Workers
  BY DEF IInv, Typed, TypeOK, Workers
<1>1. Moves(w, r)
  <2>1. worker[w] \in WorkerRecords /\ worker[w].pc = "forget" /\ worker[w].node \in Nodes
    BY <1>0 DEF Forget, At, IInv, Typed, Placed
  <2>2. ws # "unknown"
    BY <2>1, Booted
  <2>3. CASE worker[w].back = "create"
    BY <2>1, <2>2, <2>3 DEF Moves, Placed, Holding, WorkerRecords
  <2>4. CASE worker[w].back # "create"
    BY <2>1, <2>2, <2>4 DEF Moves, Placed, Holding, WorkerRecords, Resume
  <2> QED BY <2>3, <2>4
<1>2. worker' = [worker EXCEPT ![w] = r]
  BY <1>0 DEF Forget, Goto, Resume, SetNodeStatus
<1> HIDE DEF r
<1> QED BY <1>1, <1>2, Moved
        DEF Forget, IInv, Typed, TypeOK, boundVars, routeVars, lifeVars, Status, SetNodeStatus

LEMMA ShowStep ==
  ASSUME IInv, NEW w \in Workers, Show(w)
  PROVE  IInv'
<1> DEFINE r == [worker[w] EXCEPT !.pc = "launch"]
<1>0. worker \in [Workers -> WorkerRecords] /\ Main \in Workers
  BY DEF IInv, Typed, TypeOK, Workers
<1>1. Moves(w, r)
  <2>1. /\ worker[w] \in WorkerRecords /\ worker[w].pc = "show" /\ ws # "unknown"
        /\ Placed(worker[w])
    BY <1>0, Booted DEF Show, At, IInv, Typed
  <2>2. /\ r \in WorkerRecords /\ r.pc = "launch" /\ r.node = worker[w].node
        /\ r.handle = worker[w].handle
    BY <2>1 DEF WorkerRecords
  <2> HIDE DEF r
  <2> QED BY <2>1, <2>2 DEF Moves, Placed, Holding
<1>2. worker' = [worker EXCEPT ![w] = r]
  BY <1>0 DEF Show, Goto, SetNodeStatus
<1> HIDE DEF r
<1> QED BY <1>1, <1>2, Moved
        DEF Show, IInv, Typed, TypeOK, boundVars, routeVars, lifeVars, Status, SetNodeStatus

LEMMA InsertStep ==
  ASSUME IInv, NEW w \in Workers, NEW n \in Nodes, worker[w].pc \in {"start", "create"},
         nodes[n] = None, Insert(w, n)
  PROVE  IInv'
<1> DEFINE h == CHOOSE g \in Handles : Free(g)
           q == [NoHandle EXCEPT !.node = n, !.kernel = worker[w].wanted[n],
                                 !.phase = "prepared", !.late = shutdown]
           r == [worker[w] EXCEPT !.pc = "route", !.todo = worker[w].todo \ {n},
                                  !.node = n, !.handle = h]
<1>0. /\ worker \in [Workers -> WorkerRecords] /\ Main \in Workers
      /\ nodes \in [Nodes -> Handles \cup {None}] /\ handle \in [Handles -> HandleRecords]
      /\ shutdown \in BOOLEAN /\ ws # "unknown"
  BY Booted DEF IInv, Typed, TypeOK, Workers
<1>1. h \in Handles /\ Free(h)
  BY DEF Insert
<1>2. nodes' = [nodes EXCEPT ![n] = h] /\ handle' = [handle EXCEPT ![h] = q]
      /\ worker' = [worker EXCEPT ![w] = r]
  BY <1>0 DEF Insert
<1>3. /\ q \in HandleRecords /\ q.node = n /\ q.phase = "prepared" /\ q.late = shutdown
      /\ r \in WorkerRecords /\ r.pc = "route" /\ r.node = n /\ r.handle = h
  <2>1. worker[w] \in WorkerRecords /\ worker[w].wanted[n] \in Kernels \cup {None}
    BY <1>0 DEF WorkerRecords, Wishes
  <2>2. r \in WorkerRecords /\ r.pc = "route" /\ r.node = n /\ r.handle = h
    BY <1>1, <2>1 DEF WorkerRecords
  <2>3. q.node = n /\ q.phase = "prepared" /\ q.late = shutdown
    BY DEF NoHandle
  <2>4. NoHandle \in HandleRecords
    BY DEF NoHandle, HandleRecords, Phases
  <2>5. q \in HandleRecords
    BY <1>0, <2>1, <2>4 DEF HandleRecords, Phases
  <2> QED BY <2>2, <2>3, <2>5
<1>4. handle[h].phase = "done" /\ h \notin draining /\ h # None
      /\ \A v \in Workers : worker[v].handle # h
  BY <1>1, OrchestratorAssumption DEF Free
<1>5. /\ UNCHANGED <<boundVars, routeVars, nodeStatuses, lifeVars>>
  BY DEF Insert
<1> HIDE DEF h, q, r
<1>6. /\ nodes'[n] = h /\ \A m \in Nodes \ {n} : nodes'[m] = nodes[m]
      /\ handle'[h] = q /\ \A g \in Handles \ {h} : handle'[g] = handle[g]
      /\ worker'[w] = r /\ \A v \in Workers \ {w} : worker'[v] = worker[v]
  BY <1>0, <1>1, <1>2
<1>7. Typed'
  <2>1. TypeOK
    BY DEF IInv, Typed
  <2>2. /\ nodes' \in [Nodes -> Handles \cup {None}] /\ handle' \in [Handles -> HandleRecords]
        /\ worker' \in [Workers -> WorkerRecords]
    BY <1>0, <1>1, <1>2, <1>3
  <2>3. TypeOK'
    BY <1>5, <2>1, <2>2 DEF TypeOK, boundVars, routeVars, lifeVars
  <2>4. \A v \in Workers : Placed(worker'[v])
    BY <1>1, <1>3, <1>6 DEF IInv, Typed, Placed
  <2> QED BY <2>3, <2>4 DEF Typed
<1>8. Owned'
  <2>1. \A m \in Nodes : nodes[m] # h
    BY <1>4 DEF IInv, Owned, Present
  <2>2. \A g \in Handles : handle[g].phase \in Present => handle[g].node # n
    BY OrchestratorAssumption DEF IInv, Owned
  <2> QED BY <1>0, <1>1, <1>3, <1>4, <1>6, <2>1, <2>2 DEF IInv, Owned, Present
<1>9. Routed'
  <2>1. mailboxes[n] = None /\ statuses[n] = None
    BY DEF IInv, Routed, RoutedToOwner
  <2>2. \A m \in Nodes : nodes[m] # None => nodes[m] \in Handles /\ nodes[m] # h
    BY <1>0, <1>4 DEF IInv, Owned, Present
  <2> QED BY <1>3, <1>5, <1>6, <2>1, <2>2 DEF IInv, Routed, RoutedToOwner, routeVars
<1>10. Held'
  <2>1. \A v \in Workers : Holding(worker[v]) => worker[v].handle \in Handles
    BY DEF IInv, Typed, Placed, Holding
  <2> QED BY <1>3, <1>4, <1>6, <2>1 DEF IInv, Held, Holding
<1>11. Booting'
  BY <1>0, <1>3, <1>5, <1>6 DEF IInv, Booting, lifeVars
<1>12. Ending'
  BY <1>0, <1>1, <1>3, <1>4, <1>5, <1>6 DEF IInv, Ending, Alive, lifeVars
<1> QED BY <1>7, <1>8, <1>9, <1>10, <1>11, <1>12 DEF IInv

LEMMA StartNodeStep ==
  ASSUME IInv, NEW w \in Workers, StartNode(w)
  PROVE  IInv'
<1>0. /\ worker \in [Workers -> WorkerRecords] /\ Main \in Workers
      /\ worker[w].pc = "start" /\ ws # "unknown" /\ worker[w].todo \subseteq Nodes
  BY Booted DEF StartNode, At, IInv, Typed, TypeOK, Workers, WorkerRecords
<1>1. ASSUME NEW n \in worker[w].todo, nodes[n] = None, Insert(w, n)
      PROVE  IInv'
  BY <1>0, <1>1, InsertStep
<1>2. ASSUME NEW n \in Nodes, NEW pc \in {"start", "find"}, NEW node \in Nodes \cup {None},
             pc = "find" => node \in Nodes,
             worker' = [worker EXCEPT ![w] = [worker[w] EXCEPT !.todo = worker[w].todo \ {n},
                                                               !.pc = pc, !.node = node]],
             UNCHANGED <<boundVars, nodes, handle, routeVars, nodeStatuses, lifeVars>>
      PROVE  IInv'
  <2> DEFINE r == [worker[w] EXCEPT !.todo = worker[w].todo \ {n}, !.pc = pc, !.node = node]
  <2>1. Moves(w, r)
    <3>1. worker[w] \in WorkerRecords
      BY <1>0
    <3>2. r \in WorkerRecords /\ r.pc = pc /\ r.node = node
      BY <3>1 DEF WorkerRecords
    <3> HIDE DEF r
    <3> QED BY <1>0, <1>2, <3>2, FreeToMove DEF Placed, Holding
  <2> HIDE DEF r
  <2> QED BY <1>2, <2>1, Moved DEF r, IInv, Typed, TypeOK, boundVars, routeVars, lifeVars
<1>3. ASSUME NEW n \in worker[w].todo, worker' = [worker EXCEPT ![w].todo = @ \ {n}],
             UNCHANGED <<boundVars, nodes, handle, routeVars, nodeStatuses, lifeVars>>
      PROVE  IInv'
  <2>1. worker' = [worker EXCEPT ![w] = [worker[w] EXCEPT !.todo = worker[w].todo \ {n},
                                           !.pc = "start", !.node = worker[w].node]]
    BY <1>0, <1>3 DEF WorkerRecords
  <2>2. worker[w].node \in Nodes \cup {None}
    BY <1>0 DEF WorkerRecords
  <2> QED BY <1>0, <1>2, <1>3, <2>1, <2>2
<1>4. ASSUME NEW n \in worker[w].todo,
             worker' = [worker EXCEPT ![w].todo = @ \ {n}, ![w].pc = "find", ![w].node = n],
             UNCHANGED <<boundVars, nodes, handle, routeVars, nodeStatuses, lifeVars>>
      PROVE  IInv'
  <2>1. worker' = [worker EXCEPT ![w] = [worker[w] EXCEPT !.todo = worker[w].todo \ {n},
                                           !.pc = "find", !.node = n]]
    BY <1>0, <1>4
  <2> QED BY <1>0, <1>2, <1>4, <2>1
<1> QED BY <1>1, <1>3, <1>4 DEF StartNode

LEMMA CreateStep ==
  ASSUME IInv, NEW w \in Workers, Create(w)
  PROVE  IInv'
<1>0. /\ worker \in [Workers -> WorkerRecords] /\ Main \in Workers
      /\ worker[w].pc = "create" /\ ws # "unknown" /\ worker[w].node \in Nodes
  BY Booted DEF Create, At, IInv, Typed, TypeOK, Workers, Placed
<1> DEFINE r == Resume(worker[w], "start")
<1>1. Moves(w, r)
  <2>1. worker[w] \in WorkerRecords
    BY <1>0
  <2>2. r \in WorkerRecords /\ r.pc = "start"
    BY <2>1 DEF WorkerRecords, Resume
  <2> HIDE DEF r
  <2> QED BY <1>0, <2>2, FreeToMove DEF Placed, Holding
<1>2. CASE nodes[worker[w].node] = None /\ Insert(w, worker[w].node)
  BY <1>0, <1>2, InsertStep
<1>3. CASE /\ worker' = [worker EXCEPT ![w] = r]
           /\ UNCHANGED <<boundVars, nodes, handle, routeVars, nodeStatuses, lifeVars>>
  <2> HIDE DEF r
  <2> QED BY <1>1, <1>3, Moved DEF IInv, Typed, TypeOK, boundVars, routeVars, lifeVars
<1> QED BY <1>2, <1>3 DEF Create

LEMMA CancelStep ==
  ASSUME IInv, NEW w \in Workers, Cancel(w)
  PROVE  IInv'
<1> DEFINE r == [worker[w] EXCEPT !.pc = "await"]
           h == worker[w].handle
           q == [handle[h] EXCEPT !.cancelled = TRUE]
<1>0. /\ worker \in [Workers -> WorkerRecords] /\ Main \in Workers
      /\ handle \in [Handles -> HandleRecords]
      /\ worker[w].pc = "cancel" /\ ws # "unknown" /\ worker[w].node \in Nodes /\ h \in Handles
  BY Booted DEF Cancel, At, IInv, Typed, TypeOK, Workers, Placed
<1>1. /\ worker' = [worker EXCEPT ![w] = r] /\ handle' = [handle EXCEPT ![h] = q]
      /\ mailboxes' = [mailboxes EXCEPT ![worker[w].node] = None]
      /\ UNCHANGED <<boundVars, nodes, statuses, nodeStatuses, lifeVars>>
  <2>1. handle' = [handle EXCEPT ![h] = q]
    BY <1>0 DEF Cancel
  <2>2. worker' = [worker EXCEPT ![w] = r]
    BY <1>0 DEF Cancel, Goto
  <2> QED BY <2>1, <2>2 DEF Cancel
<1>2. q \in HandleRecords /\ q.node = handle[h].node /\ q.phase = handle[h].phase
      /\ q.late = handle[h].late
  <2>1. handle[h] \in HandleRecords
    BY <1>0
  <2> QED BY <2>1 DEF HandleRecords
<1>3. /\ r \in WorkerRecords /\ r.pc = "await" /\ r.node = worker[w].node
      /\ r.handle = worker[w].handle
  BY <1>0 DEF WorkerRecords
<1> HIDE DEF r, q
<1>4. /\ \A g \in Handles : /\ handle'[g].node = handle[g].node
                            /\ handle'[g].phase = handle[g].phase
                            /\ handle'[g].late = handle[g].late
      /\ handle' \in [Handles -> HandleRecords]
  BY <1>0, <1>1, <1>2
<1>5. /\ worker'[w] = r /\ \A v \in Workers \ {w} : worker'[v] = worker[v]
      /\ worker' \in [Workers -> WorkerRecords]
  BY <1>0, <1>1, <1>3
<1>6. mailboxes \in [Nodes -> Handles \cup {None}] /\ nodes \in [Nodes -> Handles \cup {None}]
  BY DEF IInv, Typed, TypeOK
<1>7. Typed'
  <2>1. TypeOK'
    BY <1>0, <1>1, <1>4, <1>5 DEF IInv, Typed, TypeOK, boundVars, lifeVars
  <2> QED BY <1>0, <1>3, <1>5, <2>1 DEF IInv, Typed, Placed
<1>8. Owned'
  BY <1>1, <1>4, <1>6 DEF IInv, Owned
<1>9. Routed'
  BY <1>0, <1>1, <1>4, <1>6 DEF IInv, Routed, RoutedToOwner
<1>10. Held'
  <2>1. \A v \in Workers : Holding(worker'[v]) =>
          worker'[v] = worker[v] /\ worker[v].handle \in Handles
    BY <1>3, <1>5 DEF IInv, Typed, Placed, Holding
  <2> QED BY <1>4, <2>1 DEF IInv, Held
<1>11. Booting'
  BY <1>0, <1>1, <1>3, <1>5 DEF IInv, Booting, lifeVars
<1>12. Ending'
  BY <1>0, <1>1, <1>3, <1>4, <1>5 DEF IInv, Ending, Alive, lifeVars
<1> QED BY <1>7, <1>8, <1>9, <1>10, <1>11, <1>12 DEF IInv

LEMMA RouteStep ==
  ASSUME IInv, NEW w \in Workers, Route(w)
  PROVE  IInv'
<1> DEFINE r == [worker[w] EXCEPT !.pc = "show"]
           n == worker[w].node
           h == worker[w].handle
<1>0. /\ worker \in [Workers -> WorkerRecords] /\ Main \in Workers
      /\ worker[w].pc = "route" /\ ws # "unknown" /\ n \in Nodes /\ h \in Handles
      /\ mailboxes \in [Nodes -> Handles \cup {None}]
  BY Booted DEF Route, At, IInv, Typed, TypeOK, Workers, Placed
<1>1. nodes[n] = h /\ handle[h].phase = "prepared"
  BY <1>0 DEF IInv, Held, Holding, Owned, Present
<1>2. Moves(w, r)
  BY <1>0 DEF Moves, IInv, Typed, Placed, Holding, WorkerRecords
<1>3. worker' = [worker EXCEPT ![w] = r]
      /\ UNCHANGED <<boundVars, nodes, handle, statuses, nodeStatuses, lifeVars>>
  BY <1>0 DEF Route, Goto
<1>4. mailboxes' = [mailboxes EXCEPT ![n] = h]
  BY DEF Route
<1> HIDE DEF r, n, h
<1>5. Routed'
  BY <1>0, <1>1, <1>3, <1>4 DEF IInv, Routed, RoutedToOwner
<1>6. worker' \in [Workers -> WorkerRecords] /\ \A v \in Workers : Placed(worker'[v])
  BY <1>0, <1>2, <1>3 DEF Moves, IInv, Typed
<1>7. Owned'
  BY <1>3 DEF IInv, Owned
<1>8. Held'
  BY <1>0, <1>2, <1>3 DEF IInv, Held, Moves, Holding
<1>9. Booting' /\ Ending'
  BY <1>0, <1>2, <1>3 DEF IInv, Booting, Ending, Moves, lifeVars, Alive
<1>10. Typed'
  BY <1>0, <1>3, <1>4, <1>6 DEF IInv, Typed, TypeOK, boundVars, lifeVars
<1> QED BY <1>5, <1>7, <1>8, <1>9, <1>10 DEF IInv

LEMMA LaunchStep ==
  ASSUME IInv, NEW w \in Workers, Launch(w)
  PROVE  IInv'
<1> DEFINE r == Resume(worker[w], "start")
           h == worker[w].handle
           q == [handle[h] EXCEPT !.phase = "launched"]
<1>0. /\ worker \in [Workers -> WorkerRecords] /\ Main \in Workers
      /\ handle \in [Handles -> HandleRecords]
      /\ worker[w].pc = "launch" /\ ws # "unknown" /\ h \in Handles
  BY Booted DEF Launch, At, IInv, Typed, TypeOK, Workers, Placed
<1>1. /\ worker' = [worker EXCEPT ![w] = r] /\ handle' = [handle EXCEPT ![h] = q]
      /\ UNCHANGED <<boundVars, nodes, routeVars, nodeStatuses, lifeVars>>
  BY <1>0 DEF Launch
<1>2. handle[h].phase = "prepared"
  BY <1>0 DEF IInv, Held, Holding
<1>3. q \in HandleRecords /\ q.node = handle[h].node /\ q.phase = "launched"
      /\ q.late = handle[h].late
  BY <1>0 DEF HandleRecords, Phases
<1>4. r \in WorkerRecords /\ r.pc = "start"
  <2>1. worker[w] \in WorkerRecords
    BY <1>0
  <2> QED BY <2>1 DEF WorkerRecords, Resume
<1> HIDE DEF r, q
<1>5. /\ handle'[h] = q /\ \A g \in Handles \ {h} : handle'[g] = handle[g]
      /\ handle' \in [Handles -> HandleRecords]
  BY <1>0, <1>1, <1>3
<1>6. /\ worker'[w] = r /\ \A v \in Workers \ {w} : worker'[v] = worker[v]
      /\ worker' \in [Workers -> WorkerRecords]
  BY <1>0, <1>1, <1>4
<1>7. Typed'
  <2>1. TypeOK'
    BY <1>1, <1>5, <1>6 DEF IInv, Typed, TypeOK, boundVars, routeVars, lifeVars
  <2> QED BY <1>4, <1>6, <2>1 DEF IInv, Typed, Placed
<1>8. Owned'
  BY <1>0, <1>1, <1>2, <1>3, <1>5 DEF IInv, Typed, TypeOK, Owned, Present
<1>9. Routed'
  BY <1>0, <1>1, <1>2, <1>3, <1>5 DEF IInv, Typed, TypeOK, Routed, RoutedToOwner, routeVars
<1>10. Held'
  <2>1. \A v \in Workers : Holding(worker'[v]) =>
          /\ worker'[v] = worker[v] /\ v # w /\ worker[v].handle \in Handles
    BY <1>4, <1>6 DEF IInv, Typed, Placed, Holding
  <2>2. \A v \in Workers : Holding(worker'[v]) => worker[v].handle # h
    BY <1>0, <2>1 DEF IInv, Held, Holding
  <2> QED BY <1>5, <2>1, <2>2 DEF IInv, Held
<1>11. Booting'
  BY <1>0, <1>1, <1>4, <1>6 DEF IInv, Booting, lifeVars
<1>12. Ending'
  BY <1>0, <1>1, <1>2, <1>3, <1>4, <1>5, <1>6 DEF IInv, Ending, Alive, lifeVars
<1> QED BY <1>7, <1>8, <1>9, <1>10, <1>11, <1>12 DEF IInv

-----------------------------------------------------------------------------
(* Run.                                                                    *)

LEMMA BootStep ==
  ASSUME IInv, Boot \/ BootFails
  PROVE  IInv'
<1> DEFINE r == IF Boot THEN [worker[Main] EXCEPT !.pc = "remove", !.wanted = panel]
                ELSE [worker[Main] EXCEPT !.pc = "returned"]
<1>0. /\ worker \in [Workers -> WorkerRecords] /\ Main \in Workers /\ panel \in Wishes
      /\ worker[Main].pc = "boot" /\ ws = "unknown" /\ worker[Main].todo = {}
  BY DEF Boot, BootFails, At, IInv, Typed, TypeOK, Workers, Booting
<1>1. Moves(Main, r)
  <2>1. CASE Boot
    <3>1. worker[Main] \in WorkerRecords
      BY <1>0
    <3>2. r \in WorkerRecords /\ r.pc = "remove" /\ r.todo = {}
      BY <1>0, <2>1, <3>1 DEF WorkerRecords
    <3> HIDE DEF r
    <3> QED BY <1>0, <3>2 DEF Moves, Placed, Holding
  <2>2. CASE ~Boot
    BY <1>0, <2>2 DEF Moves, Placed, Holding, WorkerRecords
  <2> QED BY <2>1, <2>2
<1>2. worker' = [worker EXCEPT ![Main] = r]
      /\ UNCHANGED <<boundVars, nodes, handle, routeVars, nodeStatuses, lifeVars>>
  <2>1. CASE Boot
    BY <1>0, <2>1 DEF Boot
  <2>2. CASE ~Boot
    BY <1>0, <2>2 DEF BootFails, Goto
  <2> QED BY <2>1, <2>2
<1> HIDE DEF r
<1> QED BY <1>0, <1>1, <1>2, Moved DEF IInv, Typed, TypeOK, boundVars, routeVars, lifeVars

\* Steps of the main loop that touch lifeVars.
LEMMA MainMoved ==
  ASSUME IInv, NEW pc \in {"start", "draining", "returned"},
         ~Holding(worker[Main]), worker' = [worker EXCEPT ![Main].pc = pc],
         UNCHANGED <<boundVars, nodes, handle, routeVars, nodeStatuses>>,
         draining' \subseteq Handles, ws' \in {"on", "off"}, shutdown' \in BOOLEAN
  PROVE  /\ worker'[Main].pc = pc
         /\ Typed' /\ Owned' /\ Routed' /\ Held' /\ Booting'
<1>0. worker \in [Workers -> WorkerRecords] /\ Main \in Workers
  BY DEF IInv, Typed, TypeOK, Workers
<1> DEFINE r == [worker[Main] EXCEPT !.pc = pc]
<1>1. r \in WorkerRecords /\ r.pc = pc
  BY <1>0 DEF WorkerRecords
<1>2. worker' = [worker EXCEPT ![Main] = r]
  BY <1>0
<1> HIDE DEF r
<1>3. /\ worker'[Main] = r /\ \A v \in Workers \ {Main} : worker'[v] = worker[v]
      /\ worker' \in [Workers -> WorkerRecords]
  BY <1>0, <1>1, <1>2
<1>4. TypeOK'
  BY <1>3 DEF IInv, Typed, TypeOK, boundVars, routeVars
<1>5. \A v \in Workers : Placed(worker'[v])
  BY <1>1, <1>3 DEF IInv, Typed, Placed
<1>6. Owned' /\ Routed'
  BY DEF IInv, Owned, Routed, RoutedToOwner, routeVars
<1>7. Held'
  BY <1>1, <1>3 DEF IInv, Held, Holding
<1>8. Booting'
  BY <1>1, <1>3 DEF Booting
<1> QED BY <1>1, <1>3, <1>4, <1>5, <1>6, <1>7, <1>8 DEF Typed

LEMMA TryStartWSStep ==
  ASSUME IInv, TryStartWS
  PROVE  IInv'
<1>1. Typed' /\ Owned' /\ Routed' /\ Held' /\ Booting' /\ worker'[Main].pc = "start"
  <2>1. ~Holding(worker[Main])
    BY DEF TryStartWS, At, Holding
  <2>2. draining' \subseteq Handles /\ shutdown' \in BOOLEAN
    BY DEF TryStartWS, IInv, Typed, TypeOK
  <2> QED BY <2>1, <2>2, MainMoved DEF TryStartWS, Goto
<1>2. Ending'
  BY <1>1 DEF Ending
<1> QED BY <1>1, <1>2 DEF IInv

LEMMA StopAllStep ==
  ASSUME IInv, StopAll
  PROVE  IInv'
<1>0. ws \in {"on", "off"} /\ shutdown \in BOOLEAN /\ shutdown
      /\ nodes \in [Nodes -> Handles \cup {None}]
  BY DEF StopAll, At, IInv, Typed, TypeOK, Booting
<1>1. draining' = {nodes[n] : n \in Nodes} \ {None}
  BY DEF StopAll
<1>2. Typed' /\ Owned' /\ Routed' /\ Held' /\ Booting' /\ worker'[Main].pc = "draining"
  <2>1. ~Holding(worker[Main])
    BY DEF StopAll, At, Holding
  <2>2. draining' \subseteq Handles
    BY <1>0, <1>1
  <2>3. ws' \in {"on", "off"} /\ shutdown' \in BOOLEAN
    BY <1>0 DEF StopAll
  <2> QED BY <2>1, <2>2, <2>3, MainMoved DEF StopAll, Goto
<1>3. Ending'
  <2>1. \A h \in Handles : Alive(h) => h \in draining'
    BY <1>1, OrchestratorAssumption DEF IInv, Owned, Alive, Present
  <2> QED BY <1>0, <1>2, <2>1 DEF StopAll, Ending, Alive
<1> QED BY <1>2, <1>3 DEF IInv

LEMMA ReturnStep ==
  ASSUME IInv, Return
  PROVE  IInv'
<1>0. ws \in {"on", "off"} /\ shutdown \in BOOLEAN /\ shutdown
  BY DEF Return, At, IInv, Typed, TypeOK, Booting, Ending
<1>1. Typed' /\ Owned' /\ Routed' /\ Held' /\ Booting' /\ worker'[Main].pc = "returned"
  <2>1. ~Holding(worker[Main])
    BY DEF Return, At, Holding
  <2>2. draining' \subseteq Handles /\ ws' \in {"on", "off"} /\ shutdown' \in BOOLEAN
    BY <1>0 DEF Return
  <2> QED BY <2>1, <2>2, MainMoved DEF Return, Goto
<1>2. Ending'
  BY <1>0, <1>1 DEF Return, At, IInv, Ending, Alive
<1> QED BY <1>1, <1>2 DEF IInv

-----------------------------------------------------------------------------
(* The goroutine of a node.                                                *)

\* What the goroutine may make of its handle.
Serves(h, q) ==
  /\ q \in HandleRecords
  /\ handle[h].phase \notin {"prepared", "done"}
  /\ q.phase # "prepared"
  /\ q.phase \in Present <=> handle[h].phase \in Present
  /\ q.phase \in Present => q.node = handle[h].node /\ q.late = handle[h].late
  /\ q.phase \in {"launched", "initial", "serving"} => Alive(h)

LEMMA Served ==
  ASSUME IInv, NEW h \in Handles, NEW q, Serves(h, q), handle' = [handle EXCEPT ![h] = q],
         UNCHANGED <<nodes, worker, lifeVars>>
  PROVE  /\ handle' \in [Handles -> HandleRecords]
         /\ handle'[h] = q /\ \A g \in Handles \ {h} : handle'[g] = handle[g]
         /\ Owned' /\ Held' /\ Booting' /\ Ending'
<1>0. handle \in [Handles -> HandleRecords] /\ nodes \in [Nodes -> Handles \cup {None}]
  BY DEF IInv, Typed, TypeOK
<1>1. /\ handle'[h] = q /\ \A g \in Handles \ {h} : handle'[g] = handle[g]
      /\ handle' \in [Handles -> HandleRecords]
  BY <1>0 DEF Serves
<1>2. Owned'
  BY <1>0, <1>1 DEF IInv, Owned, Serves
<1>3. Held'
  <2>1. \A w \in Workers : Holding(worker[w]) =>
          worker[w].handle # h /\ worker[w].handle \in Handles
    BY DEF IInv, Typed, Placed, Held, Holding, Serves
  <2> QED BY <1>1, <2>1 DEF IInv, Held
<1>4. ws # "unknown"
  BY DEF IInv, Booting, Serves
<1>5. Booting'
  BY <1>4 DEF IInv, Booting, lifeVars
<1>6. Ending'
  BY <1>1 DEF IInv, Ending, Alive, Serves, lifeVars, Present
<1> QED BY <1>1, <1>2, <1>3, <1>5, <1>6

LEMMA ServedQuietly ==
  ASSUME IInv, NEW h \in Handles, NEW q, Serves(h, q), q.phase # "unregistered",
         handle' = [handle EXCEPT ![h] = q],
         UNCHANGED <<panel, changes, syncs, nodes, routeVars, worker, lifeVars>>,
         nodeStatuses' \in [Nodes -> Status \cup {None}], failures' \in Nat
  PROVE  IInv'
<1>1. \A n \in Nodes : nodes[n] # None => nodes[n] \in Handles
  BY DEF IInv, Typed, TypeOK
<1>2. handle' \in [Handles -> HandleRecords] /\ Owned' /\ Held' /\ Booting' /\ Ending'
      /\ handle'[h] = q /\ \A g \in Handles \ {h} : handle'[g] = handle[g]
  BY Served
<1>3. Routed'
  BY <1>1, <1>2 DEF IInv, Routed, RoutedToOwner, routeVars
<1>4. Typed'
  BY <1>2 DEF IInv, Typed, TypeOK, routeVars, lifeVars
<1> QED BY <1>2, <1>3, <1>4 DEF IInv

LEMMA RunBeginsStep ==
  ASSUME IInv, NEW h \in Handles, RunBegins(h)
  PROVE  IInv'
<1> DEFINE q == [handle[h] EXCEPT !.phase = "initial"]
<1>0. handle \in [Handles -> HandleRecords] /\ failures \in Nat
      /\ nodeStatuses \in [Nodes -> Status \cup {None}]
  BY DEF IInv, Typed, TypeOK
<1>1. Serves(h, q) /\ q.phase # "unregistered"
  BY <1>0 DEF RunBegins, In, Serves, Alive, Present, HandleRecords, Phases
<1>2. handle' = [handle EXCEPT ![h] = q]
  BY <1>0 DEF RunBegins, Enter
<1> HIDE DEF q
<1>3. UNCHANGED <<panel, changes, syncs, nodes, routeVars, worker, lifeVars>>
  BY DEF RunBegins, boundVars
<1>4. nodeStatuses' \in [Nodes -> Status \cup {None}]
  BY <1>0 DEF RunBegins, SetNodeStatus, HealthStatus, Status
<1>5. failures' \in Nat
  BY <1>0 DEF RunBegins, boundVars
<1> QED BY <1>1, <1>2, <1>3, <1>4, <1>5, ServedQuietly

LEMMA InitialFailsStep ==
  ASSUME IInv, NEW h \in Handles, InitialFails(h)
  PROVE  IInv'
<1> DEFINE q == [handle[h] EXCEPT !.phase = "returned", !.failed = TRUE]
<1>0. handle \in [Handles -> HandleRecords] /\ failures \in Nat
      /\ nodeStatuses \in [Nodes -> Status \cup {None}]
  BY DEF IInv, Typed, TypeOK
<1>1. Serves(h, q) /\ q.phase # "unregistered"
  BY <1>0 DEF InitialFails, In, Serves, Alive, Present, HandleRecords, Phases
<1>2. handle' = [handle EXCEPT ![h] = q]
  BY <1>0 DEF InitialFails, Enter
<1> HIDE DEF q
<1>3. UNCHANGED <<panel, changes, syncs, nodes, routeVars, worker, lifeVars>>
  BY DEF InitialFails, boundVars
<1>4. nodeStatuses' \in [Nodes -> Status \cup {None}]
  BY <1>0 DEF InitialFails, SetNodeStatus, HealthStatus, Status
<1>5. failures' \in Nat
  BY <1>0 DEF InitialFails, boundVars
<1> QED BY <1>1, <1>2, <1>3, <1>4, <1>5, ServedQuietly

LEMMA ApplySnapshotStep ==
  ASSUME IInv, NEW h \in Handles, NEW healthy \in BOOLEAN, ApplySnapshot(h, healthy)
  PROVE  IInv'
<1> DEFINE q == [handle[h] EXCEPT !.healthy = healthy]
<1>0. handle \in [Handles -> HandleRecords] /\ failures \in Nat
      /\ nodeStatuses \in [Nodes -> Status \cup {None}]
  BY DEF IInv, Typed, TypeOK
<1>1. Serves(h, q) /\ q.phase # "unregistered"
  BY <1>0 DEF ApplySnapshot, In, Serves, Alive, Present, HandleRecords, Phases
<1>2. handle' = [handle EXCEPT ![h] = q]
  BY <1>0 DEF ApplySnapshot, Enter
<1> HIDE DEF q
<1>3. UNCHANGED <<panel, changes, syncs, nodes, routeVars, worker, lifeVars>>
  BY DEF ApplySnapshot, boundVars
<1>4. nodeStatuses' \in [Nodes -> Status \cup {None}]
  BY <1>0 DEF ApplySnapshot, SetNodeStatus, HealthStatus, Status
<1>5. failures' \in Nat
  BY <1>0 DEF ApplySnapshot, boundVars
<1> QED BY <1>1, <1>2, <1>3, <1>4, <1>5, ServedQuietly

LEMMA RunEndsStep ==
  ASSUME IInv, NEW h \in Handles, RunEnds(h)
  PROVE  IInv'
<1> DEFINE q == [handle[h] EXCEPT !.phase = "returned", !.healthy = FALSE]
<1>0. handle \in [Handles -> HandleRecords] /\ failures \in Nat
      /\ nodeStatuses \in [Nodes -> Status \cup {None}]
  BY DEF IInv, Typed, TypeOK
<1>1. Serves(h, q) /\ q.phase # "unregistered"
  BY <1>0 DEF RunEnds, In, Serves, Alive, Present, HandleRecords, Phases
<1>2. handle' = [handle EXCEPT ![h] = q]
  BY <1>0 DEF RunEnds, Enter
<1> HIDE DEF q
<1>3. UNCHANGED <<panel, changes, syncs, nodes, routeVars, worker, lifeVars>>
  BY DEF RunEnds, boundVars
<1>4. nodeStatuses' \in [Nodes -> Status \cup {None}]
  BY <1>0 DEF RunEnds, SetNodeStatus, HealthStatus, Status
<1>5. failures' \in Nat
  BY <1>0 DEF RunEnds, boundVars
<1> QED BY <1>1, <1>2, <1>3, <1>4, <1>5, ServedQuietly

LEMMA ShowFailureStep ==
  ASSUME IInv, NEW h \in Handles, ShowFailure(h)
  PROVE  IInv'
<1> DEFINE q == [handle[h] EXCEPT !.failed = FALSE]
<1>0. handle \in [Handles -> HandleRecords] /\ failures \in Nat
      /\ nodeStatuses \in [Nodes -> Status \cup {None}]
  BY DEF IInv, Typed, TypeOK
<1>1. Serves(h, q) /\ q.phase # "unregistered"
  <2>1. handle[h] \in HandleRecords /\ handle[h].phase = "finished"
    BY <1>0 DEF ShowFailure, In
  <2>2. q \in HandleRecords /\ q.phase = "finished"
    BY <2>1 DEF HandleRecords
  <2> HIDE DEF q
  <2> QED BY <2>1, <2>2 DEF Serves, Present
<1>2. handle' = [handle EXCEPT ![h] = q]
  BY <1>0 DEF ShowFailure, Enter
<1> HIDE DEF q
<1>3. UNCHANGED <<panel, changes, syncs, nodes, routeVars, worker, lifeVars>>
  BY DEF ShowFailure, boundVars
<1>4. nodeStatuses' \in [Nodes -> Status \cup {None}]
  BY <1>0 DEF ShowFailure, SetNodeStatus, HealthStatus, Status
<1>5. failures' \in Nat
  BY <1>0 DEF ShowFailure, boundVars
<1> QED BY <1>1, <1>2, <1>3, <1>4, <1>5, ServedQuietly

LEMMA CloseStep ==
  ASSUME IInv, NEW h \in Handles, Close(h)
  PROVE  IInv'
<1> DEFINE q == NoHandle
<1>0. handle \in [Handles -> HandleRecords] /\ failures \in Nat
      /\ nodeStatuses \in [Nodes -> Status \cup {None}]
  BY DEF IInv, Typed, TypeOK
<1>1. Serves(h, q) /\ q.phase # "unregistered"
  BY <1>0 DEF Close, In, Serves, Alive, Present, HandleRecords, Phases, NoHandle
<1>2. handle' = [handle EXCEPT ![h] = q]
  BY <1>0 DEF Close, Enter
<1> HIDE DEF q
<1>3. UNCHANGED <<panel, changes, syncs, nodes, routeVars, worker, lifeVars>>
  BY DEF Close, boundVars
<1>4. nodeStatuses' \in [Nodes -> Status \cup {None}]
  BY <1>0 DEF Close, SetNodeStatus, HealthStatus, Status
<1>5. failures' \in Nat
  BY <1>0 DEF Close, boundVars
<1> QED BY <1>1, <1>2, <1>3, <1>4, <1>5, ServedQuietly

LEMMA SetUpStep ==
  ASSUME IInv, NEW h \in Handles, NEW healthy \in BOOLEAN, SetUp(h, healthy)
  PROVE  IInv'
<1> DEFINE q == [handle[h] EXCEPT !.phase = "serving", !.healthy = healthy]
           n == handle[h].node
<1>0. handle \in [Handles -> HandleRecords] /\ statuses \in [Nodes -> Handles \cup {None}]
  BY DEF IInv, Typed, TypeOK
<1>1. Serves(h, q) /\ q.phase = "serving"
  <2>1. handle[h] \in HandleRecords /\ handle[h].phase = "initial"
    BY <1>0 DEF SetUp, In
  <2>2. /\ q \in HandleRecords /\ q.phase = "serving" /\ q.node = handle[h].node
        /\ q.late = handle[h].late
    BY <2>1 DEF HandleRecords, Phases
  <2> HIDE DEF q
  <2> QED BY <2>1, <2>2 DEF Serves, Alive, Present
<1>2. handle' = [handle EXCEPT ![h] = q]
  BY <1>0 DEF SetUp
<1>3. n \in Nodes /\ nodes[n] = h
  BY DEF SetUp, In, IInv, Owned, Present
<1> HIDE DEF q, n
<1>4. UNCHANGED <<boundVars, nodes, mailboxes, worker, lifeVars>>
      /\ statuses' \in {statuses, [statuses EXCEPT ![n] = h]}
  BY DEF SetUp, n
<1>5. \A m \in Nodes : nodes[m] # None => nodes[m] \in Handles
  BY DEF IInv, Typed, TypeOK
<1>6. handle' \in [Handles -> HandleRecords] /\ Owned' /\ Held' /\ Booting' /\ Ending'
      /\ handle'[h] = q /\ \A g \in Handles \ {h} : handle'[g] = handle[g]
  BY <1>1, <1>2, <1>4, Served
<1>7. Routed'
  <2>1. \A m \in Nodes : statuses'[m] \in {None, nodes[m]}
    BY <1>0, <1>3, <1>4 DEF IInv, Routed, RoutedToOwner
  <2>2. ASSUME NEW m \in Nodes, nodes[m] # None, handle'[nodes[m]].phase = "unregistered"
        PROVE  mailboxes[m] = None /\ statuses'[m] = None
    <3>1. nodes[m] # h
      BY <1>1, <1>6, <2>2
    <3>2. m # n
      BY <1>3, <3>1
    <3>3. mailboxes[m] = None /\ statuses[m] = None
      BY <1>5, <1>6, <2>2, <3>1 DEF IInv, Routed
    <3> QED BY <1>0, <1>4, <3>2, <3>3
  <2> QED BY <1>4, <2>1, <2>2 DEF IInv, Routed, RoutedToOwner
<1>8. Typed'
  <2>1. nodeStatuses' \in [Nodes -> Status \cup {None}]
    BY DEF SetUp, SetNodeStatus, HealthStatus, Status, IInv, Typed, TypeOK
  <2>2. statuses' \in [Nodes -> Handles \cup {None}]
    BY <1>0, <1>3, <1>4
  <2> QED BY <1>4, <1>6, <2>1, <2>2 DEF IInv, Typed, TypeOK, boundVars, lifeVars
<1> QED BY <1>6, <1>7, <1>8 DEF IInv

LEMMA UnregisterStep ==
  ASSUME IInv, NEW h \in Handles, Unregister(h)
  PROVE  IInv'
<1> DEFINE q == [handle[h] EXCEPT !.phase = "unregistered"]
           n == handle[h].node
<1>0. handle \in [Handles -> HandleRecords] /\ statuses \in [Nodes -> Handles \cup {None}]
      /\ mailboxes \in [Nodes -> Handles \cup {None}]
  BY DEF IInv, Typed, TypeOK
<1>1. Serves(h, q)
  BY <1>0 DEF Unregister, In, Serves, Alive, Present, HandleRecords, Phases
<1>2. handle' = [handle EXCEPT ![h] = q]
  BY <1>0 DEF Unregister, Enter
<1>3. n \in Nodes /\ nodes[n] = h
  BY DEF Unregister, In, IInv, Owned, Present
<1>4. /\ mailboxes' = [mailboxes EXCEPT ![n] = None] /\ statuses' = [statuses EXCEPT ![n] = None]
      /\ UNCHANGED <<boundVars, nodes, nodeStatuses, worker, lifeVars>>
  BY DEF Unregister
<1> HIDE DEF q, n
<1>5. handle' \in [Handles -> HandleRecords] /\ Owned' /\ Held' /\ Booting' /\ Ending'
      /\ handle'[h] = q /\ \A g \in Handles \ {h} : handle'[g] = handle[g]
  BY <1>1, <1>2, <1>4, Served
<1>6. Routed'
  <2>1. \A m \in Nodes : nodes[m] # None => nodes[m] \in Handles /\ (nodes[m] = h => m = n)
    BY <1>3 DEF IInv, Typed, TypeOK, Owned, n
  <2> QED BY <1>0, <1>3, <1>4, <1>5, <2>1 DEF IInv, Routed, RoutedToOwner
<1>7. Typed'
  BY <1>0, <1>3, <1>4, <1>5 DEF IInv, Typed, TypeOK, boundVars, lifeVars
<1> QED BY <1>5, <1>6, <1>7 DEF IInv

LEMMA FinishNodeStep ==
  ASSUME IInv, NEW h \in Handles, FinishNode(h)
  PROVE  IInv'
<1> DEFINE q == [handle[h] EXCEPT !.phase = "finished"]
           n == handle[h].node
<1>0. handle \in [Handles -> HandleRecords] /\ nodes \in [Nodes -> Handles \cup {None}]
  BY DEF IInv, Typed, TypeOK
<1>1. n \in Nodes /\ nodes[n] = h /\ handle[h].phase = "unregistered" /\ h # None
  BY OrchestratorAssumption DEF FinishNode, In, IInv, Owned, Present
<1>2. handle' = [handle EXCEPT ![h] = q] /\ nodes' = [nodes EXCEPT ![n] = None]
      /\ UNCHANGED <<boundVars, routeVars, nodeStatuses, worker, lifeVars>>
  BY <1>0, <1>1 DEF FinishNode, Enter
<1>3. q \in HandleRecords /\ q.phase = "finished"
  BY <1>0 DEF HandleRecords, Phases
<1>4. mailboxes[n] = None /\ statuses[n] = None
  BY <1>1 DEF IInv, Routed
<1>5. \A m \in Nodes : nodes[m] # None => nodes[m] \in Handles /\ (nodes[m] = h => m = n)
  BY <1>0, <1>1 DEF IInv, Owned
<1>6. \A g \in Handles \ {h} : handle[g].phase \in Present => handle[g].node # n
  BY <1>1 DEF IInv, Owned
<1>7. ws # "unknown"
  BY <1>1 DEF IInv, Booting
<1> HIDE DEF q, n
<1>8. /\ handle'[h] = q /\ \A g \in Handles \ {h} : handle'[g] = handle[g]
      /\ handle' \in [Handles -> HandleRecords]
      /\ nodes'[n] = None /\ \A m \in Nodes \ {n} : nodes'[m] = nodes[m]
      /\ nodes' \in [Nodes -> Handles \cup {None}]
  BY <1>0, <1>1, <1>2, <1>3
<1>9. Typed'
  BY <1>2, <1>8 DEF IInv, Typed, TypeOK, boundVars, routeVars, lifeVars
<1>10. Owned'
  BY <1>1, <1>3, <1>5, <1>6, <1>8 DEF IInv, Owned, Present
<1>11. Routed'
  BY <1>1, <1>2, <1>4, <1>5, <1>8 DEF IInv, Routed, RoutedToOwner, routeVars
<1>12. Held'
  <2>1. \A w \in Workers : Holding(worker[w]) =>
          worker[w].handle # h /\ worker[w].handle \in Handles
    BY <1>1 DEF IInv, Typed, Placed, Held, Holding
  <2> QED BY <1>2, <1>8, <2>1 DEF IInv, Held
<1>13. Booting'
  BY <1>2, <1>7 DEF IInv, Booting, lifeVars
<1>14. Ending'
  BY <1>2, <1>3, <1>8 DEF IInv, Ending, Alive, lifeVars
<1> QED BY <1>9, <1>10, <1>11, <1>12, <1>13, <1>14 DEF IInv

-----------------------------------------------------------------------------
(* Theorems.                                                               *)

LEMMA Start == Init => IInv
<1> SUFFICES ASSUME Init PROVE IInv
  OBVIOUS
<1>1. NoHandle \in HandleRecords /\ NoHandle.phase = "done"
  BY DEF NoHandle, HandleRecords, Phases
<1>2. Idle \in WorkerRecords /\ [Idle EXCEPT !.pc = "boot"] \in WorkerRecords
      /\ Idle.pc = "idle" /\ [Idle EXCEPT !.pc = "boot"].pc = "boot"
      /\ [Idle EXCEPT !.pc = "boot"].todo = {}
  BY DEF Idle, WorkerRecords, Wishes
<1>3. Main \in Workers /\ Main \notin Syncs /\ panel \in Wishes
  BY OrchestratorAssumption DEF Workers, Init, Wishes
<1>4. /\ worker \in [Workers -> WorkerRecords] /\ worker[Main] = [Idle EXCEPT !.pc = "boot"]
      /\ \A w \in Workers \ {Main} : worker[w] = Idle
  BY <1>2, <1>3 DEF Init
<1>5. \A h \in Handles : handle[h].phase = "done"
  BY <1>1 DEF Init
<1>6. Typed
  BY <1>1, <1>2, <1>3, <1>4 DEF Init, Typed, TypeOK, Placed
<1>7. Owned /\ Routed
  BY <1>5 DEF Init, Owned, Routed, RoutedToOwner, Present
<1>8. Held
  BY <1>2, <1>4 DEF Held, Holding
<1>9. Booting /\ Ending
  BY <1>2, <1>3, <1>4, <1>5 DEF Init, Booting, Ending, Workers
<1> QED BY <1>6, <1>7, <1>8, <1>9 DEF IInv

LEMMA Unchanged ==
  ASSUME IInv, UNCHANGED <<nodes, handle, routeVars, nodeStatuses, worker, draining, ws>>,
         panel' \in Wishes, changes' \in Nat, syncs' = syncs, failures' = failures,
         shutdown' \in {TRUE, shutdown}
  PROVE  IInv'
<1>1. Typed'
  BY DEF IInv, Typed, TypeOK, routeVars
<1>2. Owned' /\ Routed' /\ Held' /\ Booting'
  BY DEF IInv, Owned, Routed, RoutedToOwner, Held, Booting, routeVars
<1>3. Ending'
  BY DEF IInv, Ending, Alive
<1> QED BY <1>1, <1>2, <1>3 DEF IInv

LEMMA Step == IInv /\ [Next]_vars => IInv'
<1> SUFFICES ASSUME IInv, [Next]_vars PROVE IInv'
  OBVIOUS
<1>1. CASE ChangePanel
  BY <1>1, Unchanged DEF ChangePanel, lifeVars, IInv, Typed, TypeOK
<1>2. CASE CancelContext
  BY <1>2, Unchanged DEF CancelContext, boundVars, IInv, Typed, TypeOK
<1>3. CASE Run
  <2>1. Main \in Workers
    BY DEF Workers
  <2>2. RediscoverOnTick => IInv'
    BY <2>1, RediscoverStep DEF RediscoverOnTick, IInv, Typed, TypeOK
  <2> QED BY <1>3, <2>2, BootStep, TryStartWSStep, StopAllStep, ReturnStep DEF Run
<1>4. ASSUME NEW w \in Workers, RediscoverOnPush(w)
      PROVE  IInv'
  BY <1>4, RediscoverStep DEF RediscoverOnPush, IInv, Typed, TypeOK
<1>5. ASSUME NEW w \in Workers, Work(w)
      PROVE  IInv'
  BY <1>5, ScanStep, ReconcileStep, EndsStep, StopUnwantedStep, StopChangedStep, CancelStep,
     AwaitStep, ForgetStep, StartNodeStep, CreateStep, RouteStep, ShowStep, LaunchStep DEF Work
<1>6. ASSUME NEW h \in Handles, Serve(h)
      PROVE  IInv'
  BY <1>6, RunBeginsStep, InitialFailsStep, SetUpStep, RunEndsStep, UnregisterStep,
     FinishNodeStep, ShowFailureStep, CloseStep DEF Serve
<1>7. ASSUME NEW h \in Handles, NEW healthy \in BOOLEAN, ApplySnapshot(h, healthy)
      PROVE  IInv'
  BY <1>7, ApplySnapshotStep
<1>8. CASE UNCHANGED vars
  BY <1>8, Unchanged DEF vars, routeVars, IInv, Typed, TypeOK
<1> QED BY <1>1, <1>2, <1>3, <1>4, <1>5, <1>6, <1>7, <1>8 DEF Next

\* The inductive invariant of the orchestrator: o.nodes and the handles name each other.
THEOREM Invariant == Spec => []IInv
<1> QED BY Start, Step, PTL DEF Spec

\* Every variable keeps its type, whatever rediscovers run.
THEOREM TypeCorrect == Spec => []TypeOK
<1>1. IInv => TypeOK
  BY DEF IInv, Typed
<1> QED BY <1>1, Invariant, PTL

\* A node has one service, however many rediscovers stop and start it (startNode,
\* stopNode, finishNode).
THEOREM OneServiceHolds == Spec => []OneService
<1>1. IInv => OneService
  BY DEF IInv, Owned, OneService, Alive, Present
<1> QED BY <1>1, Invariant, PTL

\* The mux hands events and statuses of a node to its present service or to none.
THEOREM RoutedToOwnerHolds == Spec => []RoutedToOwner
<1>1. IInv => RoutedToOwner
  BY DEF IInv, Routed
<1> QED BY <1>1, Invariant, PTL

\* When Run returns, stopAll has waited for every service started before the shutdown.
THEOREM ShutdownWaitsHolds == Spec => []ShutdownWaits
<1>1. IInv => ShutdownWaits
  BY DEF IInv, Ending, ShutdownWaits
<1> QED BY <1>1, Invariant, PTL
=============================================================================
