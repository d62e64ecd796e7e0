---------------------------- MODULE XrayKernel ----------------------------
(***************************************************************************)
(* The embedded xray kernel: src/internal/kernel/xray/{xray,lifecycle,      *)
(* traffic}.go, driven by the node service (src/internal/service/           *)
(* service.go), which calls it from one goroutine and answers a failed hot  *)
(* update with a full one and a failed full one with Stop.                  *)
(*                                                                          *)
(* An instance is built, its predecessor's listeners are closed, it is      *)
(* started and swapped in; the predecessor is retired: a goroutine waits    *)
(* for its connections, reads its counters, closes it, reads them again and *)
(* forgets it.  Connections open, carry bytes and close meanwhile, and the  *)
(* service samples the counters of the instance and of the retired ones.    *)
(* What xray-core does inside New, Start, Close and its UserManager is      *)
(* external: each may fail, and Close may take the counters with it.        *)
(***************************************************************************)
EXTENDS Integers, FiniteSets, FiniteSetsExt, KernelUsers

CONSTANTS Configs,      \* what a node may be configured as, certificate included
          Nodes, NodeOf,\* the logical node whose tag a configuration's outbound has
          Managed,      \* configurations whose inbound has a UserManager
          Landing,      \* configurations of relay landings, which run without users
          UserSets,     \* user lists and deltas of the panel, sets of [id, uuid, limit]
          MaxStarts, MaxRequests, MaxBytes, MaxConns

ASSUME KernelConstants ==
  /\ NodeOf \in [Configs -> Nodes] /\ Managed \subseteq Configs /\ Landing \subseteq Configs
  /\ \A l \in UserSets : UserList(l)
  /\ {MaxStarts, MaxRequests, MaxBytes, MaxConns} \subseteq Nat

VARIABLES inst,      \* every instance ever created
          created,   \* how many those are
          instance,  \* x.instance, 0 for nil
          retired,   \* x.retired
          running, users, hash,
          cum,       \* x.cumTraffic, cumRelayTraffic: what is accounted, per node
          carried,   \* what connections really carried, per node
          late,      \* the part of it carried after an instance's last reading
          op,        \* what the service's goroutine is doing
          wish, requests

kvars == <<inst, created, instance, retired, running, users, hash, cum, carried, late, op, wish, requests>>
core == <<inst, created, instance, retired, running, users, hash>>
traffic == <<cum, carried, late>>
Ids == 1..MaxStarts

NoConfig == "none"
NoHash == [config |-> NoConfig, users |-> {}]
Blank == [state |-> "none", config |-> NoConfig, manager |-> {}, limits |-> {},
          listening |-> FALSE, conns |-> 0, unread |-> 0]

KernelInit ==
  /\ inst = [i \in Ids |-> Blank] /\ created = 0 /\ instance = 0 /\ retired = {}
  /\ running = FALSE /\ users = {} /\ hash = NoHash
  /\ cum = [n \in Nodes |-> 0] /\ carried = cum /\ late = cum
  /\ op = Idle /\ wish = [config |-> NoConfig, users |-> {}] /\ requests = 0

---------------------------------------------------------------------------
(* The three user operations, Reload and Start: what each leaves to be done.
   `r` is the operation in progress. *)

StartOp(r, config, l) == [r EXCEPT !.at = "build", !.config = config, !.users = l]
EditOp(r, l, diff) == IF inst[instance].config \in Managed
                      THEN [r EXCEPT !.at = "edit", !.users = l, !.add = diff.add, !.remove = diff.remove]
                      ELSE StartOp(r, inst[instance].config, l)
FailOp(r) == [r EXCEPT !.at = "failed"]
LimitsOp(r, l) == [r EXCEPT !.at = "limits", !.users = l]

UpdateUsers(r, l) ==
  CASE instance = 0 -> FailOp(r)
    [] instance # 0 /\ Creds(l) = Creds(users) -> LimitsOp(r, l)
    [] OTHER -> EditOp(r, l, UserDiff(users, l))

AddUsers(r, delta) ==
  LET merged == MergeUsers(users, delta)
      diff == UserDiff(users, merged)
  IN CASE instance = 0 -> FailOp(r)
       [] instance # 0 /\ diff.remove # {} -> UpdateUsers(r, merged)
       [] instance # 0 /\ diff.remove = {} /\ diff.add = {} -> LimitsOp(r, merged)
       [] OTHER -> EditOp(r, merged, diff)

RemoveUsers(r, delta) ==
  LET kept == SubtractUsers(users, delta)
  IN CASE instance = 0 -> FailOp(r)
       [] instance # 0 /\ kept = users -> Idle
       [] instance # 0 /\ kept = {} /\ users # {} /\ inst[instance].config \notin Landing -> [r EXCEPT !.at = "stop"]
       [] OTHER -> EditOp(r, kept, UserDiff(users, kept))

Reload(r, config, l) ==
  IF instance # 0 /\ hash = ComputeHash(config, l) THEN LimitsOp(r, l) ELSE StartOp(r, config, l)

(* The service hands a changed configuration or user list to the kernel:
   applyChanges, applyUserUpdate, applyUserDelta.  A node without users is
   stopped, one that does not run is started as soon as it has some. *)
Servable(w) == w.config # NoConfig /\ (w.users # {} \/ w.config \in Landing)
Ensure(r, w, hot) == CASE running -> hot
                       [] ~running /\ Servable(w) -> StartOp(r, w.config, w.users)
                       [] OTHER -> IF w.config = NoConfig THEN Idle ELSE [r EXCEPT !.at = "stop"]

Ask(kind, w, todo) == /\ op.at = "idle" /\ requests < MaxRequests /\ requests' = requests + 1
                      /\ wish' = w /\ op' = todo
                      /\ UNCHANGED <<core, traffic>>
Req(kind) == [Idle EXCEPT !.kind = kind]
AskConfig == \E c \in Configs :
  LET w == [wish EXCEPT !.config = c]
  IN Ask("config", w, Ensure(Req("config"), w, IF Servable(w) THEN Reload(Req("config"), c, w.users)
                                               ELSE [Req("config") EXCEPT !.at = "stop"]))
AskUsers == \E l \in UserSets :
  LET w == [wish EXCEPT !.users = l] IN Ask("users", w, Ensure(Req("users"), w, UpdateUsers(Req("users"), l)))
AskAdd == \E delta \in UserSets \ {{}} :
  LET w == [wish EXCEPT !.users = MergeUsers(@, delta)]
      kind == IF HasUUIDChange(wish.users, delta) THEN "users" ELSE "add"
  IN Ask(kind, w, Ensure(Req(kind), w, IF kind = "users" THEN UpdateUsers(Req(kind), w.users)
                                                         ELSE AddUsers(Req(kind), delta)))
AskRemove == \E delta \in UserSets \ {{}} :
  LET w == [wish EXCEPT !.users = SubtractUsers(@, delta)]
  IN Ask("remove", w, Ensure(Req("remove"), w, RemoveUsers(Req("remove"), delta)))

---------------------------------------------------------------------------
(* startLocked *)

(* A candidate is built and created, its limits are set, and the listeners of
   the running instance are closed: its ports are needed *)
Build == /\ op.at = "build" /\ created < MaxStarts
         /\ created' = created + 1 /\ op' = [op EXCEPT !.at = "start"]
         /\ inst' = [i \in Ids |->
              IF i = created' THEN [Blank EXCEPT !.state = "created", !.config = op.config,
                                                 !.manager = Creds(op.users), !.limits = op.users]
              ELSE IF i = instance THEN [inst[i] EXCEPT !.listening = FALSE] ELSE inst[i]]
         /\ running' = (running /\ instance = 0)
         /\ UNCHANGED <<instance, retired, users, hash, traffic, wish, requests>>
BuildFails == /\ op.at = "build" /\ op' = FailOp(op)
              /\ UNCHANGED <<core, traffic, wish, requests>>

StartSucceeds == /\ op.at = "start" /\ op' = [op EXCEPT !.at = "swap"]
                 /\ inst' = [inst EXCEPT ![created].state = "up", ![created].listening = TRUE]
                 /\ UNCHANGED <<created, instance, retired, running, users, hash, traffic, wish, requests>>
(* Mutant: the old instance is dropped without being retired *)
StartFailsDropping == /\ op.at = "start"
                      /\ inst' = [inst EXCEPT ![created].state = "gone"] /\ instance' = 0
                      /\ op' = [op EXCEPT !.at = "close", !.old = instance, !.fails = TRUE]
                      /\ UNCHANGED <<created, retired, running, users, hash, traffic, wish, requests>>
(* It fails or takes too long: there is no way back to the old instance *)
StartFails == /\ op.at = "start"
              /\ inst' = [inst EXCEPT ![created].state = "gone"]
              /\ retired' = retired \cup ({instance} \ {0}) /\ instance' = 0
              /\ op' = [op EXCEPT !.at = "close", !.old = instance, !.fails = TRUE]
              /\ UNCHANGED <<created, running, users, hash, traffic, wish, requests>>

(* retireCurrentLocked and the swap, under the lock *)
Retire == retired \cup ({instance} \ {0})
Swap == /\ op.at = "swap"
        /\ retired' = Retire /\ instance' = created /\ running' = TRUE
        /\ users' = op.users /\ hash' = ComputeHash(op.config, op.users)
        /\ op' = [op EXCEPT !.at = "close", !.old = instance]
        /\ UNCHANGED <<inst, created, traffic, wish, requests>>

(* closeOld: the listeners, then a goroutine of its own *)
Recycled(i) == [inst EXCEPT ![i].listening = FALSE, ![i].state = "draining"]
CloseOld == /\ op.at = "close"
            /\ inst' = IF op.old = 0 THEN inst ELSE Recycled(op.old)
            /\ op' = IF op.fails THEN FailOp(op) ELSE Idle
            /\ UNCHANGED <<created, instance, retired, running, users, hash, traffic, wish, requests>>

---------------------------------------------------------------------------
(* Hot updates: users leave the manager one by one, then enter it one by one.
   Each call may fail; a credential already there may be refused or taken. *)
Manager(i, l) == [inst EXCEPT ![i].manager = l]
RemoveOne == /\ op.at = "edit" /\ op.remove # {}
             /\ \E c \in op.remove :
                  \/ /\ inst' = Manager(instance, inst[instance].manager \ {c})
                     /\ op' = [op EXCEPT !.remove = @ \ {c}]
                  \/ UNCHANGED inst /\ op' = FailOp(op)
             /\ UNCHANGED <<created, instance, retired, running, users, hash, traffic, wish, requests>>
AddOne == /\ op.at = "edit" /\ op.remove = {} /\ op.add # {}
          /\ \E c \in op.add :
               \/ /\ inst' = Manager(instance, inst[instance].manager \cup {c})
                  /\ op' = [op EXCEPT !.add = @ \ {c}]
               \/ UNCHANGED inst /\ op' = FailOp(op)
          /\ UNCHANGED <<created, instance, retired, running, users, hash, traffic, wish, requests>>
(* Only when all of them succeeded the books follow *)
Book == /\ op.at = "edit" /\ op.remove = {} /\ op.add = {}
        /\ hash' = ComputeHash(inst[instance].config, op.users)
        /\ op' = [op EXCEPT !.at = "limits"]
        /\ UNCHANGED <<inst, created, instance, retired, running, users, traffic, wish, requests>>
(* x.users and the limits of the dispatcher *)
UpdateLimits == /\ op.at = "limits" /\ users' = op.users /\ op' = Idle
                /\ inst' = [inst EXCEPT ![instance].limits = op.users]
                /\ UNCHANGED <<created, instance, retired, running, hash, traffic, wish, requests>>

(* The service's answer to an error *)
Answer == /\ op.at = "failed"
          /\ op' = IF op.kind \in {"add", "remove"} THEN UpdateUsers([Idle EXCEPT !.kind = "users"], wish.users)
                   ELSE [op EXCEPT !.at = "stop"]
          /\ UNCHANGED <<core, traffic, wish, requests>>

---------------------------------------------------------------------------
(* Stop *)
Stop == /\ op.at = "stop" /\ running' = FALSE
        /\ retired' = Retire /\ instance' = 0
        /\ op' = [op EXCEPT !.at = "signal", !.old = instance, !.waits = Retire]
        /\ UNCHANGED <<inst, created, users, hash, traffic, wish, requests>>
(* The signal makes every recycleOld wait at most five more seconds *)
Signal == /\ op.at = "signal" /\ op' = [op EXCEPT !.at = "wait"]
          /\ inst' = IF op.old = 0 THEN inst ELSE Recycled(op.old)
          /\ UNCHANGED <<created, instance, retired, running, users, hash, traffic, wish, requests>>
Await == /\ op.at = "wait" /\ op.waits \cap retired = {} /\ op' = Idle
         /\ UNCHANGED <<core, traffic, wish, requests>>

---------------------------------------------------------------------------
(* Accounting.  A reading takes what the counters hold and clears them; the
   bytes belong to the nodes of the instance's own configuration. *)
Read(ids) == /\ cum' = [n \in Nodes |-> cum[n]
                  + MapThenSumSet(LAMBDA i : inst[i].unread, {i \in ids : NodeOf[inst[i].config] = n})]
Cleared(ids) == [i \in Ids |-> IF i \in ids THEN [inst[i] EXCEPT !.unread = 0] ELSE inst[i]]

(* GetUserTraffic, GetRelayTraffic, GetRelayUserTraffic *)
Sample == LET ids == retired \cup ({instance} \ {0})
          IN /\ \E i \in ids : inst[i].unread > 0
             /\ Read(ids) /\ inst' = Cleared(ids)
             /\ UNCHANGED <<created, instance, retired, running, users, hash, carried, late, op, wish, requests>>

(* recycleOld: when the last connection is gone or the timer fires, which may be
   at any moment: it was set five minutes ago, or when Stop signalled *)
LastReading(i) == /\ inst[i].state = "draining"
                  /\ Read({i}) /\ inst' = [Cleared({i}) EXCEPT ![i].state = "closing"]
                  /\ UNCHANGED <<created, instance, retired, running, users, hash, carried, late, op, wish, requests>>
CloseInstance(i) == /\ inst[i].state = "closing"
                    /\ \E n \in 0..inst[i].conns, kept \in {0, inst[i].unread} :
                         inst' = [inst EXCEPT ![i].state = "closed", ![i].conns = n, ![i].unread = kept]
                    /\ UNCHANGED <<created, instance, retired, running, users, hash, traffic, op, wish, requests>>
ForgetRetired(i) == /\ inst[i].state = "closed"
             /\ Read({i}) /\ inst' = [inst EXCEPT ![i] = [Blank EXCEPT !.state = "gone", !.config = inst[i].config]]
             /\ retired' = retired \ {i}
             /\ UNCHANGED <<created, instance, running, users, hash, carried, late, op, wish, requests>>

(* Connections *)
Accept(i) == /\ inst[i].listening /\ inst[i].conns < MaxConns
             /\ inst' = [inst EXCEPT ![i].conns = @ + 1]
             /\ UNCHANGED <<created, instance, retired, running, users, hash, traffic, op, wish, requests>>
Carry(i) == /\ inst[i].conns > 0 /\ MapThenSumSet(LAMBDA n : carried[n], Nodes) < MaxBytes
            /\ inst' = [inst EXCEPT ![i].unread = @ + 1]
            /\ LET n == NodeOf[inst[i].config]
               IN /\ carried' = [carried EXCEPT ![n] = @ + 1]
                  /\ late' = [late EXCEPT ![n] = IF inst[i].state \in {"closing", "closed"} THEN @ + 1 ELSE @]
            /\ UNCHANGED <<created, instance, retired, running, users, hash, cum, op, wish, requests>>
Hangup(i) == /\ inst[i].conns > 0 /\ inst' = [inst EXCEPT ![i].conns = @ - 1]
             /\ UNCHANGED <<created, instance, retired, running, users, hash, traffic, op, wish, requests>>

Recycle(i) == LastReading(i) \/ CloseInstance(i) \/ ForgetRetired(i)
Serve == \/ Build \/ BuildFails \/ StartSucceeds \/ StartFails \/ Swap \/ CloseOld
         \/ RemoveOne \/ AddOne \/ Book \/ UpdateLimits \/ Answer \/ Stop \/ Signal \/ Await
KernelNext == \/ AskConfig \/ AskUsers \/ AskAdd \/ AskRemove \/ Serve \/ Sample
              \/ \E i \in Ids : Recycle(i) \/ Accept(i) \/ Carry(i) \/ Hangup(i)

---------------------------------------------------------------------------
Listening == {i \in Ids : inst[i].listening}

KernelTypeOK ==
  /\ created \in 0..MaxStarts /\ instance \in 0..created /\ retired \subseteq 1..created
  /\ running \in BOOLEAN /\ {cum, carried, late} \subseteq [Nodes -> Nat]
  /\ \A i \in Ids : inst[i].state \in
        {"none", "created", "up", "draining", "closing", "closed", "gone"}
  /\ requests \in 0..MaxRequests /\ UserList(users)

(* xray.go "旧连接在独立实例中继续排空和结算": however instances are replaced, fail
   to start, drain and close while the counters are sampled, a byte is accounted
   at most once and to the node it was carried for, and no byte is lost that was
   carried before its instance's last reading. *)
SettledOnce == \A n \in Nodes :
  LET read == {i \in retired \cup {instance, created} : i # 0 /\ NodeOf[inst[i].config] = n}
      known == cum[n] + MapThenSumSet(LAMBDA i : inst[i].unread, read)
  IN carried[n] - late[n] <= known /\ known <= carried[n]

(* Old and new instances never listen together, and when the service's call has
   returned, a kernel that runs serves exactly the configuration, the credentials
   and the limits last asked for, and one that does not has no open port,
   whichever step of the call failed on the way. *)
ServesWish ==
  /\ Cardinality(Listening) <= 1
  /\ op.at = "idle" => IF running
       THEN /\ Listening = {instance} /\ inst[instance].config = wish.config
            /\ users = wish.users /\ inst[instance].limits = users
            /\ inst[instance].manager = Creds(users)
       ELSE instance = 0 /\ Listening = {}

(* Retired instances are settled and forgotten, and so Stop returns (to be reached and kept) *)
Settled == retired = {} /\ op.at # "wait"
===========================================================================
