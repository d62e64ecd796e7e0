--------------------------- MODULE ConnTracker ---------------------------
(***************************************************************************)
(* What the sing-box kernel counts and limits per user: ConnTracker and     *)
(* trafficTotals (src/internal/kernel/singbox/{conntracker,traffic}.go)     *)
(* with Limiter and SpeedTracker (src/internal/limiter).  One user; its     *)
(* connections are opened and closed by sing-box's goroutines, the service  *)
(* goroutine changes its limits and rebuilds the box.  Every section under  *)
(* a lock and every atomic operation is one step.                           *)
(*                                                                          *)
(* A connection is resolved to the user, its source address passes the gate *)
(* of the device limit, it is counted and entered in connMap, and asks for  *)
(* the user's token bucket, which the first one to ask creates.  Waiting    *)
(* for tokens only delays its bytes and is left out.                        *)
(***************************************************************************)
EXTENDS Integers, Sequences, FiniteSets

CONSTANTS Flows,      \* connections, TCP and UDP
          Addresses,  \* source addresses in the order of their strings
          Speeds,     \* speed limits of the panel, 0 for none
          DeviceLimits, \* device limits, 0 for none
          Elsewhere,  \* what the panel may report as online on all nodes
          MaxUpdates, MaxTrackers, MaxCarried

ASSUME TrackerConstants ==
  /\ Addresses \subseteq Int /\ Elsewhere \subseteq SUBSET Addresses
  /\ Speeds \subseteq Nat /\ DeviceLimits \subseteq Nat /\ IsFiniteSet(Flows)
  /\ {MaxUpdates, MaxCarried} \subseteq Nat /\ MaxTrackers \in Nat \ {0}

VARIABLES panelUser,  \* Limiter.users: [known, speed, devices]
          named,      \* SpeedTracker.uuidMap knows the user
          bucket,     \* SpeedTracker.buckets: a bucket or 0
          rateOf,     \* every bucket ever made: its speed, and the update this was read after
          tracker,    \* the ConnTracker in use; box rebuilds make new ones
          mapped,     \* its uuidMap knows the user
          stats,      \* per tracker: address -> its refcount, connections, connMap
          global,     \* globalDevices of the user, and whether it is fresh
          totals,     \* trafficTotals of the kernel: user, landing node, user at that node
          sharing,    \* the trackers that count into them
          owed,       \* the counters that a flow's last bytes still have to reach
          flow, update, updates, carriedBy,
          made        \* buckets made before the last UpdateBuckets

accounting == <<sharing, totals, owed, carriedBy>>
tvars == <<panelUser, named, bucket, rateOf, tracker, mapped, stats, global, accounting, flow, update, updates, made>>
limits == <<panelUser, named, bucket, rateOf, update, updates, made>>
Trackers == 1..MaxTrackers
Kinds == {"user", "node", "pair"}

FlowSteps == {"new", "limit", "local", "global", "add", "register", "speed", "read", "store", "open", "unref", "gone"}
\* by is the tracker that was called, us the one whose books know the user, 0 for an unknown user.
FlowType == [at : FlowSteps, by : Trackers \cup {0}, us : Trackers \cup {0}, tcp : BOOLEAN, address : Addresses \cup {0},
             limit : DeviceLimits \cup {0}, local : SUBSET Addresses, speed : Speeds \cup {0}, since : 0..MaxUpdates]
NewFlow == [at |-> "new", by |-> 0, us |-> 0, tcp |-> FALSE, address |-> 0, limit |-> 0, local |-> {}, speed |-> 0, since |-> 0]

Gone == [NewFlow EXCEPT !.at = "gone"]
BucketType == [speed : Nat, since : 0..MaxUpdates]

TrackerInit ==
  /\ panelUser = [known |-> FALSE, speed |-> 0, devices |-> 0] /\ named = FALSE
  /\ bucket = 0 /\ rateOf = <<>> /\ tracker = 1 /\ mapped = FALSE
  /\ stats = [t \in Trackers |-> [ips |-> [a \in Addresses |-> 0], count |-> 0, refs |-> {}]]
  /\ global = [ips |-> {}, fresh |-> FALSE]
  /\ totals = [k \in Kinds |-> 0] /\ carriedBy = 0 /\ sharing = {1} /\ owed = [f \in Flows |-> {}]
  /\ flow = [f \in Flows |-> NewFlow] /\ update = "idle" /\ updates = 0 /\ made = 0

PutFlow(f, v) == flow' = [flow EXCEPT ![f] = v]
Go(f, at) == PutFlow(f, [flow[f] EXCEPT !.at = at])
AliveIPs(t) == {a \in Addresses : stats[t].ips[a] > 0}

---------------------------------------------------------------------------
(* The service: prepareUserState, then the kernel's user update *)

(* Limiter.UpdateUsers *)
SetUser == /\ update = "idle" /\ updates < MaxUpdates /\ updates' = updates + 1
           /\ \E known \in BOOLEAN, s \in Speeds, d \in DeviceLimits :
                panelUser' = IF known THEN [known |-> TRUE, speed |-> s, devices |-> d]
                             ELSE [known |-> FALSE, speed |-> 0, devices |-> 0]
           /\ update' = "buckets"
           /\ UNCHANGED <<named, bucket, rateOf, tracker, mapped, stats, global, accounting, flow, made>>
(* SpeedTracker.UpdateBuckets: only buckets in use are changed *)
UpdateBuckets ==
  /\ update = "buckets" /\ update' = "map" /\ named' = panelUser.known
  /\ IF bucket # 0 /\ panelUser.speed > 0
     THEN rateOf' = [rateOf EXCEPT ![bucket] = [speed |-> panelUser.speed, since |-> updates]] /\ UNCHANGED bucket
     ELSE bucket' = 0 /\ UNCHANGED rateOf
  /\ made' = Len(rateOf)
  /\ UNCHANGED <<panelUser, tracker, mapped, stats, global, accounting, flow, updates>>
(* setNodeUsers, in this tracker or in that of a rebuilt box *)
SetUserMap == /\ update = "map" /\ update' = "idle" /\ mapped' = panelUser.known
              /\ UNCHANGED <<panelUser, named, bucket, rateOf, tracker, stats, global, accounting, flow, updates, made>>
(* Mutant: the new tracker keeps totals of its own *)
RebuildUnshared == /\ update = "map" /\ tracker < MaxTrackers /\ tracker' = tracker + 1
                   /\ update' = "idle" /\ mapped' = panelUser.known
                   /\ UNCHANGED <<panelUser, named, bucket, rateOf, stats, global, accounting, flow, updates, made>>
(* A new tracker has totals of its own until startLocked gives it the kernel's *)
Rebuild == /\ update = "map" /\ tracker < MaxTrackers /\ tracker' = tracker + 1
           /\ update' = "idle" /\ mapped' = panelUser.known /\ sharing' = sharing \cup {tracker'}
           /\ UNCHANGED <<panelUser, named, bucket, rateOf, stats, global, totals, owed, carriedBy, flow, updates, made>>

(* UpdateGlobalDevices and ClearGlobalDevices; it goes stale after two minutes *)
UpdateGlobalDevices == /\ \E ips \in Elsewhere : global' = [ips |-> ips, fresh |-> TRUE]
                       /\ UNCHANGED <<limits, tracker, mapped, stats, accounting, flow>>
GlobalGone == /\ global.fresh /\ global' = [ips |-> {}, fresh |-> FALSE]
              /\ UNCHANGED <<limits, tracker, mapped, stats, accounting, flow>>

---------------------------------------------------------------------------
(* RoutedConnection and RoutedPacketConnection *)
Silent == UNCHANGED <<limits, tracker, mapped, stats, global, accounting>>

Resolve(f) == /\ flow[f].at = "new"
              /\ \E a \in Addresses, tcp \in BOOLEAN :
                   PutFlow(f, [NewFlow EXCEPT !.at = "limit", !.address = a, !.tcp = tcp, !.by = tracker,
                                          !.us = IF mapped THEN tracker ELSE 0])
              /\ Silent
(* deviceLimitFunc *)
ReadLimit(f) == /\ flow[f].at = "limit"
                /\ PutFlow(f, [flow[f] EXCEPT !.at = IF flow[f].us # 0 /\ panelUser.devices > 0 THEN "local" ELSE "add",
                                          !.limit = panelUser.devices])
                /\ Silent
(* checkDeviceGate: the local addresses under one lock, the global ones under another *)
ReadLocal(f) == /\ flow[f].at = "local"
                /\ LET ips == AliveIPs(flow[f].us)
                   IN  PutFlow(f, [flow[f] EXCEPT !.at = IF flow[f].address \in ips THEN "add" ELSE "global", !.local = ips])
                /\ Silent
Lowest(f, ips) == Cardinality({a \in ips : a < flow[f].address}) < flow[f].limit
Gate(f) ==
  /\ flow[f].at = "global"
  /\ LET known == IF global.fresh THEN global.ips ELSE {}
         all == flow[f].local \cup known
         admit == \/ flow[f].address \in known
                  \/ Cardinality(all) < flow[f].limit
                  \/ Lowest(f, all)
     IN  PutFlow(f, IF admit THEN [flow[f] EXCEPT !.at = "add"] ELSE Gone)
  /\ Silent

(* addConn *)
AddConn(f) ==
  /\ flow[f].at = "add"
  /\ PutFlow(f, [flow[f] EXCEPT !.at = IF flow[f].tcp THEN "register" ELSE "speed", !.limit = 0, !.local = {}])
  /\ stats' = IF flow[f].us = 0 THEN stats
              ELSE [stats EXCEPT ![flow[f].us].count = @ + 1,
                                 ![flow[f].us].ips[flow[f].address] = @ + 1]
  /\ UNCHANGED <<limits, tracker, mapped, global, accounting>>
(* connMap of the tracker that was called, for every TCP connection it admits *)
Register(f) ==
  /\ flow[f].at = "register" /\ Go(f, "speed")
  /\ stats' = [stats EXCEPT ![flow[f].by].refs = @ \cup {f}]
  /\ UNCHANGED <<limits, tracker, mapped, global, accounting>>

(* GetLimiter: look, read the speed, store a new bucket, each under its own lock *)
LookBucket(f) ==
  /\ flow[f].at = "speed"
  /\ Go(f, IF named /\ bucket = 0 THEN "read" ELSE "open")
  /\ Silent
ReadSpeed(f) ==
  /\ flow[f].at = "read"
  /\ PutFlow(f, [flow[f] EXCEPT !.at = IF panelUser.speed > 0 THEN "store" ELSE "open", !.speed = panelUser.speed, !.since = updates])
  /\ Silent
StoreBucket(f) ==
  /\ flow[f].at = "store"
  /\ PutFlow(f, [flow[f] EXCEPT !.at = "open", !.speed = 0, !.since = 0])
  /\ IF bucket # 0 THEN UNCHANGED <<bucket, rateOf>>   \* another one was faster
     ELSE /\ rateOf' = Append(rateOf, [speed |-> flow[f].speed, since |-> flow[f].since])
          /\ bucket' = Len(rateOf')
  /\ UNCHANGED <<panelUser, named, update, updates, made, tracker, mapped, stats, global, accounting>>

(* A read or a write moved bytes of a known user.  They are owed to the user, the
   landing node and the user at it, three counters that the tracker found in its
   totals; those of a tracker that does not share the kernel's are never seen *)
Account(f) ==
  /\ flow[f].at = "open" /\ flow[f].us # 0 /\ owed[f] = {}
  /\ carriedBy < MaxCarried /\ carriedBy' = carriedBy + 1
  /\ owed' = [owed EXCEPT ![f] = IF flow[f].us \in sharing THEN Kinds ELSE {}]
  /\ UNCHANGED <<limits, tracker, mapped, stats, global, flow, sharing, totals>>
CarryConn(f) == flow[f].tcp /\ Account(f)
CarryPacket(f) == ~flow[f].tcp /\ Account(f)
(* The node before the user at it; the user before both in the count functions
   of a copy loop, after both in Read, Write, ReadPacket and WritePacket *)
Turn(f, k) == CASE k = "user" -> owed[f] \in {Kinds, {"user"}}
                [] k = "node" -> TRUE
                [] k = "pair" -> "node" \notin owed[f]
(* One atomic addition.  It may come long after the connection was closed and its box replaced *)
AddTraffic(f) ==
  /\ \E k \in owed[f] : /\ Turn(f, k)
                        /\ totals' = [totals EXCEPT ![k] = @ + 1]
                        /\ owed' = [owed EXCEPT ![f] = @ \ {k}]
  /\ UNCHANGED <<limits, tracker, mapped, stats, global, flow, sharing, carriedBy>>

(* Mutant: the books of the tracker in use, not of the one that admitted the connection *)
RemoveConnHere(f) ==
  /\ flow[f].at = "open" /\ Go(f, "unref")
  /\ stats' = IF flow[f].us = 0 THEN stats
              ELSE [stats EXCEPT ![tracker].count = @ - 1,
                                 ![tracker].ips[flow[f].address] = IF @ > 1 THEN @ - 1 ELSE 0]
  /\ UNCHANGED <<limits, tracker, mapped, global, accounting>>
(* Close, once *)
RemoveConn(f) ==
  /\ flow[f].at = "open" /\ Go(f, "unref")
  /\ stats' = IF flow[f].us = 0 THEN stats
              ELSE [stats EXCEPT ![flow[f].us].count = @ - 1,
                                 ![flow[f].us].ips[flow[f].address] = IF @ > 1 THEN @ - 1 ELSE 0]
  /\ UNCHANGED <<limits, tracker, mapped, global, accounting>>
RemoveConnRef(f) ==
  /\ flow[f].at = "unref" /\ PutFlow(f, Gone)
  /\ stats' = [stats EXCEPT ![flow[f].by].refs = @ \ {f}]
  /\ UNCHANGED <<limits, tracker, mapped, global, accounting>>

FlowStep(f) == \/ Resolve(f) \/ ReadLimit(f) \/ ReadLocal(f) \/ Gate(f) \/ AddConn(f) \/ Register(f)
               \/ LookBucket(f) \/ ReadSpeed(f) \/ StoreBucket(f) \/ CarryConn(f) \/ CarryPacket(f)
               \/ AddTraffic(f) \/ RemoveConn(f) \/ RemoveConnRef(f)
TrackerNext == \/ SetUser \/ UpdateBuckets \/ SetUserMap \/ Rebuild \/ UpdateGlobalDevices \/ GlobalGone
               \/ \E f \in Flows : FlowStep(f)

---------------------------------------------------------------------------
(* ActiveCount of a tracker, over its users: TCP and UDP, known users only *)
ActiveCount(t) == stats[t].count

TrackerTypeOK ==
  /\ panelUser \in [known : BOOLEAN, speed : Speeds \cup {0}, devices : DeviceLimits \cup {0}]
  /\ named \in BOOLEAN /\ rateOf \in Seq(BucketType)
  /\ bucket \in 0..Len(rateOf) /\ made \in 0..Len(rateOf)
  /\ tracker \in Trackers /\ mapped \in BOOLEAN /\ updates \in 0..MaxUpdates
  /\ stats \in [Trackers -> [ips : [Addresses -> Nat], count : Nat, refs : SUBSET Flows]]
  /\ global \in [ips : SUBSET Addresses, fresh : BOOLEAN] /\ carriedBy \in 0..MaxCarried
  /\ totals \in [Kinds -> Nat] /\ sharing \in SUBSET Trackers /\ owed \in [Flows -> SUBSET Kinds]
  /\ flow \in [Flows -> FlowType]
  /\ update \in {"idle", "buckets", "map"}

Counted(t) == {f \in Flows : flow[f].us = t /\ flow[f].at \in {"register", "speed", "read", "store", "open"}}
Referred(t) == {f \in Flows : flow[f].by = t /\ flow[f].tcp /\ flow[f].at \in {"speed", "read", "store", "open", "unref"}}
Owing(k) == {f \in Flows : k \in owed[f]}

(* The connection count and the refcount of every address of every tracker are
   those of the open connections of its user, connMap that of the TCP connections
   it admitted for anybody, whatever is opened, closed and rebuilt at the same
   time.  And what the kernel reports lacks no byte but those between two of
   their additions: not those of a connection that was closed, nor those of a
   box that was replaced while they were under way. *)
BooksExact ==
  /\ \A t \in Trackers :
       /\ ActiveCount(t) = Cardinality(Counted(t)) /\ stats[t].refs = Referred(t)
       /\ AliveIPs(t) = {flow[f].address : f \in Counted(t)}
       /\ \A a \in Addresses : stats[t].ips[a] = Cardinality({f \in Counted(t) : flow[f].address = a})
  /\ \A k \in Kinds : totals[k] + Cardinality(Owing(k)) = carriedBy

(* speedtracker.go: a bucket whose speed was read after the last update of the
   limits has the speed the panel wants, and so has every bucket that was there
   when UpdateBuckets passed.  A stale one can only come from a connection that
   read the speed before the update and stored its bucket after UpdateBuckets.
   However many connections ask at once, they share one bucket until the next
   update. *)
SpeedFollows ==
  /\ bucket # 0 /\ rateOf[bucket].since = updates => rateOf[bucket].speed = panelUser.speed
  /\ update # "buckets" /\ bucket \in 1..made => rateOf[bucket].since = updates
  /\ Len(rateOf) - made <= 1
===========================================================================
