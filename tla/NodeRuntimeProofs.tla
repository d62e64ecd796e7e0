-------------------------- MODULE NodeRuntimeProofs --------------------------
(***************************************************************************)
(* The safety invariants of NodeRuntime hold for every set of              *)
(* configurations, users and certificates, and a failed snapshot is never  *)
(* attempted twice.                                                        *)
(***************************************************************************)
EXTENDS NodeRuntime, TLAPS

-----------------------------------------------------------------------------
(* The invariant, as a predicate of the service's state.  A handler may    *)
(* change the wish before it acts, so what it starts from is weaker than   *)
(* what it leaves.                                                         *)

FailureStops(r) ==
  /\ r.failed # NoSnapshot =>
       r.kernel = NoSnapshot /\ r.firewall = None /\ r.applied = None
  /\ r.error = "none" <=> r.failed = NoSnapshot

\* What every handler is given, its change of the wish included.
Startable(r) == r \in States /\ FailureStops(r)

KernelMatches(r, announced) ==
  r.kernel # NoSnapshot =>
    /\ r.config # None
    /\ r.kernel.config = r.config /\ r.kernel.users = r.users
    /\ r.firewall = r.config /\ r.applied = r.config
    /\ r.kernel.cert = r.cert \/ r.renewed \/ announced
    /\ r.config \in UsesClock => r.clock

FailureMatches(r) ==
  /\ r.failed # NoSnapshot =>
       r.config # None /\ r.failed.config = r.config /\ r.failed.users = r.users
  /\ r.firewall # None => r.firewall = r.applied
  /\ r.applied # None => r.applied = r.config

\* What every handler leaves.
Good(r, announced) ==
  Startable(r) /\ KernelMatches(r, announced) /\ FailureMatches(r)

\* What holds besides once the node is in its main loop.
Settled(r) ==
  /\ r.status = IF r.failed = NoSnapshot THEN "running" ELSE "failed"
  /\ r.failed = NoSnapshot /\ r.config # None =>
       r.kernel # NoSnapshot \/ (r.users = {} /\ r.config \notin Landing)

IInv ==
  /\ Good(rt, pull.certChanged)
  /\ pull \in Pulls /\ (pull.certChanged => pull.arrived)
  /\ mainPC \in {"setup", "loop", "stopped"}
  /\ mainPC = "setup" => /\ rt.config = None /\ rt.kernel = NoSnapshot
                         /\ rt.failed = NoSnapshot
  /\ mainPC = "loop" => Settled(rt)

-----------------------------------------------------------------------------
(* Users.                                                                  *)

LEMMA SubtractTyped ==
  ASSUME NEW us \in UserSets, NEW delta
  PROVE  SubtractUsers(us, delta) \in UserSets
BY DEF SubtractUsers, ById, UserSets

LEMMA MergeTyped ==
  ASSUME NEW us \in UserSets, NEW delta \in UserSets
  PROVE  MergeUsers(us, delta) \in UserSets
BY DEF MergeUsers, ById, UserSets

\* An identity that is known by its ID and has kept its UUID is the same user,
\* so appending the unknown ones is the merge.
LEMMA AddIsMerge ==
  ASSUME NEW us \in UserSets, NEW delta \in UserSets, ~HasUUIDChange(us, delta)
  PROVE  us \cup (delta \ ById(delta, us)) = MergeUsers(us, delta)
<1>1. \A u \in us, d \in delta : u.id = d.id => u = d
  BY ConstantsAssumption DEF HasUUIDChange, UserSets
<1> QED BY <1>1 DEF MergeUsers, ById

LEMMA NoSnapshotTyped == NoSnapshot \in Snapshots
BY DEF NoSnapshot, Snapshots, UserSets

-----------------------------------------------------------------------------
(* The building blocks.                                                    *)

LEMMA RenewTyped ==
  ASSUME NEW r \in States, NEW m \in Certs \cup {None}
  PROVE  /\ Renew(r, m) \in States
         /\ Renew(r, m).config = r.config /\ Renew(r, m).users = r.users
BY DEF Renew, States

LEMMA DesiredTyped ==
  ASSUME NEW r \in States, r.config # None
  PROVE  /\ Desired(r) \in Snapshots /\ Desired(r) # NoSnapshot
         /\ Desired(r).config = r.config /\ Desired(r).users = r.users
         /\ Desired(r).cert = r.cert
BY DEF Desired, States, Snapshots, NoSnapshot

\* Whatever it is called on, failRuntime leaves a stopped node.
LEMMA FailRuntimeGood ==
  ASSUME NEW r \in States, r.config # None, NEW o \in Outcomes,
         NEW operation \in Operations, NEW a
  PROVE  Good(FailRuntime(r, operation, o), a)
         /\ Settled(FailRuntime(r, operation, o))
<1> DEFINE n == Renew(r, o.renewal)
           m == StopKernel(n)
           f == FailRuntime(r, operation, o)
<1>1. o.renewal \in Certs \cup {None}
  BY DEF Outcomes
<1>2. n \in States /\ n.config = r.config /\ n.users = r.users
  BY <1>1, RenewTyped
<1>3. m \in States /\ m.config = r.config /\ m.users = r.users
      /\ m.kernel = NoSnapshot /\ m.firewall = None
  BY <1>2, NoSnapshotTyped DEF StopKernel, States
<1>4. /\ Desired(m) \in Snapshots /\ Desired(m) # NoSnapshot
      /\ Desired(m).config = r.config /\ Desired(m).users = r.users
  BY <1>3, DesiredTyped
<1>5. f = [m EXCEPT !.failed = Desired(m), !.error = operation, !.applied = None,
                    !.clock = FALSE, !.status = "failed", !.failedWith = r.cert]
  BY DEF FailRuntime
<1> HIDE DEF n, m
<1>6. f \in States
  BY <1>3, <1>4, <1>5 DEF States, Operations
<1>7. /\ f.failed = Desired(m) /\ f.error = operation /\ f.applied = None
      /\ f.status = "failed" /\ f.kernel = NoSnapshot /\ f.firewall = None
      /\ f.config = r.config /\ f.users = r.users
  BY <1>3, <1>5 DEF States
<1>8. operation # "none"
  BY DEF Operations
<1> QED
  BY <1>4, <1>6, <1>7, <1>8
  DEF Good, Startable, FailureStops, KernelMatches, FailureMatches, Settled

LEMMA PreparedTyped ==
  ASSUME NEW r \in States, NEW o \in Outcomes
  PROVE  /\ Prepared(r, o) \in States
         /\ Prepared(r, o).config = r.config /\ Prepared(r, o).users = r.users
         /\ ~PrepareFails(r, o) => Prepared(r, o).clock = (r.config \in UsesClock)
<1> DEFINE m == Reconfigured(r, o)
<1>1. m \in States /\ m.config = r.config /\ m.users = r.users
  BY DEF Reconfigured, Material, Outcomes, States
<1>2. PrepareFails(r, o) \in BOOLEAN /\ (r.config \in UsesClock) \in BOOLEAN
  BY DEF PrepareFails
<1> HIDE DEF m
<1>3. Prepared(r, o) = [m EXCEPT !.clock = IF PrepareFails(r, o) THEN @
                                           ELSE r.config \in UsesClock]
  BY DEF Prepared, m
<1> QED BY <1>1, <1>2, <1>3 DEF States

LEMMA IdleGood ==
  ASSUME NEW r \in States, r.users = {}, r.config \notin Landing, NEW a
  PROVE  Good(Idle(r), a) /\ Settled(Idle(r))
<1> DEFINE i == Idle(r)
<1>1. i \in States
  BY NoSnapshotTyped DEF Idle, RuntimeApplied, StopKernel, States
<1>2. /\ i.failed = NoSnapshot /\ i.error = "none" /\ i.applied = None
      /\ i.status = "running" /\ i.kernel = NoSnapshot /\ i.firewall = None
      /\ i.config = r.config /\ i.users = r.users
  BY DEF Idle, RuntimeApplied, StopKernel, States
<1> QED
  BY <1>1, <1>2
  DEF Good, Startable, FailureStops, KernelMatches, FailureMatches, Settled

LEMMA ServeGood ==
  ASSUME NEW r \in States, r.config # None, r.config \in UsesClock => r.clock, NEW a
  PROVE  Good(Serve(r), a) /\ Settled(Serve(r))
<1> DEFINE s == Serve(r)
<1>1. /\ Desired(r) \in Snapshots /\ Desired(r) # NoSnapshot
      /\ Desired(r).config = r.config /\ Desired(r).users = r.users
      /\ Desired(r).cert = r.cert
  BY DesiredTyped
<1>2. s \in States
  BY <1>1, NoSnapshotTyped DEF Serve, RuntimeApplied, States
<1>3. /\ s.failed = NoSnapshot /\ s.error = "none" /\ s.applied = r.config
      /\ s.status = "running" /\ s.kernel = Desired(r) /\ s.firewall = r.config
      /\ s.config = r.config /\ s.users = r.users /\ s.cert = r.cert
      /\ s.clock = r.clock
  BY DEF Serve, RuntimeApplied, States
<1> QED
  BY <1>1, <1>2, <1>3
  DEF Good, Startable, FailureStops, KernelMatches, FailureMatches, Settled

\* applyChanges settles the node: it serves the wish, idles or has failed on
\* exactly this wish.
LEMMA ApplyChangesGood ==
  ASSUME NEW r, Startable(r), r.config # None, NEW o \in Outcomes, NEW a,
         r.failed # NoSnapshot => r.status = "failed"
  PROVE  Good(ApplyChanges(r, o), a) /\ Settled(ApplyChanges(r, o))
<1> DEFINE p == Prepared(r, o)
<1>1. r \in States /\ FailureStops(r)
  BY DEF Startable
<1>2. CASE Blocked(r)
  <2>1. ApplyChanges(r, o) = r
    BY <1>2 DEF ApplyChanges
  <2>2. r.failed # NoSnapshot /\ r.failed.config = r.config
        /\ r.failed.users = r.users
    BY <1>1, <1>2, DesiredTyped DEF Blocked
  <2> QED
    BY <1>1, <2>1, <2>2 
    DEF Good, Startable, FailureStops, KernelMatches, FailureMatches, Settled
<1>3. CASE ~Blocked(r)
  <2>1. /\ p \in States /\ p.config = r.config /\ p.users = r.users
        /\ ~PrepareFails(r, o) => p.clock = (r.config \in UsesClock)
    BY <1>1, PreparedTyped
  <2>2. CASE PrepareFails(r, o)
    <3>1. ApplyChanges(r, o) = FailRuntime(p, "prepare", o)
      BY <1>3, <2>2 DEF ApplyChanges
    <3> QED BY <2>1, <3>1, FailRuntimeGood DEF Operations
  <2>3. CASE ~PrepareFails(r, o) /\ p.users = {} /\ p.config \notin Landing
    <3>1. ApplyChanges(r, o) = Idle(p)
      BY <1>3, <2>3 DEF ApplyChanges
    <3> QED BY <2>1, <2>3, <3>1, IdleGood
  <2>4. CASE ~PrepareFails(r, o) /\ (p.users # {} \/ p.config \in Landing)
    <3>1. ApplyChanges(r, o) = IF o.fails \in {"kernel", "firewall"}
                                 THEN FailRuntime(p, o.fails, o) ELSE Serve(p)
      BY <1>3, <2>4 DEF ApplyChanges
    <3>2. CASE o.fails \in {"kernel", "firewall"}
      BY <2>1, <3>1, <3>2, FailRuntimeGood DEF Operations
    <3>3. CASE o.fails \notin {"kernel", "firewall"}
      BY <2>1, <2>4, <3>1, <3>3, ServeGood
    <3> QED BY <3>2, <3>3
  <2> QED BY <2>2, <2>3, <2>4
<1> QED BY <1>2, <1>3

-----------------------------------------------------------------------------
(* The handlers.                                                           *)

LEMMA PrepareUserStateStartable ==
  ASSUME NEW r, Startable(r), NEW us \in UserSets
  PROVE  /\ Startable(PrepareUserState(r, us))
         /\ PrepareUserState(r, us).config = r.config
         /\ PrepareUserState(r, us).users = us
BY DEF Startable, FailureStops, PrepareUserState, States

\* The kernel's users and the wished ones changed together.
LEMMA HotUpdateGood ==
  ASSUME NEW r, NEW a, Good(r, a), Settled(r), Running(r), NEW us \in UserSets
  PROVE  LET k == KernelUpdateUsers(PrepareUserState(r, us), us)
         IN Good(k, a) /\ Settled(k)
<1> DEFINE p == PrepareUserState(r, us)
           k == KernelUpdateUsers(p, us)
<1>1. /\ r \in States /\ r.kernel # NoSnapshot /\ r.config # None
      /\ r.kernel \in Snapshots /\ r.kernel.config = r.config
      /\ r.failed = NoSnapshot
  BY DEF Good, Startable, FailureStops, KernelMatches, Running, States
<1>2. p \in States /\ p = [r EXCEPT !.users = us]
  BY <1>1 DEF PrepareUserState, States
<1>3. k = [p EXCEPT !.kernel = [p.kernel EXCEPT !.users = us]]
  BY <1>2 DEF KernelUpdateUsers, States
<1>4. /\ [r.kernel EXCEPT !.users = us] \in Snapshots
      /\ [r.kernel EXCEPT !.users = us].config = r.config
      /\ [r.kernel EXCEPT !.users = us].users = us
      /\ [r.kernel EXCEPT !.users = us].cert = r.kernel.cert
  BY <1>1 DEF Snapshots
<1>5. [r.kernel EXCEPT !.users = us] # NoSnapshot
  BY <1>1, <1>4 DEF NoSnapshot
<1> HIDE DEF k, p
<1>6. k \in States
  <2>1. p.kernel = r.kernel
    BY <1>1, <1>2 DEF States
  <2> DEFINE n == [r.kernel EXCEPT !.users = us]
  <2>2. n \in Snapshots
    BY <1>4
  <2>3. k = [p EXCEPT !.kernel = n]
    BY <1>3, <2>1
  <2> HIDE DEF n
  <2> QED BY <1>2, <2>2, <2>3 DEF States
<1>7. /\ k.kernel = [r.kernel EXCEPT !.users = us] /\ k.users = us
      /\ k.config = r.config /\ k.cert = r.cert /\ k.renewed = r.renewed
      /\ k.failed = r.failed /\ k.error = r.error /\ k.applied = r.applied
      /\ k.firewall = r.firewall /\ k.clock = r.clock /\ k.status = r.status
  <2>1. p.kernel = r.kernel
    BY <1>1, <1>2 DEF States
  <2> DEFINE n == [r.kernel EXCEPT !.users = us]
  <2>2. k = [p EXCEPT !.kernel = n]
    BY <1>3, <2>1
  <2> HIDE DEF n
  <2>3. k.kernel = n /\ k.users = us
    BY <1>1, <1>2, <2>2 DEF States
  <2>4. /\ k.config = r.config /\ k.cert = r.cert /\ k.renewed = r.renewed
        /\ k.failed = r.failed /\ k.error = r.error /\ k.applied = r.applied
        /\ k.firewall = r.firewall /\ k.clock = r.clock /\ k.status = r.status
    BY <1>1, <1>2, <2>2 DEF States
  <2> QED BY <2>3, <2>4 DEF n
<1>8. Good(k, a) /\ Settled(k)
  BY <1>1, <1>4, <1>5, <1>6, <1>7
  DEF Good, Startable, FailureStops, KernelMatches, FailureMatches, Settled
<1> QED BY <1>8 DEF k, p

LEMMA KernelUsersChange ==
  ASSUME NEW r, NEW a, Good(r, a), Settled(r), Running(r),
         NEW us \in UserSets, NEW o \in Outcomes
  PROVE  LET f == FailRuntime(PrepareUserState(r, us), "kernel", o)
         IN Good(f, a) /\ Settled(f)
<1> DEFINE p == PrepareUserState(r, us)
<1>1. p \in States /\ p.config = r.config
  BY PrepareUserStateStartable DEF Good, Startable
<1>2. r.config # None
  BY DEF Good, KernelMatches, Running
<1> HIDE DEF p
<1>3. Good(FailRuntime(p, "kernel", o), a) /\ Settled(FailRuntime(p, "kernel", o))
  BY <1>1, <1>2, FailRuntimeGood DEF Operations
<1> QED BY <1>3 DEF p

\* A stopped node is tried again under the new users.
LEMMA ColdUpdateGood ==
  ASSUME NEW r, NEW a, Good(r, a), Settled(r), ~Running(r),
         NEW us \in UserSets, NEW o \in Outcomes
  PROVE  LET s == ApplyChanges(PrepareUserState(r, us), o)
         IN Good(s, a) /\ Settled(s)
<1> DEFINE p == PrepareUserState(r, us)
<1>1. Startable(p) /\ p.config = r.config /\ p.users = us
  BY PrepareUserStateStartable DEF Good
<1>2. CASE r.config # None
  <2>0. p.failed = r.failed /\ p.status = r.status
    BY DEF PrepareUserState, Good, Startable, States
  <2> HIDE DEF p
  <2>1. Good(ApplyChanges(p, o), a) /\ Settled(ApplyChanges(p, o))
    BY <1>1, <1>2, <2>0, ApplyChangesGood DEF Settled
  <2> QED BY <2>1 DEF p
<1>3. CASE r.config = None
  <2>1. ApplyChanges(p, o) = p
    BY <1>1, <1>3 DEF ApplyChanges
  <2>2. r.failed = NoSnapshot /\ r.kernel = NoSnapshot
    BY <1>3 DEF Good, FailureMatches, Running
  <2>3. /\ p.failed = r.failed /\ p.kernel = r.kernel /\ p.status = r.status
        /\ p.firewall = r.firewall /\ p.applied = r.applied
    BY DEF PrepareUserState, Good, Startable, States
  <2> HIDE DEF p
  <2>4. Good(p, a) /\ Settled(p)
    BY <1>1, <1>3, <2>2, <2>3 DEF Good, KernelMatches, FailureMatches, Settled
  <2> QED BY <2>1, <2>4 DEF p
<1> QED BY <1>2, <1>3

LEMMA ApplyUserUpdateGood ==
  ASSUME NEW r, NEW a, Good(r, a), Settled(r), NEW us \in UserSets,
         NEW o \in Outcomes
  PROVE  Good(ApplyUserUpdate(r, us, o), a) /\ Settled(ApplyUserUpdate(r, us, o))
<1>1. CASE ~Running(r)
  BY <1>1, ColdUpdateGood DEF ApplyUserUpdate
<1>2. CASE Running(r) /\ o.fails = "kernel"
  BY <1>2, KernelUsersChange DEF ApplyUserUpdate
<1>3. CASE Running(r) /\ o.fails # "kernel"
  BY <1>3, HotUpdateGood DEF ApplyUserUpdate
<1> QED BY <1>1, <1>2, <1>3

LEMMA ApplyUserAddGood ==
  ASSUME NEW r, NEW a, Good(r, a), Settled(r), NEW delta \in UserSets,
         NEW o \in Outcomes
  PROVE  Good(ApplyUserAdd(r, delta, o), a) /\ Settled(ApplyUserAdd(r, delta, o))
<1> DEFINE merged == MergeUsers(r.users, delta)
           p == PrepareUserState(r, merged)
<1>1. r \in States /\ r.users \in UserSets /\ merged \in UserSets
  BY MergeTyped DEF Good, Startable, States
<1>2. CASE HasUUIDChange(r.users, delta)
  BY <1>1, <1>2, ApplyUserUpdateGood DEF ApplyUserAdd
<1>3. CASE ~HasUUIDChange(r.users, delta) /\ ~Running(r)
  BY <1>1, <1>3, ColdUpdateGood DEF ApplyUserAdd
<1>4. CASE ~HasUUIDChange(r.users, delta) /\ Running(r) /\ o.fails = "kernel"
  <2>1. ApplyUserAdd(r, delta, o) = FailRuntime(p, "kernel", o)
    BY <1>4 DEF ApplyUserAdd
  <2> QED BY <1>1, <1>4, <2>1, KernelUsersChange
<1>5. CASE ~HasUUIDChange(r.users, delta) /\ Running(r) /\ o.fails # "kernel"
  <2>1. r.kernel.users = r.users /\ p.kernel = r.kernel
    BY <1>1, <1>5 DEF Good, KernelMatches, Running, PrepareUserState, States
  <2>2. p.kernel.users \cup (delta \ ById(delta, p.kernel.users)) = merged
    BY <1>1, <1>5, <2>1, AddIsMerge
  <2>3. ApplyUserAdd(r, delta, o) = KernelUpdateUsers(p, merged)
    <3>1. CASE o.fails = "hot"
      BY <1>5, <3>1 DEF ApplyUserAdd
    <3>2. CASE o.fails \notin {"kernel", "hot"}
      <4>1. ApplyUserAdd(r, delta, o) = KernelAddUsers(p, delta)
        BY <1>5, <3>2 DEF ApplyUserAdd
      <4> QED BY <2>2, <4>1 DEF KernelAddUsers
    <3> QED BY <1>5, <3>1, <3>2
  <2> QED BY <1>1, <1>5, <2>3, HotUpdateGood
<1> QED BY <1>2, <1>3, <1>4, <1>5

\* xray's own stop leaves a node that has nobody to serve.
LEMMA KernelRemoveGood ==
  ASSUME NEW r, NEW a, Good(r, a), Settled(r), Running(r),
         NEW delta \in UserSets, NEW us, us = SubtractUsers(r.users, delta)
  PROVE  LET k == KernelRemoveUsers(PrepareUserState(r, us), delta)
         IN Good(k, a) /\ Settled(k)
<1> DEFINE p == PrepareUserState(r, us)
           k == KernelRemoveUsers(p, delta)
<1>1. /\ r \in States /\ r.kernel.users = r.users /\ r.kernel.config = r.config
      /\ r.firewall = r.config /\ r.applied = r.config /\ r.failed = NoSnapshot
      /\ r.error = "none" /\ r.status = "running" /\ r.users \in UserSets
  BY DEF Good, Startable, FailureStops, KernelMatches, Settled, Running, States
<1>2. us \in UserSets
  BY <1>1, SubtractTyped
<1>3. p \in States /\ p = [r EXCEPT !.users = us] /\ p.kernel = r.kernel
  BY <1>1, <1>2 DEF PrepareUserState, States
<1>4. SubtractUsers(p.kernel.users, delta) = us
  BY <1>1, <1>3
<1> DEFINE stops == /\ StopsWhenEmpty
                    /\ us = {} /\ p.kernel.users # {}
                    /\ p.kernel.config \notin Landing
<1>5. CASE stops
  <2>1. k = [p EXCEPT !.kernel = NoSnapshot]
    BY <1>4, <1>5 DEF KernelRemoveUsers
  <2>2. k \in States
    BY <1>3, <2>1, NoSnapshotTyped DEF States
  <2>3. /\ k.kernel = NoSnapshot /\ k.users = {} /\ k.config = r.config
        /\ k.firewall = r.config /\ k.applied = r.config
        /\ k.failed = NoSnapshot /\ k.error = "none" /\ k.status = "running"
    <3>1. /\ p.users = us /\ p.config = r.config /\ p.failed = r.failed
          /\ p.firewall = r.firewall /\ p.applied = r.applied
          /\ p.error = r.error /\ p.status = r.status
      BY <1>1, <1>3 DEF States
    <3>2. us = {}
      BY <1>5
    <3> HIDE DEF p, k
    <3> QED BY <1>1, <1>3, <3>1, <3>2, <2>1 DEF States
  <2>4. r.config \notin Landing
    BY <1>1, <1>3, <1>5
  <2> HIDE DEF k
  <2>5. Good(k, a) /\ Settled(k)
    BY <2>2, <2>3, <2>4
    DEF Good, Startable, FailureStops, KernelMatches, FailureMatches, Settled
  <2> QED BY <2>5 DEF k
<1>6. CASE ~stops
  <2>1. k = KernelUpdateUsers(p, us)
    BY <1>4, <1>6 DEF KernelRemoveUsers
  <2> QED BY <1>2, <2>1, HotUpdateGood
<1> QED BY <1>5, <1>6

LEMMA ApplyUserRemoveGood ==
  ASSUME NEW r, NEW a, Good(r, a), Settled(r), NEW delta \in UserSets,
         NEW o \in Outcomes
  PROVE  Good(ApplyUserRemove(r, delta, o), a)
         /\ Settled(ApplyUserRemove(r, delta, o))
<1> DEFINE filtered == SubtractUsers(r.users, delta)
<1>1. filtered \in UserSets
  BY SubtractTyped DEF Good, Startable, States
<1>2. CASE ~Running(r)
  BY <1>1, <1>2, ColdUpdateGood DEF ApplyUserRemove
<1>3. CASE Running(r) /\ o.fails = "kernel"
  BY <1>1, <1>3, KernelUsersChange DEF ApplyUserRemove
<1>4. CASE Running(r) /\ o.fails = "hot"
  BY <1>1, <1>4, HotUpdateGood DEF ApplyUserRemove
<1>5. CASE Running(r) /\ o.fails \notin {"kernel", "hot"}
  <2>1. ApplyUserRemove(r, delta, o) =
          KernelRemoveUsers(PrepareUserState(r, filtered), delta)
    BY <1>5 DEF ApplyUserRemove
  <2> QED BY <1>5, <2>1, KernelRemoveGood
<1> QED BY <1>2, <1>3, <1>4, <1>5

LEMMA PullWishTyped ==
  ASSUME NEW r \in States, NEW result \in Pulls
  PROVE  LET users == IF result.users.known THEN result.users.users ELSE r.users
             config == IF result.config # None THEN result.config ELSE r.config
         IN /\ users \in UserSets /\ config \in Configs \cup {None}
            /\ [PrepareUserState(r, users) EXCEPT !.config = config] \in States
<1> DEFINE users == IF result.users.known THEN result.users.users ELSE r.users
           config == IF result.config # None THEN result.config ELSE r.config
<1>1. r.users \in UserSets /\ r.config \in Configs \cup {None}
  BY DEF States
<1>2. result.config \in Configs \cup {None} /\ result.users \in PullUsers
  BY DEF Pulls
<1>3. result.users.users \in UserSets
  <2>1. NoUsers.users \in UserSets
    BY DEF NoUsers, UserSets
  <2>2. result.users = NoUsers \/ result.users \in [users : UserSets, known : {TRUE}]
    BY <1>2 DEF PullUsers
  <2> QED BY <2>1, <2>2
<1>4. users \in UserSets
  <2>1. CASE result.users.known
    BY <1>3, <2>1
  <2>2. CASE ~result.users.known
    BY <1>1, <2>2
  <2> QED BY <2>1, <2>2
<1>5. config \in Configs \cup {None}
  BY <1>1, <1>2
<1> HIDE DEF users, config
<1>6. [PrepareUserState(r, users) EXCEPT !.config = config] \in States
  BY <1>4, <1>5 DEF PrepareUserState, States
<1> QED BY <1>4, <1>5, <1>6 DEF users, config

\* A result that announces new material is used up by a new attempt.
LEMMA PullAppliedGood ==
  ASSUME NEW r, NEW result \in Pulls, Good(r, result.certChanged), Settled(r),
         NEW o \in Outcomes
  PROVE  Good(PullApplied(r, result, o), FALSE)
         /\ Settled(PullApplied(r, result, o))
<1> DEFINE users == IF result.users.known THEN result.users.users ELSE r.users
           config == IF result.config # None THEN result.config ELSE r.config
           p == [PrepareUserState(r, users) EXCEPT !.config = config]
<1>1. /\ r \in States /\ users \in UserSets /\ config \in Configs \cup {None}
      /\ p \in States
  BY PullWishTyped DEF Good, Startable
<1>2. Startable(p) /\ p.config = config
  BY <1>1 DEF PrepareUserState, Good, Startable, FailureStops, States
<1>3. CASE result.config # None \/ result.certChanged
  <2>1. PullApplied(r, result, o) = ApplyChanges(p, o)
    BY <1>3 DEF PullApplied
  <2>2. CASE config # None
    <3>1. p.failed = r.failed /\ p.status = r.status
      BY <1>1 DEF PrepareUserState, States
    <3> HIDE DEF p, config
    <3> QED BY <1>2, <2>1, <2>2, <3>1, ApplyChangesGood DEF Settled
  <2>3. CASE config = None
    <3>1. ApplyChanges(p, o) = p
      BY <1>2, <2>3 DEF ApplyChanges
    <3>2. r.config = None /\ r.failed = NoSnapshot /\ r.kernel = NoSnapshot
      BY <2>3 DEF Good, KernelMatches, FailureMatches
    <3>3. /\ p.failed = r.failed /\ p.kernel = r.kernel /\ p.status = r.status
          /\ p.firewall = r.firewall /\ p.applied = r.applied
      BY <1>1 DEF PrepareUserState, States
    <3> HIDE DEF p
    <3> QED
      BY <1>2, <2>1, <2>3, <3>1, <3>2, <3>3
      DEF Good, KernelMatches, FailureMatches, Settled
  <2> QED BY <2>2, <2>3
<1>4. CASE ~(result.config # None \/ result.certChanged)
  <2>1. Good(r, FALSE)
    BY <1>4 DEF Good, KernelMatches
  <2>2. CASE users # r.users
    <3>1. PullApplied(r, result, o) = ApplyUserUpdate(r, users, o)
      BY <1>4, <2>2 DEF PullApplied
    <3> QED BY <1>1, <2>1, <3>1, ApplyUserUpdateGood
  <2>3. CASE users = r.users
    <3>1. PullApplied(r, result, o) = r
      BY <1>4, <2>3 DEF PullApplied
    <3> QED BY <2>1, <3>1
  <2> QED BY <2>2, <2>3
<1> QED BY <1>3, <1>4

-----------------------------------------------------------------------------
(* The invariant.                                                          *)

LEMMA InitIInv == Init => IInv
<1> SUFFICES ASSUME Init PROVE IInv
  OBVIOUS
<1> USE DEF Init
<1>1. rt \in States
  BY NoSnapshotTyped DEF States, UserSets, Operations
<1>2. pull \in Pulls /\ ~pull.certChanged
  BY DEF NoPull, Pulls, PullUsers
<1>3. FailureStops(rt) /\ KernelMatches(rt, pull.certChanged) /\ FailureMatches(rt)
  BY DEF FailureStops, KernelMatches, FailureMatches
<1>4. rt.config = None /\ rt.kernel = NoSnapshot /\ rt.failed = NoSnapshot
  OBVIOUS
<1> QED BY <1>1, <1>2, <1>3, <1>4 DEF IInv, Good, Startable

LEMMA NextIInv == IInv /\ [Next]_vars => IInv'
<1> SUFFICES ASSUME IInv, [Next]_vars PROVE IInv'
  OBVIOUS
<1> DEFINE a == pull.certChanged
<1>0. /\ Good(rt, a) /\ rt \in States /\ pull \in Pulls
      /\ pull.certChanged => pull.arrived
      /\ mainPC = "loop" => Settled(rt)
  BY DEF IInv, Good, Startable
<1>a. \A r : mainPC' = "loop" /\ UNCHANGED pull /\ rt' = r /\ Good(r, a) /\ Settled(r)
        => IInv'
  BY <1>0 DEF IInv
<1>1. ASSUME NEW config \in Configs, NEW users \in UserSets, NEW o \in Outcomes,
             InitialSetup(config, users, o)
      PROVE  IInv'
  <2> DEFINE p == [rt EXCEPT !.config = config, !.users = users]
             r == ApplyChanges(p, o)
  <2>1. config # None /\ rt.failed = NoSnapshot
    BY <1>1, ConstantsAssumption DEF IInv, InitialSetup
  <2>2. Startable(p) /\ p.config = config
    BY <1>0, <2>1 DEF Good, Startable, FailureStops, States
  <2>a. p.failed = rt.failed
    BY <1>0 DEF States
  <2> HIDE DEF p
  <2>3. Good(r, a) /\ Settled(r)
    BY <2>1, <2>2, <2>a, ApplyChangesGood
  <2>4. r.failed = NoSnapshot => [r EXCEPT !.status = "running"] = r
    BY <2>3 DEF Good, Startable, Settled, States
  <2>5. rt' = r /\ mainPC' = "loop" /\ UNCHANGED pull
    BY <1>1, <2>4 DEF InitialSetup, p
  <2> QED BY <1>a, <2>3, <2>5
<1>2. CASE SetupWithoutSnapshot
  <2>1. rt.failed = NoSnapshot /\ rt.config = None /\ rt.kernel = NoSnapshot
    BY <1>2 DEF IInv, SetupWithoutSnapshot
  <2> DEFINE r == [rt EXCEPT !.status = "running"]
  <2>2. r \in States /\ r.failed = NoSnapshot /\ r.config = None
        /\ r.kernel = NoSnapshot /\ r.status = "running" /\ r.error = rt.error
        /\ r.firewall = rt.firewall /\ r.applied = rt.applied
    BY <1>0, <2>1 DEF States
  <2>3. rt' = r /\ mainPC' = "loop" /\ UNCHANGED pull
    BY <1>2 DEF SetupWithoutSnapshot
  <2> HIDE DEF r
  <2>4. Good(r, a) /\ Settled(r)
    BY <1>0, <2>1, <2>2
    DEF Good, Startable, FailureStops, KernelMatches, FailureMatches, Settled
  <2> QED BY <1>a, <2>3, <2>4
<1>3. CASE SetupFails
  <2>1. rt.failed = NoSnapshot
    BY <1>3 DEF IInv, SetupFails
  <2>2. /\ rt' \in States /\ rt'.kernel = NoSnapshot /\ rt'.failed = NoSnapshot
        /\ rt'.error = rt.error /\ rt'.firewall = None
        /\ rt'.applied = rt.applied /\ rt'.config = rt.config
    BY <1>0, <1>3, <2>1, NoSnapshotTyped DEF SetupFails, StopKernel, States
  <2>3. mainPC' = "stopped" /\ UNCHANGED pull
    BY <1>3 DEF SetupFails
  <2>4. Good(rt', a)
    BY <1>0, <2>1, <2>2
    DEF Good, Startable, FailureStops, KernelMatches, FailureMatches
  <2> QED BY <1>0, <2>3, <2>4 DEF IInv
<1>4. ASSUME NEW config \in Configs, NEW o \in Outcomes, SyncConfig(config, o)
      PROVE  IInv'
  <2> DEFINE p == [rt EXCEPT !.config = config]
  <2>1. config # None
    BY ConstantsAssumption
  <2>2. Startable(p) /\ p.config = config
    BY <1>0 DEF Good, Startable, FailureStops, States
  <2>3. rt' = ApplyChanges(p, o) /\ mainPC' = "loop" /\ UNCHANGED pull
    BY <1>4 DEF SyncConfig, ApplyConfigUpdate
  <2>a. p.failed = rt.failed /\ p.status = rt.status /\ Settled(rt)
    BY <1>0, <1>4 DEF SyncConfig, States
  <2> HIDE DEF p
  <2>4. Good(ApplyChanges(p, o), a) /\ Settled(ApplyChanges(p, o))
    BY <2>1, <2>2, <2>a, ApplyChangesGood DEF Settled
  <2> QED BY <1>a, <2>3, <2>4
<1>5. ASSUME NEW users \in UserSets, NEW o \in Outcomes, SyncUsers(users, o)
      PROVE  IInv'
  <2>1. Good(ApplyUserUpdate(rt, users, o), a) /\ Settled(ApplyUserUpdate(rt, users, o))
    BY <1>0, <1>5, ApplyUserUpdateGood DEF SyncUsers
  <2> QED BY <1>a, <1>5, <2>1 DEF SyncUsers
<1>6. ASSUME NEW delta \in UserSets, NEW o \in Outcomes, SyncUserDelta(delta, o)
      PROVE  IInv'
  <2>1. Good(ApplyUserAdd(rt, delta, o), a) /\ Settled(ApplyUserAdd(rt, delta, o))
    BY <1>0, <1>6, ApplyUserAddGood DEF SyncUserDelta
  <2>2. Good(ApplyUserRemove(rt, delta, o), a) /\ Settled(ApplyUserRemove(rt, delta, o))
    BY <1>0, <1>6, ApplyUserRemoveGood DEF SyncUserDelta
  <2> QED BY <1>a, <1>6, <2>1, <2>2 DEF SyncUserDelta
<1>7. ASSUME NEW config \in Configs \cup {None}, NEW users \in PullUsers,
             PollDone(config, users)
      PROVE  IInv'
  <2>1. mainPC = "loop" /\ ~pull.arrived /\ ~a
    BY <1>0, <1>7 DEF PollDone
  <2>2. /\ pull' = [arrived |-> TRUE, config |-> config, users |-> users,
                    certChanged |-> rt.renewed]
        /\ rt' = [rt EXCEPT !.renewed = FALSE] /\ UNCHANGED mainPC
    BY <1>7 DEF PollDone
  <2>3. pull' \in Pulls /\ pull'.arrived /\ pull'.certChanged = rt.renewed
    BY <1>0, <2>2 DEF Pulls, States
  <2>4. /\ rt' \in States /\ rt'.kernel = rt.kernel /\ rt'.failed = rt.failed
        /\ rt'.error = rt.error /\ rt'.firewall = rt.firewall
        /\ rt'.applied = rt.applied /\ rt'.status = rt.status
        /\ rt'.config = rt.config /\ rt'.users = rt.users
        /\ rt'.clock = rt.clock /\ rt'.cert = rt.cert
    BY <1>0, <2>2 DEF States
  <2>5. Good(rt', rt.renewed) /\ Settled(rt')
    BY <1>0, <2>1, <2>4
    DEF Good, Startable, FailureStops, KernelMatches, FailureMatches, Settled
  <2> QED BY <2>1, <2>2, <2>3, <2>5 DEF IInv
<1>8. ASSUME NEW o \in Outcomes, ApplyPull(o)
      PROVE  IInv'
  <2>1. /\ Good(PullApplied(rt, pull, o), FALSE) /\ Settled(PullApplied(rt, pull, o))
        /\ rt' = PullApplied(rt, pull, o)
    BY <1>0, <1>8, PullAppliedGood DEF ApplyPull
  <2>2. pull' = NoPull /\ mainPC' = "loop"
    BY <1>8 DEF ApplyPull
  <2>3. pull' \in Pulls /\ pull'.certChanged = FALSE
    BY <2>2 DEF NoPull, Pulls, PullUsers
  <2> QED BY <2>1, <2>2, <2>3 DEF IInv
<1>9. ASSUME NEW o \in Outcomes, TrackTick(o)
      PROVE  IInv'
  <2>1. rt.config # None
    BY <1>0, <1>9 DEF Good, FailureMatches, TrackTick
  <2>2. Good(FailRuntime(rt, "died", o), a) /\ Settled(FailRuntime(rt, "died", o))
    BY <1>0, <2>1, FailRuntimeGood DEF Operations
  <2> QED BY <1>a, <1>9, <2>2 DEF TrackTick
<1>10. ASSUME NEW material \in Certs, RenewCert(material)
       PROVE  IInv'
  <2>1. rt' = Renew(rt, material) /\ mainPC' = "loop" /\ UNCHANGED pull
        /\ Settled(rt) /\ rt.cert # None
    BY <1>0, <1>10 DEF RenewCert
  <2>2. Renew(rt, material) = [rt EXCEPT !.cert = material, !.renewed = TRUE]
    BY <2>1, ConstantsAssumption DEF Renew
  <2> DEFINE r == Renew(rt, material)
  <2>3. /\ r \in States /\ r.kernel = rt.kernel /\ r.failed = rt.failed
        /\ r.error = rt.error /\ r.firewall = rt.firewall
        /\ r.applied = rt.applied /\ r.status = rt.status
        /\ r.config = rt.config /\ r.users = rt.users
        /\ r.clock = rt.clock /\ r.renewed
    BY <1>0, <2>2 DEF States
  <2> HIDE DEF r
  <2>4. Good(r, a) /\ Settled(r)
    BY <1>0, <2>1, <2>3
    DEF Good, Startable, FailureStops, KernelMatches, FailureMatches, Settled
  <2> QED BY <1>a, <2>1, <2>4 DEF r
<1>11. CASE Shutdown
  <2> DEFINE r == [StopKernel(rt) EXCEPT !.status = "stopped", !.clock = FALSE]
  <2>1. rt' = r /\ mainPC' = "stopped" /\ UNCHANGED pull
    BY <1>11 DEF Shutdown
  <2>2. /\ r \in States /\ r.kernel = NoSnapshot /\ r.failed = rt.failed
        /\ r.error = rt.error /\ r.firewall = None /\ r.applied = rt.applied
        /\ r.config = rt.config /\ r.users = rt.users
    BY <1>0, NoSnapshotTyped DEF StopKernel, States
  <2> HIDE DEF r
  <2>3. Good(r, a)
    BY <1>0, <2>2 DEF Good, Startable, FailureStops, KernelMatches, FailureMatches
  <2> QED BY <1>0, <2>1, <2>3 DEF IInv
<1>12. CASE PollFails \/ UNCHANGED vars
  BY <1>12 DEF PollFails, vars, IInv
<1> QED
  BY <1>1, <1>2, <1>3, <1>4, <1>5, <1>6, <1>7, <1>8, <1>9, <1>10, <1>11, <1>12
  DEF Next

\* The invariant behind every theorem below.
THEOREM Invariant == Spec => []IInv
BY InitIInv, NextIInv, PTL DEF Spec

\* Every variable keeps its type.
THEOREM TypeCorrect == Spec => []TypeOK
<1>1. IInv => TypeOK
  BY DEF IInv, TypeOK, Good, Startable
<1> QED BY <1>1, Invariant, PTL

\* A running kernel serves exactly the configuration and the users the panel
\* last asked for, through failures, fallbacks and deltas.
THEOREM ServesDesiredHolds == Spec => []ServesDesired
<1>1. IInv => ServesDesired
  BY DEF IInv, ServesDesired, Good, KernelMatches, Running
<1> QED BY <1>1, Invariant, PTL

\* The rules in force are those of the configuration that is served.
THEOREM RulesFollowKernelHolds == Spec => []RulesFollowKernel
<1>1. IInv => RulesFollowKernel
  BY DEF IInv, RulesFollowKernel, Good, KernelMatches, FailureMatches, Running
<1> QED BY <1>1, Invariant, PTL

\* A remembered failure is one of the current wish and nothing runs under it.
THEOREM FailuresHold == Spec => [](FailedIsStopped /\ FailureIsCurrent)
<1>1. IInv => FailedIsStopped /\ FailureIsCurrent
  BY DEF IInv, FailedIsStopped, FailureIsCurrent, Good, Startable, FailureStops,
         FailureMatches, Running
<1> QED BY <1>1, Invariant, PTL

\* No renewal of the certificate is forgotten on its way to the kernel.
THEOREM RenewalNotLostHolds == Spec => []RenewalNotLost
<1>1. IInv => RenewalNotLost
  BY DEF IInv, RenewalNotLost, Good, KernelMatches, Running
<1> QED BY <1>1, Invariant, PTL

\* The status the machine reports is the truth about the node.
THEOREM StatusTruthfulHolds == Spec => [](StatusTruthful /\ ClockHeld)
<1>1. IInv => StatusTruthful
  BY DEF IInv, StatusTruthful, Good, Startable, FailureStops, Settled, Running
<1>2. IInv => ClockHeld
  BY DEF IInv, ClockHeld, Good, KernelMatches, Running
<1> QED BY <1>1, <1>2, Invariant, PTL

-----------------------------------------------------------------------------
(* A failed snapshot is attempted once.                                    *)

LEMMA FailRuntimeWish ==
  ASSUME NEW r \in States, NEW o \in Outcomes, NEW operation
  PROVE  /\ FailRuntime(r, operation, o).config = r.config
         /\ FailRuntime(r, operation, o).users = r.users
<1>1. o.renewal \in Certs \cup {None}
  BY DEF Outcomes
<1>2. Renew(r, o.renewal) \in States
  BY <1>1, RenewTyped
<1> QED BY <1>1, <1>2, RenewTyped DEF FailRuntime, StopKernel, States

\* An attempt does not touch the wish.
LEMMA ApplyChangesWish ==
  ASSUME NEW r \in States, NEW o \in Outcomes
  PROVE  /\ ApplyChanges(r, o).config = r.config
         /\ ApplyChanges(r, o).users = r.users
<1> DEFINE p == Prepared(r, o)
<1>1. p \in States /\ p.config = r.config /\ p.users = r.users
  BY PreparedTyped
<1>2. /\ Idle(p).config = p.config /\ Idle(p).users = p.users
      /\ Serve(p).config = p.config /\ Serve(p).users = p.users
  BY <1>1 DEF Idle, Serve, RuntimeApplied, StopKernel, States
<1>3. \A op : /\ FailRuntime(p, op, o).config = p.config
              /\ FailRuntime(p, op, o).users = p.users
  BY <1>1, FailRuntimeWish
<1> HIDE DEF p
<1>4. CASE r.config = None \/ Blocked(r)
  BY <1>4 DEF ApplyChanges
<1>5. CASE ~(r.config = None \/ Blocked(r)) /\ PrepareFails(r, o)
  BY <1>1, <1>3, <1>5 DEF ApplyChanges, p
<1>6. CASE ~(r.config = None \/ Blocked(r)) /\ ~PrepareFails(r, o)
  BY <1>1, <1>2, <1>3, <1>6 DEF ApplyChanges, p
<1> QED BY <1>4, <1>5, <1>6

LEMMA BlockedStays ==
  ASSUME NEW r \in States, Blocked(r), NEW o
  PROVE  /\ ApplyChanges(r, o) = r
         /\ PrepareUserState(r, r.users) = r
         /\ [r EXCEPT !.config = r.config] = r
BY DEF ApplyChanges, PrepareUserState, States

\* A new set of users is the wish, or it is the old one and nothing happens.
LEMMA BlockedUpdate ==
  ASSUME NEW r \in States, Blocked(r), ~Running(r), NEW us \in UserSets,
         NEW o \in Outcomes, NEW s, s = ApplyChanges(PrepareUserState(r, us), o),
         s.users = r.users
  PROVE  s.failed = r.failed
<1> DEFINE p == PrepareUserState(r, us)
<1>1. p \in States /\ p.users = us
  BY DEF PrepareUserState, States
<1> HIDE DEF p
<1>2. s.users = us
  BY <1>1, ApplyChangesWish DEF p
<1>3. PrepareUserState(r, us) = r
  BY <1>2, BlockedStays
<1>4. s = r
  BY <1>3 DEF ApplyChanges
<1> QED BY <1>4

LEMMA NextNoRetry ==
  ASSUME IInv, Next, Blocked(rt), rt'.config = rt.config, rt'.users = rt.users
  PROVE  rt'.failed = rt.failed
<1>0. /\ rt \in States /\ ~Running(rt) /\ rt.applied = None
      /\ mainPC # "setup" /\ rt.users \in UserSets /\ pull \in Pulls
  BY DEF IInv, Good, Startable, FailureStops, Blocked, Running, States
<1>4. ASSUME NEW config \in Configs, NEW o \in Outcomes, SyncConfig(config, o)
      PROVE  rt'.failed = rt.failed
  <2> DEFINE p == [rt EXCEPT !.config = config]
  <2>1. p \in States /\ p.config = config
    BY <1>0 DEF States
  <2> HIDE DEF p
  <2>2. rt' = ApplyChanges(p, o) /\ config # rt.config
    BY <1>4 DEF SyncConfig, ApplyConfigUpdate, p
  <2> QED BY <2>1, <2>2, ApplyChangesWish
<1>5. ASSUME NEW users \in UserSets, NEW o \in Outcomes, SyncUsers(users, o)
      PROVE  rt'.failed = rt.failed
  <2>1. rt' = ApplyChanges(PrepareUserState(rt, users), o)
    BY <1>0, <1>5 DEF SyncUsers, ApplyUserUpdate
  <2> QED BY <1>0, <2>1, BlockedUpdate
<1>6. ASSUME NEW delta \in UserSets, NEW o \in Outcomes, SyncUserDelta(delta, o)
      PROVE  rt'.failed = rt.failed
  <2> DEFINE merged == MergeUsers(rt.users, delta)
             filtered == SubtractUsers(rt.users, delta)
  <2>1. merged \in UserSets /\ filtered \in UserSets
    BY <1>0, MergeTyped, SubtractTyped
  <2>2. ApplyUserAdd(rt, delta, o) = ApplyChanges(PrepareUserState(rt, merged), o)
    BY <1>0 DEF ApplyUserAdd, ApplyUserUpdate
  <2>3. ApplyUserRemove(rt, delta, o) = ApplyChanges(PrepareUserState(rt, filtered), o)
    BY <1>0 DEF ApplyUserRemove
  <2> QED BY <1>0, <1>6, <2>1, <2>2, <2>3, BlockedUpdate DEF SyncUserDelta
<1>8. ASSUME NEW o \in Outcomes, ApplyPull(o)
      PROVE  rt'.failed = rt.failed
  <2> DEFINE users == IF pull.users.known THEN pull.users.users ELSE rt.users
             config == IF pull.config # None THEN pull.config ELSE rt.config
             p == [PrepareUserState(rt, users) EXCEPT !.config = config]
  <2>1. rt' = PullApplied(rt, pull, o)
    BY <1>8 DEF ApplyPull
  <2>2. p.users = users /\ p.config = config
    BY <1>0 DEF PrepareUserState, States
  <2>3. CASE pull.config # None \/ pull.certChanged
    <3>1. rt' = ApplyChanges(p, o)
      BY <2>1, <2>3 DEF PullApplied
    <3>2. p \in States
      BY <1>0, PullWishTyped
    <3>3. rt'.users = users /\ rt'.config = config
      <4> HIDE DEF p, users, config
      <4> QED BY <2>2, <3>1, <3>2, ApplyChangesWish
    <3>4. p = rt
      BY <1>0, <3>3, BlockedStays
    <3>5. ApplyChanges(rt, o) = rt
      BY DEF ApplyChanges
    <3> HIDE DEF p
    <3> QED BY <3>1, <3>4, <3>5
  <2>4. CASE ~(pull.config # None \/ pull.certChanged) /\ users # rt.users
    <3>1. rt' = ApplyChanges(PrepareUserState(rt, users), o)
      BY <1>0, <2>1, <2>4 DEF PullApplied, ApplyUserUpdate
    <3>2. users \in UserSets
      BY <1>0, PullWishTyped
    <3> HIDE DEF users
    <3> QED BY <1>0, <3>1, <3>2, BlockedUpdate
  <2>5. CASE ~(pull.config # None \/ pull.certChanged) /\ users = rt.users
    BY <2>1, <2>5 DEF PullApplied
  <2> QED BY <2>3, <2>4, <2>5
<1>10. ASSUME NEW material \in Certs, RenewCert(material)
       PROVE  rt'.failed = rt.failed
  BY <1>0, <1>10 DEF RenewCert, Renew, States
<1>11. CASE \/ \E config \in Configs \cup {None}, users \in PullUsers :
                  PollDone(config, users)
            \/ PollFails \/ Shutdown
  BY <1>0, <1>11 DEF PollDone, PollFails, Shutdown, StopKernel, vars, States
<1>12. /\ \A config, users, o : ~InitialSetup(config, users, o)
       /\ ~SetupWithoutSnapshot /\ ~SetupFails /\ \A o : ~TrackTick(o)
  BY <1>0 DEF InitialSetup, SetupWithoutSnapshot, SetupFails, TrackTick
<1> QED BY <1>4, <1>5, <1>6, <1>8, <1>10, <1>11, <1>12 DEF Next

\* A failed snapshot is not attempted again until something about it changes.
THEOREM NoRetryOfFailedHolds == Spec => NoRetryOfFailed
<1> DEFINE Kept == /\ rt.failed # NoSnapshot /\ rt.failed = Desired(rt)
                   /\ rt'.config = rt.config /\ rt'.users = rt.users
                   => rt'.failed = rt.failed
<1>1. IInv /\ [Next]_vars => [Kept]_vars
  BY NextNoRetry DEF Blocked
<1> QED BY <1>1, Invariant, PTL DEF Spec, NoRetryOfFailed
=============================================================================
