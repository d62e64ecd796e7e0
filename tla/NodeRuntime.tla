----------------------------- MODULE NodeRuntime -----------------------------
(***************************************************************************)
(* How one node service turns what the panel wants into a running kernel:  *)
(* configuration, users and certificate material, the failure fingerprint, *)
(* the firewall plan and the reported status                               *)
(* (internal/service/service.go, runtime_failure.go, firewall.go).         *)
(*                                                                         *)
(* Every handler runs on the main goroutine, so a handler is one step.  A  *)
(* handler is written as an operator from the service's state, a record,   *)
(* to the state it leaves.  The outcome o says what the environment answers *)
(* to the calls the handler makes.                                         *)
(***************************************************************************)

CONSTANTS
  Configs,          \* configurations the panel may send
  Users,            \* user identities, records [id, uuid]
  Certs,            \* certificate material
  None,             \* the nil pointer
  Landing,          \* landing nodes: they run without panel users
  RemoteCert,       \* configurations that carry a cert_config
  NeedsCert,        \* they need certificate material and do not bring it
  Invalid,          \* ValidateNodeSpec refuses them
  UsesClock,        \* SS2022: the corrected clock is needed
  StopsWhenEmpty    \* TRUE for xray: removing the last user stops the kernel

UserSets == {us \in SUBSET Users : \A u, v \in us : u.id = v.id => u = v}

Snapshots == [config : Configs \cup {None}, users : UserSets,
              cert : Certs \cup {None}]

\* No kernel is running; no attempt has failed.
NoSnapshot == [config |-> None, users |-> {}, cert |-> None]

ASSUME ConstantsAssumption ==
  /\ None \notin Configs /\ None \notin Certs
  /\ Landing \subseteq Configs /\ RemoteCert \subseteq Configs
  /\ NeedsCert \subseteq Configs /\ Invalid \subseteq Configs
  /\ UsesClock \subseteq Configs
  /\ StopsWhenEmpty \in BOOLEAN
  /\ \A u, v \in Users : u.id = v.id /\ u.uuid = v.uuid => u = v

VARIABLES
  rt,      \* the service's state, see States
  pull,    \* the REST result in pullResults, NoPull when there is none
  mainPC   \* "setup", "loop", "stopped"

vars == <<rt, pull, mainPC>>

\* What failRuntime names as the operation that failed.
Operations == {"prepare", "kernel", "firewall", "died"}

States ==
  [config : Configs \cup {None},  \* lastConfig
   users : UserSets,              \* lastUsers
   kernel : Snapshots,            \* what the kernel serves
   failed : Snapshots,            \* failedRuntimeHash
   error : Operations \cup {"none"}, \* runtimeError: the operation that failed
   applied : Configs \cup {None}, \* appliedState.Config
   firewall : Configs \cup {None},\* the plan the firewall manager holds
   clock : BOOLEAN,               \* timesync.SetUsage
   status : {"starting", "running", "failed", "stopped"},
   cert : Certs \cup {None},      \* cert.Manager.mat
   renewed : BOOLEAN,             \* cert.Manager.renewed
   failedWith : Certs \cup {None}]\* history: the material that failed

\* What the calls of a handler return.  material: what a Reconfigure leaves in
\* the certificate manager; fails: the call that returns an error, "hot" being
\* an AddUsers or RemoveUsers whose fallback works; renewal: the material the
\* ACME goroutine stores after the call that fails used the old one (at any other
\* moment the renewal is as good as a step of its own).
Outcomes == {o \in [material : Certs \cup {None},
                     fails : {"none", "cert", "kernel", "hot", "firewall"},
                     renewal : Certs \cup {None}] :
               o.fails \in {"none", "hot"} => o.renewal = None}

NoUsers == [users |-> {}, known |-> FALSE]
PullUsers == {NoUsers} \cup [users : UserSets, known : {TRUE}]
NoPull == [arrived |-> FALSE, config |-> None, users |-> NoUsers,
           certChanged |-> FALSE]
Pulls == [arrived : BOOLEAN, config : Configs \cup {None}, users : PullUsers,
          certChanged : BOOLEAN]

Running(r) == r.kernel # NoSnapshot

Init ==
  /\ rt = [config |-> None, users |-> {}, kernel |-> NoSnapshot,
           failed |-> NoSnapshot, error |-> "none", applied |-> None,
           firewall |-> None, clock |-> FALSE, status |-> "starting", cert |-> None,
           renewed |-> FALSE, failedWith |-> None]
  /\ pull = NoPull
  /\ mainPC = "setup"

-----------------------------------------------------------------------------
(* Failure and success of an attempt.                                      *)

\* The kernel closes its listeners; then the firewall plan is released.
StopKernel(r) == [r EXCEPT !.kernel = NoSnapshot, !.firewall = None]

\* The renewal goroutine stores fresh material; only ACME material is renewed.
Renew(r, material) ==
  IF material = None \/ r.cert = None THEN r
  ELSE [r EXCEPT !.cert = material, !.renewed = TRUE]

Desired(r) == [config |-> r.config, users |-> r.users, cert |-> r.cert]

\* failRuntime: the fingerprint is taken of the material held by now.
FailRuntime(r, operation, o) ==
  LET m == StopKernel(Renew(r, o.renewal)) IN
  [m EXCEPT !.failed = Desired(m), !.error = operation, !.applied = None,
            !.clock = FALSE, !.status = "failed", !.failedWith = r.cert]

\* runtimeApplied.
RuntimeApplied(r, config) ==
  [r EXCEPT !.failed = NoSnapshot, !.error = "none", !.applied = config,
            !.status = "running", !.failedWith = None]

\* Mutant: every call is a new attempt.
NeverBlocked(r) == FALSE

\* runtimeAttemptBlocked.
Blocked(r) == r.failed # NoSnapshot /\ r.failed = Desired(r)

-----------------------------------------------------------------------------
(* prepareRuntime and applyChanges.                                        *)

\* validateNodeRuntime.
Valid(config, material) ==
  config \notin Invalid /\ (config \in NeedsCert => material # None)

\* The material after cert.Reconfigure: an error leaves the old one, or none
\* when the ACME instance was torn down first.
Material(r, o) ==
  IF o.fails = "cert" /\ o.material # None THEN r.cert ELSE o.material

\* The panel's cert_config is applied after validation, the local one before.
Reconfigured(r, o) ==
  IF r.config \in RemoteCert /\ ~Valid(r.config, r.cert)
    THEN r ELSE [r EXCEPT !.cert = Material(r, o)]

PrepareFails(r, o) ==
  \/ o.fails = "cert"
  \/ ~Valid(r.config, IF r.config \in RemoteCert THEN r.cert ELSE Material(r, o))

Prepared(r, o) ==
  [Reconfigured(r, o) EXCEPT
     !.clock = IF PrepareFails(r, o) THEN @ ELSE r.config \in UsesClock]

Idle(r) == RuntimeApplied(StopKernel(r), None)

\* Mutant: the reload leaves the rules of the previous configuration.
ServeOldRules(r) ==
  RuntimeApplied([r EXCEPT !.kernel = Desired(r),
                           !.firewall = IF @ = None THEN r.config ELSE @],
                 r.config)

\* Mutant: Reload compares configuration and users, not the material.
ServeOldMaterial(r) ==
  RuntimeApplied(
    [r EXCEPT !.kernel = [Desired(r) EXCEPT
                            !.cert = IF Running(r) THEN r.kernel.cert ELSE @],
              !.firewall = r.config], r.config)

\* kernel.Start or kernel.Reload, then firewall.Apply.
Serve(r) ==
  RuntimeApplied([r EXCEPT !.kernel = Desired(r), !.firewall = r.config],
                 r.config)

\* applyChanges(true, _); it returns TRUE when no attempt is failed after it.
ApplyChanges(r, o) ==
  IF r.config = None \/ Blocked(r) THEN r
  ELSE LET p == Prepared(r, o) IN
    CASE PrepareFails(r, o) -> FailRuntime(p, "prepare", o)
      [] ~PrepareFails(r, o) /\ p.users = {} /\ p.config \notin Landing -> Idle(p)
      [] ~PrepareFails(r, o) /\ (p.users # {} \/ p.config \in Landing) ->
           IF o.fails \in {"kernel", "firewall"} THEN FailRuntime(p, o.fails, o)
           ELSE Serve(p)

\* applyConfigUpdate: the newest wish is kept whether it can be applied or not.
ApplyConfigUpdate(r, config, o) == ApplyChanges([r EXCEPT !.config = config], o)

-----------------------------------------------------------------------------
(* User updates.                                                           *)

\* prepareUserState.
PrepareUserState(r, users) == [r EXCEPT !.users = users]

ById(users, delta) == {u \in users : \E d \in delta : d.id = u.id}

\* Mutant: a changed credential is taken for a new user.
NeverUUIDChange(base, delta) == FALSE

HasUUIDChange(base, delta) ==
  \E u \in base, d \in delta : u.id = d.id /\ u.uuid # d.uuid

\* Mutant: the delta does not replace users of the same ID.
MergeUsersAppending(base, delta) == base \cup delta

MergeUsers(base, delta) == (base \ ById(base, delta)) \cup delta

SubtractUsers(base, delta) == base \ ById(base, delta)

\* The kernel's own user operations.
KernelUpdateUsers(r, users) == [r EXCEPT !.kernel.users = users]

KernelAddUsers(r, delta) ==
  KernelUpdateUsers(r, r.kernel.users \cup (delta \ ById(delta, r.kernel.users)))

\* xray stops itself, behind the service's back, when nobody is left.
KernelRemoveUsers(r, delta) ==
  LET kept == SubtractUsers(r.kernel.users, delta) IN
  IF /\ StopsWhenEmpty
     /\ kept = {} /\ r.kernel.users # {}
     /\ r.kernel.config \notin Landing
  THEN [r EXCEPT !.kernel = NoSnapshot]
  ELSE KernelUpdateUsers(r, kept)

\* applyUserUpdate, with ensureRunning.
ApplyUserUpdate(r, users, o) ==
  LET p == PrepareUserState(r, users) IN
  CASE ~Running(r) -> ApplyChanges(p, o)
    [] Running(r) /\ o.fails = "kernel" -> FailRuntime(p, "kernel", o)
    [] Running(r) /\ o.fails # "kernel" -> KernelUpdateUsers(p, users)

\* applyUserDelta "add"; a hot update that fails is retried as a full one.
ApplyUserAdd(r, delta, o) ==
  LET merged == MergeUsers(r.users, delta)
      p == PrepareUserState(r, merged)
  IN
  CASE HasUUIDChange(r.users, delta) -> ApplyUserUpdate(r, merged, o)
    [] ~HasUUIDChange(r.users, delta) /\ ~Running(r) -> ApplyChanges(p, o)
    [] ~HasUUIDChange(r.users, delta) /\ Running(r) ->
         CASE o.fails = "kernel" -> FailRuntime(p, "kernel", o)
           [] o.fails = "hot" -> KernelUpdateUsers(p, merged)
           [] o.fails \notin {"kernel", "hot"} -> KernelAddUsers(p, delta)

\* applyUserDelta "remove"; the remaining users get a chance to start.
ApplyUserRemove(r, delta, o) ==
  LET filtered == SubtractUsers(r.users, delta)
      p == PrepareUserState(r, filtered)
  IN
  CASE ~Running(r) -> ApplyChanges(p, o)
    [] Running(r) /\ o.fails = "kernel" -> FailRuntime(p, "kernel", o)
    [] Running(r) /\ o.fails = "hot" -> KernelUpdateUsers(p, filtered)
    [] Running(r) /\ o.fails \notin {"kernel", "hot"} -> KernelRemoveUsers(p, delta)

-----------------------------------------------------------------------------
(* The main goroutine.                                                     *)

\* initialSetup and the status Run reports before it enters the loop.
InitialSetup(config, users, o) ==
  /\ mainPC = "setup"
  /\ LET r == ApplyChanges([rt EXCEPT !.config = config, !.users = users], o) IN
     rt' = IF r.failed = NoSnapshot THEN [r EXCEPT !.status = "running"] ELSE r
  /\ mainPC' = "loop"
  /\ UNCHANGED pull

\* A machine-mode node may start before its first snapshot arrives.
SetupWithoutSnapshot ==
  /\ mainPC = "setup"
  /\ rt' = [rt EXCEPT !.status = "running"]
  /\ mainPC' = "loop"
  /\ UNCHANGED pull

SetupFails ==
  /\ mainPC = "setup"
  /\ rt' = [StopKernel(rt) EXCEPT !.status = "failed", !.clock = FALSE]
  /\ mainPC' = "stopped"
  /\ UNCHANGED pull

\* handleWSEvent: a snapshot equal to the current wish is ignored.
SyncConfig(config, o) ==
  /\ mainPC = "loop"
  /\ config # rt.config
  /\ rt' = ApplyConfigUpdate(rt, config, o)
  /\ UNCHANGED <<pull, mainPC>>

SyncUsers(users, o) ==
  /\ mainPC = "loop"
  /\ users # rt.users
  /\ rt' = ApplyUserUpdate(rt, users, o)
  /\ UNCHANGED <<pull, mainPC>>

SyncUserDelta(delta, o) ==
  /\ mainPC = "loop"
  /\ delta # {}
  /\ \/ rt' = ApplyUserAdd(rt, delta, o)
     \/ rt' = ApplyUserRemove(rt, delta, o)
  /\ UNCHANGED <<pull, mainPC>>

\* The poll goroutine: only a request that succeeded takes the renewal flag.
\* A configuration equal to the one the request started from is left out, and
\* a 304 has neither.  A result waits until the previous one is applied.
PollDone(config, users) ==
  /\ mainPC = "loop"
  /\ ~pull.arrived
  /\ pull' = [arrived |-> TRUE, config |-> config, users |-> users,
              certChanged |-> rt.renewed]
  /\ rt' = [rt EXCEPT !.renewed = FALSE]
  /\ UNCHANGED mainPC

\* Mutant: the flag is taken before the request, which then fails.
PollFailsTakingFlag ==
  /\ mainPC = "loop"
  /\ ~pull.arrived
  /\ rt' = [rt EXCEPT !.renewed = FALSE]
  /\ UNCHANGED <<pull, mainPC>>

PollFails ==
  /\ mainPC = "loop"
  /\ ~pull.arrived
  /\ UNCHANGED vars

\* applyPullResult.
PullApplied(r, result, o) ==
  LET users == IF result.users.known THEN result.users.users ELSE r.users
      config == IF result.config # None THEN result.config ELSE r.config
      p == [PrepareUserState(r, users) EXCEPT !.config = config]
  IN
  CASE result.config # None \/ result.certChanged -> ApplyChanges(p, o)
    [] result.config = None /\ ~result.certChanged /\ users # r.users ->
         ApplyUserUpdate(r, users, o)
    [] result.config = None /\ ~result.certChanged /\ users = r.users -> r

ApplyPull(o) ==
  /\ mainPC = "loop"
  /\ pull.arrived
  /\ rt' = PullApplied(rt, pull, o)
  /\ pull' = NoPull
  /\ UNCHANGED mainPC

\* trackAndEnforce; its sampling belongs to TrafficReport.
TrackTick(o) ==
  /\ mainPC = "loop"
  /\ rt.applied # None /\ ~Running(rt)
  /\ rt' = FailRuntime(rt, "died", o)
  /\ UNCHANGED <<pull, mainPC>>

\* The ACME goroutine renews the certificate.
RenewCert(material) ==
  /\ mainPC = "loop"
  /\ rt.cert # None /\ material # rt.cert
  /\ rt' = Renew(rt, material)
  /\ UNCHANGED <<pull, mainPC>>

Shutdown ==
  /\ mainPC = "loop"
  /\ rt' = [StopKernel(rt) EXCEPT !.status = "stopped", !.clock = FALSE]
  /\ mainPC' = "stopped"
  /\ UNCHANGED pull

Next ==
  \/ \E config \in Configs, users \in UserSets, o \in Outcomes :
        InitialSetup(config, users, o)
  \/ SetupWithoutSnapshot
  \/ SetupFails
  \/ \E config \in Configs, o \in Outcomes : SyncConfig(config, o)
  \/ \E users \in UserSets, o \in Outcomes : SyncUsers(users, o)
  \/ \E delta \in UserSets, o \in Outcomes : SyncUserDelta(delta, o)
  \/ \E config \in Configs \cup {None}, users \in PullUsers :
        PollDone(config, users)
  \/ PollFails
  \/ \E o \in Outcomes : ApplyPull(o) \/ TrackTick(o)
  \/ \E material \in Certs : RenewCert(material)
  \/ Shutdown

Spec == Init /\ [][Next]_vars

\* Polls end, one way or the other, and now and then one succeeds; results are
\* consumed by the main loop.
LiveSpec ==
  /\ Spec
  /\ WF_vars(\E config \in Configs \cup {None}, users \in PullUsers :
               PollDone(config, users))
  /\ WF_vars(\E o \in Outcomes : ApplyPull(o))

-----------------------------------------------------------------------------
(* Properties.                                                             *)

TypeOK ==
  /\ rt \in States
  /\ pull \in Pulls
  /\ mainPC \in {"setup", "loop", "stopped"}

\* A running kernel serves exactly what the panel last asked for: never an
\* older configuration, never a user too many or too few.
ServesDesired ==
  Running(rt) => rt.kernel.config = rt.config /\ rt.kernel.users = rt.users

\* A running kernel's ports are open under the rules of its configuration, and
\* rules are held only for a configuration that was applied.
RulesFollowKernel ==
  /\ Running(rt) => rt.firewall = rt.kernel.config
  /\ rt.firewall # None => rt.firewall = rt.applied

\* failRuntime: after a failure nothing serves and no rule is left.
FailedIsStopped ==
  rt.failed # NoSnapshot =>
    ~Running(rt) /\ rt.firewall = None /\ rt.applied = None

\* The failure a node remembers is the failure of what the panel asks for now,
\* not of something it asked for earlier.
FailureIsCurrent ==
  rt.failed # NoSnapshot =>
    rt.failed.config = rt.config /\ rt.failed.users = rt.users

\* Material the kernel does not serve yet is announced by the renewal flag or
\* by a result on its way to the main goroutine.
RenewalNotLost ==
  Running(rt) => rt.kernel.cert = rt.cert \/ rt.renewed \/ pull.certChanged

\* The status the machine reports: failed exactly while a failure is
\* remembered, and running only for a node that serves or has nobody to serve.
StatusTruthful ==
  mainPC = "loop" =>
    /\ rt.status = IF rt.error = "none" THEN "running" ELSE "failed"
    /\ rt.error = "none" <=> rt.failed = NoSnapshot
    /\ rt.failed = NoSnapshot /\ rt.config # None =>
         Running(rt) \/ (rt.users = {} /\ rt.config \notin Landing)

\* SS2022 needs the corrected clock for as long as it is served.
ClockHeld ==
  Running(rt) /\ rt.kernel.config \in UsesClock => rt.clock

\* A failed snapshot gets no second attempt: it stays failed until the
\* configuration, the users or the certificate material differ.
NoRetryOfFailed ==
  [][rt.failed # NoSnapshot /\ rt.failed = Desired(rt)
       /\ rt'.config = rt.config /\ rt'.users = rt.users
     => rt'.failed = rt.failed]_vars

\* Renewed material reaches the kernel, unless there is none to serve it.
RenewalReachesKernel ==
  rt.renewed ~> (mainPC = "stopped" \/ ~Running(rt) \/ rt.kernel.cert = rt.cert)

\* "Only a change of configuration, users or certificate material gives a new
\* attempt": material is refused as already failed only if it did fail.
RefusedHasFailed == Blocked(rt) => rt.failedWith = rt.cert

=============================================================================
