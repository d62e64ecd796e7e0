---- MODULE Lifecycles ----
(* The parts that live and die with a configuration: the xray kernel, the firewall manager and the   *)
(* process. They share no state: every behaviour is one of one part, chosen at the start, and the     *)
(* variables of the others are off. The fairness is that of each part.                                *)
EXTENDS Firewall, XrayKernel, Process

VARIABLE part

KernelOff ==
  /\ inst = "off" /\ created = "off" /\ instance = "off" /\ retired = "off" /\ running = "off" /\ users = "off"
  /\ hash = "off" /\ cum = "off" /\ carried = "off" /\ late = "off" /\ op = "off" /\ wish = "off" /\ requests = "off"
FirewallOff ==
  /\ plans = "off" /\ lastErr = "off" /\ owned = "off" /\ redirect = "off" /\ disk = "off" /\ job = "off" /\ step = "off"
  /\ seen = "off" /\ todo = "off" /\ current = "off" /\ backend = "off" /\ active = "off" /\ host = "off" /\ table = "off"
  /\ pending = "off" /\ acked = "off" /\ budget = "off"
ProcessOff ==
  /\ file = "off" /\ phase = "off" /\ root = "off" /\ generation = "off" /\ cancelled = "off" /\ watch = "off"
  /\ timer = "off" /\ reloadCh = "off" /\ newRoot = "off" /\ services = "off" /\ shared = "off" /\ health = "off"
  /\ listening = "off" /\ errCh = "off" /\ sigCh = "off" /\ exit = "off" /\ procBudget = "off"
lifecyclesVars == <<part, kvars, vars, procVars>>

LifecyclesInit ==
  \/ part = "kernel" /\ KernelInit /\ FirewallOff /\ ProcessOff
  \/ part = "firewall" /\ Init /\ KernelOff /\ ProcessOff
  \/ part = "process" /\ ProcInit /\ KernelOff /\ FirewallOff
LifecyclesNext ==
  \/ part = "kernel" /\ KernelNext /\ UNCHANGED <<part, vars, procVars>>
  \/ part = "firewall" /\ Next /\ UNCHANGED <<part, kvars, procVars>>
  \/ part = "process" /\ ProcNext /\ UNCHANGED <<part, kvars, vars>>
\* The goroutines of a part go on; which of them is up to the scheduler. The grace period of a shutdown
\* ends, and services end once they are cancelled.
LifecyclesFairness ==
  /\ WF_kvars(part = "kernel" /\ (Serve \/ \E i \in Ids : Recycle(i)))
  /\ WF_vars(part = "firewall" /\ (Boot \/ Tick \/ Reconcile))
  /\ WF_procVars(part = "process" /\ (ProcSteps \/ WaitForShutdown \/ \E s \in services : cancelled /\ End(s)))
LifecyclesSpec == LifecyclesInit /\ [][LifecyclesNext]_lifecyclesVars /\ LifecyclesFairness

\* The types of every part.
LifecyclesTypeOK ==
  /\ part = "kernel" => KernelTypeOK
  /\ part = "firewall" => TypeOK
  /\ part = "process" => ProcTypeOK
\* xray.go, lifecycle.go: a byte is settled once, and an idle service's kernel serves what was asked for.
KernelSettles == part = "kernel" => SettledOnce /\ ServesWish
\* system.go, state.go: the ports of other nodes stay open during a call, and what this program put into
\* the host's firewall is on disk.
RulesHold == part = "firewall" => AckedStayServed /\ Recorded
\* main.go, health.go: two generations never run together, and /healthz is about the services that run.
GenerationSound == part = "process" => OneGeneration /\ HealthIsCurrent
\* In the end retired instances are settled and forgotten, the firewall is in sync, and a signal has
\* ended the process.
Progress ==
  <>[] CASE part = "kernel" -> Settled [] part = "firewall" -> Converged [] part = "process" -> SignalHandled
====
