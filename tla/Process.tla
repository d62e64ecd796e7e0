---- MODULE Process ----
(* The xboard-node process (cmd/xboard-node/main.go, health.go, config/watcher.go): one generation  *)
(* of services per configuration, a watcher that restarts them when the file changes, the shared   *)
(* firewall manager and health table, and the signals that end it all. The file, its editor, the   *)
(* signals and what the services do (service, machine) are external.                               *)
EXTENDS Naturals, FiniteSets

CONSTANTS Contents,      \* what the configuration file may hold
          MaxEdits, MaxSignals, MaxFailures
ASSUME ProcConstants == {MaxEdits, MaxSignals, MaxFailures} \subseteq Nat

Nothing == [parses |-> FALSE, normal |-> FALSE, layout |-> FALSE, parts |-> {}, port |-> 0, id |-> 0]

VARIABLES file,        \* the configuration file
          phase,       \* where runWithReload is
          root,        \* the configuration of the generation
          generation,  \* its number
          cancelled,   \* its context
          watch,       \* its watcher's goroutine, and stopped
          timer,       \* the debounce timers and reloads under way: the generation, and what was read
          reloadCh,    \* the one place of its reload channel
          newRoot,     \* the configuration to restart with
          services,    \* the goroutines of the services, each with the status it last reported
          shared,      \* the generations whose firewall and clock managers are open
          health,      \* healthTracker.components
          listening,   \* the port of the health server
          errCh,       \* an error was reported
          sigCh,       \* the signals that have arrived
          exit,        \* how the process ended
          procBudget
procVars == <<file, phase, root, generation, cancelled, watch, timer, reloadCh, newRoot, services, shared, health,
              listening, errCh, sigCh, exit, procBudget>>

Parts == UNION {c.parts : c \in Contents}
Off == [on |-> FALSE, stopped |-> FALSE]
ProcInit ==
  /\ file \in Contents /\ phase = "main" /\ root = Nothing /\ generation = 0 /\ cancelled = FALSE
  /\ watch = Off /\ timer = {} /\ reloadCh = Nothing /\ newRoot = Nothing /\ services = {} /\ shared = {}
  /\ health = <<>> /\ listening = 0 /\ errCh = FALSE /\ sigCh = 0 /\ exit = "no"
  /\ procBudget = [edits |-> MaxEdits, signals |-> MaxSignals, failures |-> MaxFailures]
Use(what) == procBudget[what] > 0 /\ procBudget' = [procBudget EXCEPT ![what] = @ - 1]
Alive == exit = "no"
Exit(how) == exit' = how /\ services' = {} /\ shared' = {} /\ watch' = Off /\ timer' = {}
WatchSame == UNCHANGED <<file, watch, timer>>
ServicesSame == UNCHANGED <<services, shared, health>>

\* main: LoadRoot, NormalizeInstances, then the health server of the first configuration.
Main ==
  /\ Alive /\ phase = "main"
  /\ \/ /\ file.parses /\ file.normal /\ UNCHANGED <<exit, services, shared, watch, timer>>
        /\ root' = file /\ phase' = "watch" /\ generation' = 1 /\ listening' = file.port
     \/ /\ ~(file.parses /\ file.normal) /\ Exit("error")
        /\ UNCHANGED <<root, phase, generation, listening>>
  /\ UNCHANGED <<file, cancelled, reloadCh, newRoot, health, errCh, sigCh, procBudget>>

\* The head of runWithReload's loop: a context, a reload channel and a watcher, then the shared managers.
WatchConfigRoot ==
  /\ Alive /\ phase = "watch" /\ phase' = "setup" /\ cancelled' = FALSE /\ reloadCh' = Nothing /\ errCh' = FALSE
  /\ \/ watch' = [on |-> TRUE, stopped |-> FALSE] /\ UNCHANGED procBudget
     \/ Use("failures") /\ watch' = Off
  /\ UNCHANGED <<file, root, generation, timer, newRoot, listening, sigCh, exit>> /\ ServicesSame
OpenShared ==
  /\ Alive /\ phase = "setup"
  /\ \/ /\ ~root.layout /\ Exit("error") /\ UNCHANGED <<phase, procBudget, listening, health>>
     \/ /\ root.layout /\ Use("failures") /\ Exit("error") /\ UNCHANGED <<phase, listening, health>>
     \/ /\ root.layout /\ UNCHANGED <<exit, watch, timer, procBudget, services>>
        /\ shared' = shared \cup {generation} /\ listening' = root.port
        /\ health' = [p \in root.parts |-> "starting"]
        /\ phase' = "spawn"
  /\ UNCHANGED <<file, root, generation, cancelled, reloadCh, newRoot, errCh, sigCh>>
\* One goroutine for each machine instance and each node; the sleep between nodes may be cut short.
Spawn ==
  /\ Alive /\ phase = "spawn" /\ phase' = "select"
  /\ services' = services \cup [gen : {generation}, part : root.parts, status : {"starting"}]
  /\ UNCHANGED <<root, generation, cancelled, reloadCh, newRoot, shared, health, listening, errCh, sigCh, exit, procBudget>>
  /\ WatchSame

\* A service reports its status to the health table while it runs; it ends with the context or an error.
Report(s, status) ==
  /\ Alive /\ s \in services /\ s.status # status
  /\ services' = (services \ {s}) \cup {[s EXCEPT !.status = status]}
  /\ health' = [p \in DOMAIN health \cup {s.part} |-> IF p = s.part THEN status ELSE health[p]]
  /\ IF status = "failed" THEN Use("failures") ELSE UNCHANGED procBudget
  /\ UNCHANGED <<phase, root, generation, cancelled, reloadCh, newRoot, shared, listening, errCh, sigCh, exit>>
  /\ WatchSame
End(s) ==
  /\ Alive /\ s \in services /\ services' = services \ {s}
  /\ \/ (cancelled \/ s.gen # generation) /\ UNCHANGED errCh
     \/ s.status = "failed" /\ errCh' = TRUE
  /\ UNCHANGED <<phase, root, generation, cancelled, reloadCh, newRoot, shared, health, listening, sigCh, exit, procBudget>>
  /\ WatchSame
NoneRuns == ~ \E s \in services : s.gen = generation

\* The watcher: an event of the file starts or restarts the debounce timer; the timer's function reads
\* the file, and what it read goes to the channel of its generation when that has room.
Edit(c) ==
  /\ Alive /\ c # file /\ Use("edits") /\ file' = c
  /\ timer' = IF watch.on THEN timer \cup {[gen |-> generation, at |-> "armed", read |-> Nothing]} ELSE timer
  /\ UNCHANGED <<phase, root, generation, cancelled, watch, reloadCh, newRoot, listening, errCh, sigCh, exit>> /\ ServicesSame
EndLoop ==
  /\ Alive /\ watch.on /\ (cancelled \/ watch.stopped) /\ watch' = [watch EXCEPT !.on = FALSE]
  /\ timer' = {t \in timer : t.at # "armed"}
  /\ UNCHANGED <<file, phase, root, generation, cancelled, reloadCh, newRoot, listening, errCh, sigCh, exit, procBudget>>
  /\ ServicesSame
ReloadFile(t) ==
  /\ Alive /\ t \in timer /\ t.at = "armed"
  /\ timer' = (timer \ {t}) \cup (IF ~(watch.stopped /\ t.gen = generation) /\ file.parses
                                  THEN {[t EXCEPT !.at = "read", !.read = file]} ELSE {})
  /\ UNCHANGED <<file, phase, root, generation, cancelled, watch, reloadCh, newRoot, listening, errCh, sigCh, exit, procBudget>>
  /\ ServicesSame
OnChangeRoot(t) ==
  /\ Alive /\ t \in timer /\ t.at = "read" /\ timer' = timer \ {t}
  /\ reloadCh' = IF t.gen = generation /\ reloadCh = Nothing THEN t.read ELSE reloadCh
  /\ UNCHANGED <<file, phase, root, generation, cancelled, watch, newRoot, listening, errCh, sigCh, exit, procBudget>>
  /\ ServicesSame

NotifySignal ==
  /\ Alive /\ phase # "main" /\ sigCh < 2 /\ Use("signals") /\ sigCh' = sigCh + 1
  /\ UNCHANGED <<phase, root, generation, cancelled, reloadCh, newRoot, listening, errCh, exit>> /\ WatchSame /\ ServicesSame
To(next) == phase' = next /\ UNCHANGED <<root, generation, reloadCh, listening, errCh, exit, procBudget>> /\ WatchSame /\ ServicesSame
TakeReload ==
  /\ Alive /\ phase = "select" /\ reloadCh # Nothing /\ newRoot' = reloadCh /\ cancelled' = TRUE
  /\ phase' = "reload" /\ reloadCh' = Nothing
  /\ UNCHANGED <<root, generation, listening, errCh, sigCh, exit, procBudget>> /\ WatchSame /\ ServicesSame
TakeSignal ==
  /\ Alive /\ phase \in {"select", "reload"} /\ sigCh > 0 /\ sigCh' = sigCh - 1 /\ cancelled' = TRUE
  /\ To("shutdown") /\ UNCHANGED newRoot
\* Mutant: the services are not waited for.
GoOn ==
  /\ Alive /\ phase = "reload" /\ cancelled' = TRUE
  /\ To("close") /\ UNCHANGED <<newRoot, sigCh>>
AllDone ==
  /\ Alive /\ phase \in {"select", "reload"} /\ NoneRuns /\ cancelled' = TRUE
  /\ To("close") /\ UNCHANGED <<newRoot, sigCh>>
\* waitForShutdown and forceExitIfNeeded: the services end, or a second signal or the grace period.
WaitForShutdown ==
  /\ Alive /\ phase = "shutdown"
  /\ \/ NoneRuns /\ Exit("clean") /\ UNCHANGED sigCh
     \/ sigCh > 0 /\ sigCh' = sigCh - 1 /\ Exit("forced")
     \/ ~NoneRuns /\ Exit("timeout") /\ UNCHANGED sigCh
  /\ UNCHANGED <<file, phase, root, generation, cancelled, reloadCh, newRoot, health, listening, errCh, procBudget>>
\* The watcher and the shared managers stop; without a new configuration the process ends.
CloseShared ==
  /\ Alive /\ phase = "close"
  /\ \/ /\ newRoot # Nothing /\ newRoot.normal
        /\ watch' = [watch EXCEPT !.stopped = TRUE] /\ shared' = shared \ {generation}
        /\ root' = newRoot /\ newRoot' = Nothing /\ generation' = generation + 1 /\ phase' = "watch"
        /\ UNCHANGED <<exit, services, timer>>
     \/ /\ newRoot # Nothing /\ ~newRoot.normal /\ Exit("error") /\ UNCHANGED <<root, newRoot, generation, phase>>
     \/ /\ newRoot = Nothing /\ Exit(IF errCh THEN "error" ELSE "clean") /\ UNCHANGED <<root, newRoot, generation, phase>>
  /\ UNCHANGED <<file, cancelled, reloadCh, health, listening, errCh, sigCh, procBudget>>

Services(status) == \E s \in services : Report(s, status)
ProcSteps ==
  \/ Main \/ WatchConfigRoot \/ OpenShared \/ Spawn \/ TakeReload \/ TakeSignal \/ AllDone \/ CloseShared
  \/ EndLoop \/ (\E t \in timer : ReloadFile(t)) \/ (\E t \in timer : OnChangeRoot(t))
ProcNext ==
  \/ ProcSteps \/ WaitForShutdown \/ Services("running") \/ Services("failed") \/ (\E s \in services : End(s))
  \/ (\E c \in Contents : Edit(c)) \/ NotifySignal
\* The goroutines of the process go on; the grace period ends; services end once they are cancelled.
ProcFairness ==
  /\ WF_procVars(ProcSteps) /\ WF_procVars(WaitForShutdown)
  /\ WF_procVars(\E s \in services : cancelled /\ End(s))

\* snapshot: what /healthz answers, given the clock's part.
HealthStatus(clockBad) ==
  IF \E p \in DOMAIN health : health[p] = "failed" THEN "degraded"
  ELSE IF health = <<>> \/ \E p \in DOMAIN health : health[p] # "running" THEN "starting"
  ELSE IF clockBad THEN "degraded" ELSE "ok"

Phases == {"main", "watch", "setup", "spawn", "select", "reload", "shutdown", "close"}
ProcTypeOK ==
  /\ file \in Contents /\ phase \in Phases /\ root \in Contents \cup {Nothing} /\ generation \in 0..MaxEdits + 1
  /\ services \subseteq [gen : 1..MaxEdits + 1, part : Parts, status : {"starting", "running", "failed"}]
  /\ shared \subseteq 1..MaxEdits + 1 /\ cancelled \in BOOLEAN /\ errCh \in BOOLEAN
  /\ exit \in {"no", "clean", "error", "forced", "timeout"}

\* Two generations never run together: when services start, or shared managers open, those of the
\* generation before have ended, so no service of an old configuration touches the firewall, the
\* clock or the health table of the new one (the wait for doneCh and stopShared before the restart).
OneGeneration ==
  /\ \A s \in services : s.gen = generation
  /\ shared \subseteq {generation} /\ (services # {} => shared = {generation})
\* What /healthz reports is about the services that run: while it is "ok" every component of the
\* configuration in force has a running service, except one that ends because the process stops or
\* failed and said so.
HealthIsCurrent ==
  Alive /\ phase = "select" /\ HealthStatus(FALSE) = "ok"
    => \A p \in root.parts : \E s \in services : s.part = p /\ s.gen = generation /\ s.status = "running"
\* A signal ends the process, whatever the services and the reload in progress do: none waits for ever,
\* and no shutdown goes on for ever (to be reached and kept).
SignalHandled == Alive => sigCh = 0 /\ phase # "shutdown"
\* A valid configuration that is saved, and not edited again, is the one the services end up with
\* (runWithReload restarts all node services when the config file changes).
FileIsFollowed == <>[](Alive /\ file.parses /\ procBudget.failures = MaxFailures => root = file)
====
