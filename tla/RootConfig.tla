---- MODULE RootConfig ----
(* From the configuration file to the services that run (internal/config): inheritance from the top *)
(* level, environment variables, instance identifiers, default directories, validation, the layout  *)
(* check of the start, and the configuration of every node, static or found by a machine. A path is *)
(* the sequence of its parts. The hash at the end of an identifier is taken to separate what it is  *)
(* computed from. Numbers that only tune timers, logs and the runtime are left out.                 *)
EXTENDS Integers, Sequences, FiniteSets

CONSTANTS ConfFiles,        \* the contents the file may have: top, the top-level settings, and instances
          Envs,         \* the environments: url, machine, domain (each may be absent), and secrets
          MachineNodes, \* the nodes the panel may give to a machine
          MaxReloads

\* What the file can hold of an instance, or at the top level, and of one of its nodes; 0, "" and the
\* empty path stand for what it does not say.
Paths == Seq(STRING)
NodeEntries == [id : Int, kernel : BOOLEAN, dir : Paths, cert : BOOLEAN]
Configs ==
  [url : STRING, node : Int, nodes : Seq(NodeEntries), machine : Int, standalone : BOOLEAN, dir : Paths, certDir : Paths,
   kernel : STRING, stateDir : Paths, interval : Int, certMode : STRING, domain : STRING, autoTLS : BOOLEAN, port : Int,
   secrets : SUBSET STRING, refs : SUBSET STRING]
ASSUME RootConstants ==
  /\ ConfFiles \subseteq [top : Configs, instances : Seq(Configs)]
  /\ Envs \subseteq [url : STRING, machine : Int, domain : STRING, secrets : SUBSET STRING]
  /\ MachineNodes \subseteq Int /\ MaxReloads \in Nat

Unset == <<>>
Base == <<"base">>
Under(dir, part) == Append(dir, part)
KernelTypes == {"singbox", "xray"}

VARIABLES conf,      \* what the file holds
          env,
          step,      \* of the process: load, start, run, refused
          instances, \* the instances LoadRoot returned
          serving,   \* the configuration of every service
          placed,    \* history: the file of the last start, and where its instances lived
          refusal,   \* why the last start was refused
          reloads
rootVars == <<conf, env, step, instances, serving, placed, refusal, reloads>>

NowhereYet == [top |-> <<>>, at |-> {}]
RootInit ==
  /\ conf \in ConfFiles /\ env \in Envs /\ step = "load" /\ instances = <<>> /\ serving = {}
  /\ placed = NowhereYet /\ refusal = "" /\ reloads = 0

\* inheritFrom: what is not set is taken from the top level, the directories of an instance excepted;
\* auto_tls only when no certificate mode, file or content is in force.
Or(own, parent, zero) == IF own = zero THEN parent ELSE own
InheritFrom(c, top) ==
  LET certMode == Or(c.certMode, top.certMode, "") IN
  [c EXCEPT !.kernel = Or(@, top.kernel, ""), !.stateDir = Or(@, top.stateDir, Unset),
            !.interval = Or(@, top.interval, 0), !.certMode = certMode, !.domain = Or(@, top.domain, ""),
            !.autoTLS = @ \/ (certMode = "" /\ top.autoTLS)]
\* applyEnvOverrides and resolveEnvRefs: the environment wins over the file, in every instance.
ApplyEnv(c) ==
  [c EXCEPT !.url = IF env.url # "" THEN env.url ELSE @, !.machine = IF env.machine # 0 THEN env.machine ELSE @,
            !.domain = IF env.domain # "" THEN env.domain ELSE @, !.autoTLS = @ \/ env.domain # "",
            !.secrets = @ \cup (c.refs \cap env.secrets)]

NormalizeBaseURL(url) == IF url = "p/" THEN "p" ELSE url
IsMachineMode(c) == c.machine > 0
NodeIds(c) == IF c.nodes = <<>> THEN <<c.node>> ELSE [k \in DOMAIN c.nodes |-> c.nodes[k].id]
\* AutoInstanceID: the panel, the mode and what it serves, whatever the order of its nodes.
AutoInstanceID(c) ==
  IF c.standalone THEN <<"standalone">>
  ELSE IF IsMachineMode(c) THEN <<NormalizeBaseURL(c.url), "machine", c.machine>>
  ELSE LET ids == NodeIds(c) IN
       <<NormalizeBaseURL(c.url), "node", {<<ids[k], Cardinality({l \in DOMAIN ids : ids[l] = ids[k]})>> : k \in DOMAIN ids}>>

\* Mutant: no directory for certificates.
SetDefaultsWithoutCerts(c, base) ==
  [c EXCEPT !.kernel = Or(@, "xray", ""), !.dir = Or(@, base, Unset), !.stateDir = Or(@, Under(base, "firewall"), Unset),
            !.interval = Or(@, 1, 0)]
\* setDefaultsFrom of an instance, and of the root: the firewall's state is shared by the instances of
\* a file, the kernel directory of one of several lies under its identifier.
SetDefaults(c, base) ==
  LET dir == Or(c.dir, base, Unset) IN
  [c EXCEPT !.kernel = Or(@, "xray", ""), !.dir = dir, !.certDir = Or(@, Under(dir, "certs"), Unset),
            !.stateDir = Or(@, Under(base, "firewall"), Unset), !.interval = Or(@, 1, 0)]
WithStateDir(c) == [c EXCEPT !.stateDir = Or(@, Under(Base, "firewall"), Unset)]
InstanceBase(c, count) == IF count > 1 /\ c.dir = Unset THEN Under(Base, AutoInstanceID(c)) ELSE Base
\* Mutant: directories by position.
PrepareByPosition(f) ==
  [k \in DOMAIN f.instances |->
     SetDefaults(WithStateDir(ApplyEnv(InheritFrom(f.instances[k], f.top))), Under(Base, k))]
Prepare(f) ==
  LET raw == IF f.instances = <<>> THEN <<f.top>> ELSE [k \in DOMAIN f.instances |-> InheritFrom(f.instances[k], f.top)] IN
  [k \in DOMAIN raw |-> LET c == WithStateDir(ApplyEnv(raw[k])) IN SetDefaults(c, InstanceBase(c, Len(f.instances)))]

\* validate and validateRoot.
Validate(c) ==
  /\ c.standalone => c.nodes = <<>>
  /\ ~c.standalone /\ IsMachineMode(c) => c.url # "" /\ "machine" \in c.secrets /\ c.nodes = <<>>
  /\ ~c.standalone /\ ~IsMachineMode(c)
       => c.url # "" /\ "panel" \in c.secrets /\ \A k \in DOMAIN NodeIds(c) : NodeIds(c)[k] > 0
  /\ c.kernel \in KernelTypes /\ (c.autoTLS => c.domain # "")
ValidateRoot(cs) ==
  /\ \A k \in DOMAIN cs : Validate(cs[k]) /\ (cs[k].standalone \/ cs[k].url # "")
  /\ \A k, l \in DOMAIN cs : AutoInstanceID(cs[k]) = AutoInstanceID(cs[l]) => k = l

\* ExpandNodes and ExpandMachineNode: a node without a kernel block gets a directory of its own;
\* without a certificate block it uses the certificate directory of its instance.
Service(c, node, dir, certDir, own) ==
  [instance |-> AutoInstanceID(c), url |-> c.url, node |-> node, dir |-> dir, certDir |-> certDir, own |-> own]
EntryDir(c, entry) ==
  IF ~entry.kernel THEN Under(c.dir, entry.id) ELSE Or(entry.dir, c.dir, Unset)
EntryCertDir(c, entry) == IF entry.cert THEN Under(EntryDir(c, entry), "certs") ELSE c.certDir
ExpandNodes(c) ==
  IF c.nodes = <<>> THEN <<Service(c, c.node, c.dir, c.certDir, TRUE)>>
  ELSE [k \in DOMAIN c.nodes |-> Service(c, c.nodes[k].id, EntryDir(c, c.nodes[k]), EntryCertDir(c, c.nodes[k]), ~c.nodes[k].kernel)]
ExpandMachineNode(c, node) == Service(c, node, Under(c.dir, node), Under(Under(c.dir, node), "certs"), TRUE)

\* ValidateStartupLayout refuses when one of its checks fails, and names the first.
SharedSettings(c) == <<c.stateDir, c.interval>>
Bindings(c) == LET s == ExpandNodes(c) IN [k \in DOMAIN s |-> <<s[k].url, s[k].node>>]
Conflict(cs) ==
  IF \E k \in DOMAIN cs : SharedSettings(cs[k]) # SharedSettings(cs[1]) THEN "shared settings"
  ELSE IF \E k, l \in DOMAIN cs : k # l /\ cs[k].port = cs[l].port /\ cs[k].port > 0 THEN "health port"
  ELSE IF \E k, l \in DOMAIN cs : k # l /\ cs[k].dir = cs[l].dir THEN "directory"
  ELSE IF \E k, l \in {m \in DOMAIN cs : ~IsMachineMode(cs[m])} :
            \E a \in DOMAIN Bindings(cs[k]), b \in DOMAIN Bindings(cs[l]) :
              <<k, a>> # <<l, b>> /\ Bindings(cs[k])[a] = Bindings(cs[l])[b] THEN "binding"
  ELSE ""

LoadRoot ==
  /\ step = "load"
  /\ IF ValidateRoot(Prepare(conf)) THEN step' = "start" /\ instances' = Prepare(conf) /\ UNCHANGED refusal
     ELSE step' = "refused" /\ instances' = <<>> /\ refusal' = "invalid"
  /\ UNCHANGED <<conf, env, serving, placed, reloads>>
StartUp ==
  /\ step = "start" /\ UNCHANGED <<conf, env, instances, reloads>>
  /\ IF Conflict(instances) # "" THEN step' = "refused" /\ refusal' = Conflict(instances) /\ UNCHANGED <<serving, placed>>
     ELSE /\ step' = "run" /\ refusal' = ""
          /\ placed' = [top |-> conf.top, at |-> {<<conf.instances[k], instances[k].dir>> : k \in DOMAIN conf.instances}]
          /\ serving' = UNION {LET s == ExpandNodes(instances[k]) IN
               IF IsMachineMode(instances[k]) THEN {} ELSE {s[j] : j \in DOMAIN s} : k \in DOMAIN instances}
\* The panel's list decides which nodes a machine runs.
MachineDiscovers(k, node) ==
  /\ step = "run" /\ IsMachineMode(instances[k]) /\ serving' = serving \cup {ExpandMachineNode(instances[k], node)}
  /\ serving' # serving /\ UNCHANGED <<conf, env, step, instances, placed, refusal, reloads>>
\* The file is replaced: by another order of its instances, or by one that differs in an instance.
SetOf(f) == {f.instances[k] : k \in DOMAIN f.instances}
Replace(f) ==
  /\ step = "run" /\ reloads < MaxReloads /\ f # conf /\ f.top = conf.top
  /\ Cardinality((SetOf(f) \ SetOf(conf)) \cup (SetOf(conf) \ SetOf(f))) <= 1
  /\ conf' = f /\ step' = "load" /\ reloads' = reloads + 1 /\ serving' = {} /\ instances' = <<>>
  /\ UNCHANGED <<env, placed, refusal>>

RootNext ==
  \/ LoadRoot \/ StartUp
  \/ \E k \in DOMAIN instances, node \in MachineNodes : MachineDiscovers(k, node)
  \/ \E f \in ConfFiles : Replace(f)

RootTypeOK ==
  /\ step \in {"load", "start", "run", "refused"} /\ reloads \in 0..MaxReloads
  /\ \A s \in serving : s.dir # Unset /\ s.certDir # Unset /\ (s.url # "" \/ s.instance = <<"standalone">>)
  /\ refusal \in {"", "invalid", "shared settings", "health port", "directory", "binding"}

\* Services whose directory nobody set by hand never share one, however instances, nodes and the nodes
\* of machines come together ("Auto-derive a unique config_dir per node to avoid conflicts").
HandSet == \E k \in DOMAIN conf.instances : conf.instances[k].dir # Unset
DirsApart == ~HandSet => \A s, t \in serving : s.own /\ t.own /\ s.dir = t.dir => s = t
\* Reordering the instances of a file does not move their directories, and settings that are given at
\* the top level only, or nowhere, never make two instances disagree about what the process shares
\* (assignInstanceIDs and setDefaultsFrom).
OnlyOnTop == \A k \in DOMAIN conf.instances : conf.instances[k].stateDir = Unset /\ conf.instances[k].interval = 0
LayoutIsStable ==
  /\ step = "start" /\ placed.top = conf.top /\ {p[1] : p \in placed.at} = SetOf(conf) /\ SetOf(conf) # {}
       => {<<conf.instances[k], instances[k].dir>> : k \in DOMAIN conf.instances} = placed.at
  /\ refusal = "shared settings" /\ step = "refused" => ~OnlyOnTop
====
