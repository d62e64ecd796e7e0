---- MODULE Xbctl ----
(* The administration command (cmd/xbctl): binding nodes and machines, switching kernels, upgrading *)
(* and uninstalling. A command writes several files one after the other, and each write, rename or *)
(* service call may fail, or the command may be killed between two of them. The service manager,   *)
(* the panel and the releases are external.                                                        *)
EXTENDS Naturals, FiniteSets

CONSTANTS CtlBindings,   \* what bind add-node and add-machine may be asked for: id, mode, nodeType
          CtlFiles,  \* the config.yml the administrator has before the first command
          Managers,   \* what the host offers: systemd, openrc
          MaxCommands, MaxMishaps

Names == {b.id : b \in CtlBindings}
Ids(conf) == DOMAIN conf
ASSUME CtlConstants ==
  /\ MaxCommands \in Nat /\ MaxMishaps \in Nat
  /\ \A f \in CtlFiles : /\ f = [shared |-> f.shared, top |-> f.top, instances |-> f.instances]
                         /\ Ids(f.top) \subseteq Names /\ Ids(f.instances) \subseteq Names

Programs == {"node", "cli"}
Versions == {"none", "unknown", "v1", "v2", "v3"}
XrayUnsupportedInbounds == {"tuic", "naive", "anytls", "mieru", "socks", "http"}

VARIABLES confFile,   \* config.yml: the shared settings, the binding at its top level if there is one, and id -> the instance
          credFile,   \* credentials.env: the instances whose token it holds
          metaFile,   \* install-meta.json; its version is none when there is no such file
          bins,       \* the two programs in the binary directory
          stage,      \* the upgrade's directory: new programs and links to the old ones, NoStage when there is none
          lockDir,    \* .install-lock exists
          unit,       \* the service: its file, enabled, running, and what the running process was started with
          cmd,        \* the command that runs, with the configuration it has in memory
          given,      \* history: the bindings a token was stored for and whose removal was not written since
          left,       \* history: the bindings whose removal was written and whose token was not removed yet
          previous,   \* history: the programs before the last upgrade that has not succeeded
          done,       \* history: the last command and whether it told the administrator that it went well
          ctlBudget
ctlVars == <<confFile, credFile, metaFile, bins, stage, lockDir, unit, cmd, given, left, previous, done, ctlBudget>>

Nobody == <<>>
NoStage == [kept |-> FALSE, staged |-> [p \in Programs |-> "none"], backup |-> [p \in Programs |-> "none"]]
NoMeta == [ids |-> {}, version |-> "none"]
\* normalizeRootInstances: the top level is an instance when there is no other.
Normalized(root) == IF Ids(root.instances) # {} THEN root.instances ELSE root.top
Configured == Ids(Normalized(confFile))
NoConfig == [shared |-> FALSE, top |-> Nobody, instances |-> Nobody]
Rest == [at |-> "idle", what |-> "", id |-> "", root |-> NoConfig, token |-> FALSE, version |-> "none", again |-> FALSE]
\* The first command finds what an installation left, running, or a file written by hand.
CtlInit ==
  /\ confFile \in CtlFiles /\ left = {}
  /\ \E has \in BOOLEAN : bins = [node |-> "v1", cli |-> IF has THEN "v1" ELSE "none"]
  /\ stage = NoStage /\ lockDir = FALSE
  /\ \E manager \in Managers, installed \in BOOLEAN :
       /\ credFile = (IF installed THEN Configured ELSE {}) /\ given = credFile
       /\ metaFile = IF installed THEN [ids |-> Configured, version |-> "v1"] ELSE NoMeta
       /\ unit = [manager |-> manager, file |-> TRUE, running |-> installed, ids |-> Configured, version |-> "v1"]
  /\ cmd = Rest /\ previous = bins /\ done = [what |-> "", id |-> "", token |-> FALSE, legacy |-> FALSE, ok |-> FALSE]
  /\ ctlBudget = [commands |-> MaxCommands, mishaps |-> MaxMishaps]

At(at) == cmd.at = at
Next(at) == cmd' = [cmd EXCEPT !.at = at] /\ UNCHANGED <<done, ctlBudget>>
\* What the administrator is told of the command. Legacy: it was given a file with a binding at its top level.
Tell(ok) == done' = [what |-> cmd.what, id |-> cmd.id, token |-> cmd.token, legacy |-> Ids(cmd.root.top) # {}, ok |-> ok]
Finish == cmd' = Rest /\ Tell(TRUE) /\ UNCHANGED ctlBudget
Mishap == ctlBudget.mishaps > 0 /\ ctlBudget' = [ctlBudget EXCEPT !.mishaps = @ - 1]
Abort == Mishap /\ cmd' = Rest /\ Tell(FALSE)
Begin(command) ==
  /\ At("idle") /\ ctlBudget.commands > 0 /\ ctlBudget' = [ctlBudget EXCEPT !.commands = @ - 1]
  /\ cmd' = command
Files == <<confFile, credFile, metaFile>>
Host == <<bins, stage, lockDir, unit, previous>>
History == <<given, left>>

\* Mutant: a removal forgets the token before the configuration is written.
FollowsPruningFirst(what, at) ==
  CASE at = "begin" -> IF what = "refresh" THEN "meta" ELSE IF what = "remove" THEN "credentials" ELSE "config"
    [] at = "config" -> IF what = "kernel" THEN "end" ELSE IF what = "remove" THEN "meta" ELSE "credentials"
    [] at = "credentials" -> IF what = "remove" THEN "config" ELSE "meta"
    [] at = "meta" -> IF what \in {"upgrade", "refresh"} THEN "end" ELSE "service"
\* The order in which a command writes what it changes.
Follows(what, at) ==
  CASE at = "begin" -> IF what = "refresh" THEN "meta" ELSE "config"
    [] at = "config" -> IF what = "kernel" THEN "end" ELSE "credentials"
    [] at = "credentials" -> "meta"
    [] at = "meta" -> IF what \in {"upgrade", "refresh"} THEN "end" ELSE "service"
GoOn == LET next == Follows(cmd.what, cmd.at) IN IF next = "end" THEN Finish ELSE Next(next)

\* serviceCommandFor: the commands the manager runs; the process that starts reads the files of the moment.
Started == [unit EXCEPT !.running = TRUE, !.ids = Configured, !.version = bins.node]
RunManagedService(action) ==
  /\ unit.manager \in {"systemd", "openrc"}
  /\ unit' = CASE action = "restart" -> Started [] action = "stop" -> [unit EXCEPT !.running = FALSE]
RestartFails == Mishap /\ unit' \in {unit, [unit EXCEPT !.running = FALSE]}

\* loadWritableRootConfig: what the file holds now, with other instances.
LoadWritableRootConfig(list) == [confFile EXCEPT !.instances = list]
Set(conf, id, inst) == [i \in Ids(conf) \cup {id} |-> IF i = id THEN inst ELSE conf[i]]
Drop(conf, ids) == [i \in Ids(conf) \ ids |-> conf[i]]

\* runConfigInit: the kernel of a new binding by its protocol, asked from the panel when it is not
\* given; an existing binding keeps its kernel and protocol unless they are given.
DefaultKernel(b, nodeType) == IF b.mode = "node" /\ nodeType = "vless" THEN "xray" ELSE "singbox"
MergedInstance(b, kernel, nodeType) ==
  LET old == Normalized(confFile) IN
  IF b.id \in Ids(old)
  THEN [kernel |-> IF kernel = "" THEN old[b.id].kernel ELSE kernel, type |-> IF nodeType = "" THEN old[b.id].type ELSE nodeType]
  ELSE [kernel |-> IF kernel = "" THEN DefaultKernel(b, b.nodeType) ELSE kernel,
        type |-> IF nodeType = "" /\ kernel = "" THEN b.nodeType ELSE nodeType]
NeedsPanel(b, kernel, nodeType) == b.id \notin Configured /\ b.mode = "node" /\ kernel = "" /\ nodeType = ""
\* bind passes no version.
RunConfigInit(b, kernel, nodeType, token) ==
  /\ NeedsPanel(b, kernel, nodeType) => token
  /\ Begin([Rest EXCEPT !.at = Follows("add", "begin"), !.what = "add", !.id = b.id, !.token = token, !.version = "unknown",
                        !.root = LoadWritableRootConfig(Set(Normalized(confFile), b.id, MergedInstance(b, kernel, nodeType)))])
  /\ UNCHANGED done /\ UNCHANGED History /\ UNCHANGED Files /\ UNCHANGED Host

\* removeBinding: the instance that matches is dropped; none is an error and nothing changes.
RemoveBinding(id) ==
  /\ id \in Configured
  /\ Begin([Rest EXCEPT !.at = Follows("remove", "begin"), !.what = "remove", !.id = id,
                        !.version = IF metaFile.version = "none" THEN "unknown" ELSE metaFile.version,
                        !.root = LoadWritableRootConfig(Drop(Normalized(confFile), {id}))])
  /\ UNCHANGED done /\ UNCHANGED History /\ UNCHANGED Files /\ UNCHANGED Host

\* runConfigKernel refuses xray for a protocol xray has no inbound for, unless forced.
RunConfigKernel(ids, kernel, force) ==
  LET conf == Normalized(confFile) IN
  /\ ids # {} /\ ids \subseteq Ids(conf)
  /\ kernel = "xray" => force \/ \A i \in ids : conf[i].type \notin XrayUnsupportedInbounds
  /\ \E i \in ids : conf[i].kernel # kernel
  /\ Begin([Rest EXCEPT !.at = Follows("kernel", "begin"), !.what = "kernel",
                        !.root = LoadWritableRootConfig([i \in Ids(conf) |->
                                   IF i \in ids THEN [conf[i] EXCEPT !.kernel = kernel] ELSE conf[i]])])
  /\ UNCHANGED done /\ UNCHANGED History /\ UNCHANGED Files /\ UNCHANGED Host

\* The top level is written as an instance when nothing else is left, removed or not, and is gone from
\* its old place.
WriteRootConfig ==
  /\ At("config") /\ UNCHANGED <<credFile, metaFile>> /\ UNCHANGED Host
  /\ LET gone == IF cmd.what = "remove" THEN {cmd.id} ELSE {}
         kept == Normalized(cmd.root)
     IN  \/ /\ confFile' = [cmd.root EXCEPT !.top = Nobody, !.instances = kept]
            /\ given' = given \ gone /\ left' = (left \cup gone) \ Ids(kept)
            /\ GoOn
         \/ Abort /\ UNCHANGED confFile /\ UNCHANGED History
MergeCredentials ==
  /\ At("credentials") /\ cmd.what = "add" /\ UNCHANGED <<confFile, metaFile, left>> /\ UNCHANGED Host
  /\ \/ /\ credFile' = IF cmd.token THEN credFile \cup {cmd.id} ELSE credFile
        /\ given' = IF cmd.token THEN given \cup {cmd.id} ELSE given
        /\ GoOn
     \/ Abort /\ UNCHANGED <<credFile, given>>
PruneCredentialKeys ==
  /\ At("credentials") /\ cmd.what = "remove" /\ UNCHANGED <<confFile, metaFile, given>> /\ UNCHANGED Host
  /\ \/ credFile' = credFile \ {cmd.id} /\ left' = left \ {cmd.id} /\ GoOn
     \/ Abort /\ UNCHANGED <<credFile, left>>
\* The upgrade ends well with or without it, and gives its lock back.
WriteInstallMeta ==
  /\ At("meta") /\ UNCHANGED <<confFile, credFile, bins, stage, unit, previous>> /\ UNCHANGED History
  /\ \/ /\ metaFile' = [ids |-> Ids(Normalized(cmd.root)), version |-> cmd.version]
        /\ lockDir' = (lockDir /\ cmd.what # "upgrade") /\ GoOn
     \/ cmd.what # "upgrade" /\ Abort /\ UNCHANGED <<metaFile, lockDir>>
     \/ cmd.what = "upgrade" /\ Mishap /\ cmd' = Rest /\ Tell(TRUE) /\ lockDir' = FALSE /\ UNCHANGED metaFile
\* removeBinding stops the service when no instance is left, and says so whether that worked or not.
Serve ==
  /\ At("service") /\ UNCHANGED <<bins, stage, lockDir, previous>> /\ UNCHANGED History /\ UNCHANGED Files
  /\ \/ Ids(cmd.root.instances) = {} /\ RunManagedService("stop") /\ Finish
     \/ Ids(cmd.root.instances) = {} /\ Mishap /\ cmd' = Rest /\ Tell(TRUE) /\ UNCHANGED unit
     \/ Ids(cmd.root.instances) # {} /\ RunManagedService("restart") /\ Finish
     \/ Ids(cmd.root.instances) # {} /\ RestartFails /\ cmd' = Rest /\ Tell(FALSE)
RunConfigRefreshMeta(version) ==
  /\ Begin([Rest EXCEPT !.at = Follows("refresh", "begin"), !.what = "refresh", !.version = version, !.root = confFile])
  /\ UNCHANGED done /\ UNCHANGED History /\ UNCHANGED Files /\ UNCHANGED Host

\* lockInstallation: a lock that an interrupted command left is for the administrator to remove.
LockInstallation(what) ==
  /\ ~lockDir /\ lockDir' = TRUE
  /\ Begin([Rest EXCEPT !.at = IF what = "upgrade" THEN "download" ELSE "stop", !.what = what,
                        !.version = IF bins.node = "v1" THEN "v2" ELSE "v3"])
  /\ previous' = bins /\ stage' = NoStage
  /\ UNCHANGED <<bins, unit, done>> /\ UNCHANGED History /\ UNCHANGED Files
RemoveLock ==
  /\ At("idle") /\ lockDir /\ lockDir' = FALSE
  /\ UNCHANGED <<bins, stage, unit, previous, cmd, done, ctlBudget>> /\ UNCHANGED History /\ UNCHANGED Files

\* upgradeBinaries: both programs are downloaded, verified and tried; then the old ones are linked.
Download ==
  /\ At("download") /\ UNCHANGED <<bins, unit, previous>> /\ UNCHANGED History /\ UNCHANGED Files
  /\ \/ /\ stage' = [stage EXCEPT !.staged = [p \in Programs |-> cmd.version]]
        /\ Next("link") /\ UNCHANGED lockDir
     \/ Abort /\ lockDir' = FALSE /\ stage' = NoStage
\* Mutant: no links are made.
LinkNothing ==
  /\ At("link") /\ Next("node") /\ UNCHANGED <<bins, unit, previous, stage, lockDir>> /\ UNCHANGED History /\ UNCHANGED Files
LinkBackups ==
  /\ At("link") /\ UNCHANGED <<bins, unit, previous>> /\ UNCHANGED History /\ UNCHANGED Files
  /\ \/ stage' = [stage EXCEPT !.backup = bins] /\ Next("node") /\ UNCHANGED lockDir
     \/ Abort /\ lockDir' = FALSE /\ stage' = NoStage
ReplaceBinary(p) ==
  /\ At(p) /\ UNCHANGED <<unit, previous, lockDir, stage>> /\ UNCHANGED History /\ UNCHANGED Files
  /\ \/ bins' = [bins EXCEPT ![p] = stage.staged[p]] /\ Next(IF p = "node" THEN "cli" ELSE "restart")
     \/ Mishap /\ cmd' = [cmd EXCEPT !.at = IF p = "node" THEN "clean" ELSE "undo node"] /\ UNCHANGED <<bins, done>>
\* The upgrade's version goes to the meta file once the service runs the new program.
RestartUpgraded ==
  /\ At("restart") /\ UNCHANGED <<bins, lockDir, done>> /\ UNCHANGED History /\ UNCHANGED Files
  /\ \/ /\ RunManagedService("restart") /\ previous' = bins /\ stage' = NoStage
        /\ cmd' = [cmd EXCEPT !.at = "meta", !.root = confFile] /\ UNCHANGED ctlBudget
     \/ RestartFails /\ cmd' = [cmd EXCEPT !.at = "undo cli", !.again = TRUE] /\ UNCHANGED <<previous, stage>>
\* rollback, in the opposite order: a rename that fails keeps the stage with its backups.
Undo(p) ==
  /\ At(IF p = "cli" THEN "undo cli" ELSE "undo node") /\ UNCHANGED <<unit, previous, lockDir, done>> /\ UNCHANGED History /\ UNCHANGED Files
  /\ \/ bins' = [bins EXCEPT ![p] = stage.backup[p]] /\ UNCHANGED <<stage, ctlBudget>>
     \/ Mishap /\ stage' = [stage EXCEPT !.kept = TRUE] /\ UNCHANGED bins
  /\ cmd' = [cmd EXCEPT !.at = IF p = "cli" THEN "undo node" ELSE "clean"]
Clean ==
  /\ At("clean") /\ UNCHANGED <<bins, previous>> /\ UNCHANGED History /\ UNCHANGED Files
  /\ stage' = IF stage.kept THEN stage ELSE NoStage
  /\ \/ cmd.again /\ ~stage.kept /\ RunManagedService("restart") /\ UNCHANGED ctlBudget
     \/ cmd.again /\ ~stage.kept /\ RestartFails
     \/ (~cmd.again \/ stage.kept) /\ UNCHANGED <<unit, ctlBudget>>
  /\ lockDir' = FALSE /\ cmd' = Rest /\ Tell(FALSE)

\* runUninstall: every step is tried, what fails is a warning.
UninstallService ==
  /\ At("stop") /\ UNCHANGED <<bins, stage, lockDir, previous>> /\ UNCHANGED History /\ UNCHANGED Files
  /\ unit' = [unit EXCEPT !.running = FALSE, !.file = FALSE] /\ Next("remove")
UninstallPrograms(purge) ==
  /\ At("remove") /\ bins' = [p \in Programs |-> "none"] /\ previous' = bins' /\ lockDir' = FALSE
  /\ confFile' = IF purge THEN NoConfig ELSE confFile
  /\ credFile' = IF purge THEN {} ELSE credFile
  /\ given' = IF purge THEN {} ELSE given
  /\ left' = IF purge THEN {} ELSE left
  /\ metaFile' = NoMeta
  /\ stage' = NoStage /\ UNCHANGED unit
  /\ ctlBudget' = [ctlBudget EXCEPT !.commands = 0] /\ cmd' = Rest /\ Tell(TRUE)
\* The command is killed: its lock and its stage stay.
Kill ==
  /\ ~At("idle") /\ Abort /\ UNCHANGED History /\ UNCHANGED Files /\ UNCHANGED Host

CtlNext ==
  \/ \E b \in CtlBindings, kernel \in {"", "xray", "singbox"}, given1 \in BOOLEAN, token \in BOOLEAN :
       RunConfigInit(b, kernel, IF given1 THEN b.nodeType ELSE "", token)
  \/ \E id \in Configured : RemoveBinding(id)
  \/ \E ids \in {Configured} \cup {{i} : i \in Configured}, kernel \in {"xray", "singbox"}, force \in BOOLEAN :
       RunConfigKernel(ids, kernel, force)
  \/ WriteRootConfig \/ MergeCredentials \/ PruneCredentialKeys \/ WriteInstallMeta \/ Serve
  \/ RunConfigRefreshMeta("v2") \/ RemoveLock
  \/ \E what \in {"upgrade", "uninstall"} : LockInstallation(what)
  \/ Download \/ LinkBackups \/ RestartUpgraded \/ Clean \/ Kill
  \/ \E p \in Programs : ReplaceBinary(p) \/ Undo(p)
  \/ UninstallService \/ \E purge \in BOOLEAN : UninstallPrograms(purge)

CtlTypeOK ==
  /\ Configured \subseteq Names /\ credFile \subseteq Names /\ metaFile.ids \subseteq Names /\ metaFile.version \in Versions
  /\ bins \in [Programs -> Versions] /\ stage.backup \in [Programs -> Versions] /\ lockDir \in BOOLEAN
  /\ given \subseteq Names /\ left \subseteq Names /\ done.ok \in BOOLEAN
  /\ unit.manager \in Managers /\ unit.version \in Versions /\ ctlBudget.mishaps \in 0..MaxMishaps

\* Until the service has restarted with the new programs, each old one can still be had: it is in its
\* place or linked in the stage, whichever step failed or was interrupted; and an upgrade that ended
\* without success leaves both as they were, unless it kept the stage for recovery (upgrade.go).
UpgradeIsAtomic ==
  /\ \A p \in Programs : previous[p] \in {bins[p], stage.backup[p]}
  /\ At("idle") /\ ~lockDir /\ ~stage.kept /\ (\A p \in Programs : stage.staged[p] = "none")
       => bins.node = previous.node /\ bins.cli = previous.cli

\* The service runs with the configuration and the program that are there.
UpAndCurrent == unit.running /\ unit.ids = Configured /\ unit.version = bins.node
\* What a command says when it ends well is so, however many before it failed or were killed between two
\* of their writes: an addition is configured, has its token, is listed and served; a removal has left
\* neither token nor binding, unless the file had a binding at its top level, which comes back.
KeepsWord ==
  At("idle") /\ done.ok =>
    /\ done.what \in {"add", "remove", "refresh"} => metaFile.ids = Configured
    /\ done.what = "add" => /\ done.id \in Configured /\ UpAndCurrent
                            /\ done.token => done.id \in credFile
    /\ done.what = "remove" /\ ~done.legacy => /\ done.id \notin Configured
                                               /\ Configured # {} => UpAndCurrent
    /\ done.what = "remove" => done.id \notin credFile
\* And at every moment, between two writes and after a failure of any: a token that was stored is there
\* and its binding configured until its removal is, and a token without a binding is one that an
\* interrupted removal left behind (removeBinding and runConfigInit write the configuration first).
TokensFollow ==
  /\ given \subseteq credFile /\ given \subseteq Configured
  /\ credFile \subseteq Configured \cup left
BindingsAgree == KeepsWord /\ TokensFollow
====
