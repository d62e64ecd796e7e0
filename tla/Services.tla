---- MODULE Services ----
(* The services beside the data plane: certificates, the protocol clock, the configuration file and   *)
(* the administration command. They share no state: every behaviour is one of one part, chosen at the *)
(* start, and the variables of the others are off.                                                    *)
EXTENDS CertManager, TimeSync, RootConfig, Xbctl

VARIABLE part

CertOff ==
  /\ certCfg = "off" /\ running = "off" /\ mat = "off" /\ certDisk = "off" /\ files = "off" /\ storage = "off"
  /\ acme = "off" /\ renewed = "off" /\ writer = "off" /\ oldTLS = "off" /\ loaded = "off" /\ certBudget = "off"
TimeOff ==
  /\ ntpNow = "off" /\ syncer = "off" /\ cancelled = "off" /\ clock = "off" /\ ntpState = "off" /\ consumers = "off"
  /\ logged = "off" /\ reporting = "off" /\ told = "off" /\ backed = "off" /\ uses = "off"
RootOff ==
  /\ conf = "off" /\ env = "off" /\ step = "off" /\ instances = "off" /\ serving = "off" /\ placed = "off"
  /\ refusal = "off" /\ reloads = "off"
CtlOff ==
  /\ confFile = "off" /\ credFile = "off" /\ metaFile = "off" /\ bins = "off" /\ stage = "off" /\ lockDir = "off"
  /\ unit = "off" /\ cmd = "off" /\ given = "off" /\ left = "off" /\ previous = "off" /\ done = "off" /\ ctlBudget = "off"
servicesVars == <<part, certVars, timeVars, rootVars, ctlVars>>

ServicesInit ==
  \/ part = "cert" /\ CertInit /\ TimeOff /\ RootOff /\ CtlOff
  \/ part = "time" /\ TimeInit /\ CertOff /\ RootOff /\ CtlOff
  \/ part = "conf" /\ RootInit /\ CertOff /\ TimeOff /\ CtlOff
  \/ part = "ctl" /\ CtlInit /\ CertOff /\ TimeOff /\ RootOff
ServicesNext ==
  \/ part = "cert" /\ CertNext /\ UNCHANGED <<part, timeVars, rootVars, ctlVars>>
  \/ part = "time" /\ TimeNext /\ UNCHANGED <<part, certVars, rootVars, ctlVars>>
  \/ part = "conf" /\ RootNext /\ UNCHANGED <<part, certVars, timeVars, ctlVars>>
  \/ part = "ctl" /\ CtlNext /\ UNCHANGED <<part, certVars, timeVars, rootVars>>
ServicesSpec == ServicesInit /\ [][ServicesNext]_servicesVars

\* The types of every part.
ServicesTypeOK ==
  /\ part = "cert" => CertTypeOK
  /\ part = "time" => TimeTypeOK
  /\ part = "conf" => RootTypeOK
  /\ part = "ctl" => CtlTypeOK
\* cert.go: the kernel never gets half of one pair and half of another, and renewed material reaches it.
CertSound == part = "cert" => PairsMatch /\ KernelCurrent
\* timesync/manager.go: a minority of wrong servers and an old calibration do not move the clock, and the
\* state is told to whoever comes to need it.
ClockSound == part = "time" => ClockTrusted /\ NeedIsTold
\* config.go: derived directories are apart, and neither they nor the shared settings depend on the order.
LayoutSound == part = "conf" => DirsApart /\ LayoutIsStable
\* xbctl/upgrade.go: an upgrade that fails leaves what was there before.
UpgradeSound == part = "ctl" => UpgradeIsAtomic
\* xbctl/main.go: what a command reports is so whatever failed before it, and no failure separates a
\* binding from its token.
BindingsSound == part = "ctl" => BindingsAgree
====
