---- MODULE DataPlane ----
(* The parts of the data plane. They share no state: every behaviour is one of one part, chosen at    *)
(* the start, and the variables of the others are off. The dispatcher and the tracker take part twice, *)
(* each time with other bounds: with many connections, or with many changes of their limits.           *)
EXTENDS XrayDispatcher, SingBox, ConnTracker, AnyTls

CONSTANTS EditedConns,     \* bound: connections while the limit of the dispatcher is edited
          GateUpdates,     \* bound: updates of the tracker's user while device limits are in force
          SpeedAddresses   \* bound: source addresses while its speed is changed

VARIABLE part

DispatcherOff ==
  /\ limit = "off" /\ limited = "off" /\ present = "off" /\ unlimited = "off" /\ mixed = "off"
  /\ connCount = "off" /\ conn = "off" /\ edits = "off" /\ panicked = "off"
BoxOff == box = "off" /\ books = "off" /\ job = "off" /\ want = "off" /\ asked = "off" /\ client = "off"
TrackerOff ==
  /\ panelUser = "off" /\ named = "off" /\ bucket = "off" /\ rateOf = "off" /\ tracker = "off"
  /\ mapped = "off" /\ stats = "off" /\ global = "off" /\ totals = "off" /\ flow = "off" /\ update = "off"
  /\ updates = "off" /\ made = "off" /\ carriedBy = "off" /\ sharing = "off" /\ owed = "off"
TlsOff ==
  /\ sess = "off" /\ c2s = "off" /\ s2c = "off" /\ cstream = "off" /\ sstream = "off" /\ hooked = "off"
  /\ closing = "off" /\ idle = "off" /\ caller = "off" /\ clientDead = "off" /\ breaks = "off"
dataPlaneVars == <<part, dvars, bvars, tvars, tlsVars>>

\* Either many connections compete under one limit, or a few while it is edited.
ManyConns == edits' = edits
ManyEdits == Cardinality({c \in Conns : conn'[c].at # "new"}) <= EditedConns
\* Either device limits are enforced, or the speed is changed again and again.
ManyDevices == updates' <= GateUpdates
ManySpeeds ==
  /\ panelUser'.devices = 0 /\ global' = global /\ carriedBy' = carriedBy
  /\ \A f \in Flows : flow'[f].address \in SpeedAddresses \cup {0}

DataPlaneInit ==
  \/ part \in {"race", "edit"} /\ DispatcherInit /\ BoxOff /\ TrackerOff /\ TlsOff
  \/ part = "box" /\ BoxInit /\ DispatcherOff /\ TrackerOff /\ TlsOff
  \/ part \in {"gate", "speed"} /\ TrackerInit /\ DispatcherOff /\ BoxOff /\ TlsOff
  \/ part = "tls" /\ TlsInit /\ DispatcherOff /\ BoxOff /\ TrackerOff
DataPlaneNext ==
  \/ part = "race" /\ DispatcherNext /\ ManyConns /\ UNCHANGED <<part, bvars, tvars, tlsVars>>
  \/ part = "edit" /\ DispatcherNext /\ ManyEdits /\ UNCHANGED <<part, bvars, tvars, tlsVars>>
  \/ part = "box" /\ BoxNext /\ UNCHANGED <<part, dvars, tvars, tlsVars>>
  \/ part = "gate" /\ TrackerNext /\ ManyDevices /\ UNCHANGED <<part, dvars, bvars, tlsVars>>
  \/ part = "speed" /\ TrackerNext /\ ManySpeeds /\ UNCHANGED <<part, dvars, bvars, tlsVars>>
  \/ part = "tls" /\ TlsNext /\ UNCHANGED <<part, dvars, bvars, tvars>>
DataPlaneSpec == DataPlaneInit /\ [][DataPlaneNext]_dataPlaneVars

\* The types of every part.
DataPlaneTypeOK ==
  /\ part \in {"race", "edit"} => DispatcherTypeOK
  /\ part = "box" => BoxTypeOK
  /\ part \in {"gate", "speed"} => TrackerTypeOK
  /\ part = "tls" => TlsTypeOK
\* dispatcher.go: the device slots of a user are exactly those of its open connections.
DispatcherExact == part \in {"race", "edit"} => SlotsExact
\* conntracker.go and speedtracker.go: the books of every tracker are those of its open connections,
\* no byte is lost to closes and rebuilds, and the user's bucket follows the panel's speed except
\* where a connection stores a speed it read before the update.
TrackerExact == part \in {"gate", "speed"} => BooksExact /\ SpeedFollows
\* relay_users.go: authentication, routing and accounting agree between operations, and a relay user
\* without a rule is one the tracker refuses.
BoxSound == part = "box" => OneUserSet /\ PermittedRouted
\* session.go, client.go: a live session is in exactly one hand.
PoolSound == part = "tls" => OneHand
====
