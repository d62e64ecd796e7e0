---- MODULE SingBoxProofs ----
(* A user update of a running sing-box is seen by its connections as all or nothing: for any users,     *)
(* configurations, sessions and failures.  The invariant says, for every stage of an operation, which   *)
(* users the inbound, the rules and the tracker know.                                                   *)
EXTENDS SingBox, TLAPS

Users == UNION BoxUserSets
AllCreds == Creds(Users)
ConfigNames == BoxConfigs \cup {"none"}
Building == {"build", "close", "drain", "boot"}
Hot == {"route", "map", "prepare", "admit", "switch", "revoke", "finish"}
Undoing == {"undo", "undoRules", "undoMap", "undoClose"}
OfRelay == {"prepare", "admit", "finish"} \cup Undoing

\* The values of the variables.
Jobs == [at : {"idle", "failed"} \cup Building \cup Hot \cup Undoing,
         kind : {"none", "config", "users", "add", "remove"}, config : ConfigNames, users : SUBSET Users,
         add : {{}}, remove : {{}}, old : {0}, fails : BOOLEAN, waits : {{}}]
Boxes == [up : BOOLEAN, open : BOOLEAN, config : ConfigNames,
          auth : SUBSET AllCreds, rules : SUBSET AllCreds, tracker : SUBSET AllCreds]
Sessions == [at : {"away", "in", "routed", "served"}, cred : AllCreds \cup {Nobody.cred}, route : Routes \cup {0},
             by : {"none", "own", "default"}, permitted : BOOLEAN]
Types ==
  /\ box \in Boxes /\ job \in Jobs /\ books \in SUBSET Users
  /\ want \in [config : ConfigNames, users : SUBSET Users]
  /\ client \in [Clients -> Sessions]

\* Inbound, tracker and, at a relay entry, rules know the users of `l`.
Agree(l) == /\ box.auth = Accounts(l) /\ box.tracker = Accounts(l)
            /\ Relay => box.rules = Creds(l)
Both == Creds(books) \cup Creds(job.users)
IsAsked == Creds(job.users) = Creds(want.users)
Delta == job.kind \in {"add", "remove"}

\* Where a box is, and what the operation in progress is about.
Place ==
  /\ box.up \/ box = NoBox
  /\ job.at \in Hot \cup Undoing => box.up /\ box.config = want.config
  /\ job.at = "boot" => ~box.up
  /\ box.up /\ job.at # "drain" => box.open
  /\ job.at \in OfRelay => Relay
  /\ job.at \in {"build", "boot"} \/ (job.at \in {"close", "drain"} /\ job.fails) => job.config = want.config /\ IsAsked
  /\ job.at \in Hot => IsAsked
  /\ job.at = "build" /\ Delta => ~box.up
  /\ job.at = "failed" /\ Delta /\ box.up => box.config = want.config

\* Whom inbound, rules and tracker know at each stage.
Knows ==
  /\ job.at = "idle" /\ box.up => Agree(books) /\ Creds(books) = Creds(want.users) /\ box.config = want.config
  /\ job.at \in {"build", "route", "map", "prepare"} /\ box.up => Agree(books)
  /\ job.at \in {"route", "map"} => Creds(job.users) = Creds(books)
  /\ job.at = "failed" /\ box.up /\ (Relay \/ Creds(books) = Creds(want.users)) => Agree(books)
  /\ job.at = "switch" /\ ~Relay /\ Creds(books) = Creds(want.users) => Agree(books)
  /\ job.at = "admit" => box.auth = Creds(books) /\ box.rules = Both /\ box.tracker = Creds(books)
  /\ job.at = "switch" /\ Relay => box.auth = Creds(books) /\ box.rules = Both /\ box.tracker = Both
  /\ job.at = "revoke" => box.auth = Accounts(job.users) /\ (Relay => box.rules = Both /\ box.tracker = Both)
  /\ job.at = "finish" => box.auth = Creds(job.users) /\ box.rules = Both /\ box.tracker = Creds(job.users)

\* How far a rollback has come.
Undone ==
  /\ job.at \in {"undo", "undoRules", "undoMap"} => Creds(books) \subseteq box.rules
  /\ job.at \in {"undo", "undoRules", "undoClose"} \/ (job.at \in {"close", "drain"} /\ Relay) => box.tracker \subseteq box.rules
  /\ job.at \in {"undoRules", "undoMap"} /\ ~job.fails => box.auth = Creds(books)
  /\ job.at = "undoMap" /\ ~job.fails => box.rules = Creds(books)

IInv == Types /\ Place /\ Knows /\ Undone /\ PermittedRouted

OpInv == Place /\ Knows /\ Undone

---------------------------------------------------------------------------
(* Credentials of user lists *)

LEMMA CredsOfUnion == \A a, b : Creds(a \cup b) = Creds(a) \cup Creds(b)
  BY DEF Creds

LEMMA CredsOfUsers == \A l \in SUBSET Users : Creds(l) \subseteq AllCreds
  BY DEF Creds, AllCreds

\* Lists with the same credentials have the same IDs, and lose the same ones.
LEMMA SameIds == \A a, b : Creds(a) = Creds(b) => KnownIds(a) = KnownIds(b)
<1> SUFFICES ASSUME NEW a, NEW b, Creds(a) = Creds(b) PROVE KnownIds(a) = KnownIds(b)
  OBVIOUS
<1>1. ASSUME NEW l, NEW m, Creds(l) = Creds(m), NEW i \in KnownIds(l) PROVE i \in KnownIds(m)
  <2>1. PICK u \in l : u.id = i
    BY <1>1 DEF KnownIds
  <2>2. [id |-> u.id, uuid |-> u.uuid] \in Creds(m)
    BY <1>1, <2>1 DEF Creds
  <2>3. PICK v \in m : [id |-> u.id, uuid |-> u.uuid] = [id |-> v.id, uuid |-> v.uuid]
    BY <2>2 DEF Creds
  <2>4. QED
    BY <2>1, <2>3 DEF KnownIds
<1>2. QED
  BY <1>1

LEMMA SubtractSame ==
  \A a, b, delta : Creds(a) = Creds(b) => Creds(SubtractUsers(a, delta)) = Creds(SubtractUsers(b, delta))
<1>1. ASSUME NEW a, NEW b, NEW delta, Creds(a) = Creds(b), NEW c \in Creds(SubtractUsers(a, delta))
      PROVE  c \in Creds(SubtractUsers(b, delta))
  <2>1. PICK u \in a : c = [id |-> u.id, uuid |-> u.uuid] /\ u.id \notin KnownIds(delta)
    BY <1>1 DEF Creds, SubtractUsers
  <2>2. c \in Creds(b)
    BY <1>1, <2>1 DEF Creds
  <2>3. PICK v \in b : c = [id |-> v.id, uuid |-> v.uuid]
    BY <2>2 DEF Creds
  <2>4. v.id \notin KnownIds(delta)
    BY <2>1, <2>3
  <2>5. QED
    BY <2>3, <2>4 DEF Creds, SubtractUsers
<1>2. QED
  BY <1>1

\* A delta that changes no UUID adds exactly the users whose IDs are new.
LEMMA MergeAddsNew ==
  ASSUME NEW a, NEW b, NEW delta, Creds(a) = Creds(b), ~HasUUIDChange(b, delta)
  PROVE  Creds(MergeUsers(b, delta)) = Creds(a \cup {u \in delta : u.id \notin KnownIds(a)})
<1>1. KnownIds(a) = KnownIds(b)
  BY SameIds
<1>2. ASSUME NEW c \in Creds(MergeUsers(b, delta))
      PROVE  c \in Creds(a \cup {u \in delta : u.id \notin KnownIds(a)})
  <2>1. PICK u \in MergeUsers(b, delta) : c = [id |-> u.id, uuid |-> u.uuid]
    BY DEF Creds
  <2>2. CASE u \in b
    <3>1. c \in Creds(a)
      BY <2>1, <2>2 DEF Creds
    <3>2. QED
      BY <3>1, CredsOfUnion
  <2>3. CASE u \in delta /\ u.id \notin KnownIds(a)
    BY <2>1, <2>3 DEF Creds
  <2>4. CASE u \in delta /\ u.id \in KnownIds(a)
    <3>1. PICK v \in b : v.id = u.id
      BY <1>1, <2>4 DEF KnownIds
    <3>2. v.uuid = u.uuid
      BY <2>4, <3>1 DEF HasUUIDChange
    <3>3. c \in Creds(b)
      BY <2>1, <3>1, <3>2 DEF Creds
    <3>4. QED
      BY <3>3, CredsOfUnion
  <2>5. QED
    BY <2>2, <2>3, <2>4 DEF MergeUsers
<1>3. ASSUME NEW c \in Creds(a \cup {u \in delta : u.id \notin KnownIds(a)})
      PROVE  c \in Creds(MergeUsers(b, delta))
  <2>1. CASE c \in Creds(a)
    <3>1. PICK v \in b : c = [id |-> v.id, uuid |-> v.uuid]
      BY <2>1 DEF Creds
    <3>2. CASE v.id \in KnownIds(delta)
      <4>1. PICK u \in delta : u.id = v.id
        BY <3>2 DEF KnownIds
      <4>2. u.uuid = v.uuid
        BY <4>1 DEF HasUUIDChange
      <4>3. QED
        BY <3>1, <4>1, <4>2 DEF Creds, MergeUsers
    <3>3. CASE v.id \notin KnownIds(delta)
      BY <3>1, <3>3 DEF Creds, MergeUsers
    <3>4. QED
      BY <3>2, <3>3
  <2>2. CASE c \in Creds({u \in delta : u.id \notin KnownIds(a)})
    BY <2>2 DEF Creds, MergeUsers
  <2>3. QED
    BY <2>1, <2>2, CredsOfUnion
<1>4. QED
  BY <1>2, <1>3

\* The list of a delta lies within the users there are.
LEMMA ListsOfUsers ==
  ASSUME NEW l \in SUBSET Users, NEW delta \in BoxUserSets
  PROVE  /\ delta \in SUBSET Users /\ MergeUsers(l, delta) \in SUBSET Users /\ SubtractUsers(l, delta) \in SUBSET Users
         /\ l \cup {u \in delta : u.id \notin KnownIds(l)} \in SUBSET Users
  BY DEF Users, MergeUsers, SubtractUsers

\* A relay entry knows its panel users.
LEMMA RelayAccounts ==
  ASSUME Relay
  PROVE  \A l : Accounts(l) = Creds(l)
  BY BoxConstants DEF Relay, Accounts, PanelUsers

LEMMA AccountsFollow == \A a, b : Creds(a) = Creds(b) => Accounts(a) = Accounts(b)
  BY DEF Accounts, PanelUsers

LEMMA InitHolds == BoxInit => IInv
<1> SUFFICES ASSUME BoxInit PROVE IInv
  OBVIOUS
<1>1. Types
  BY DEF BoxInit, Types, Boxes, Jobs, Sessions, NoBox, Idle, Nobody, ConfigNames
<1>2. job.at = "idle" /\ ~box.up /\ job.kind = "none" /\ box = NoBox
  BY DEF BoxInit, NoBox, Idle
<1>3. OpInv
  BY <1>2 DEF OpInv, Place, Knows, Undone, Hot, Undoing, OfRelay
<1>4. PermittedRouted
  BY DEF BoxInit, PermittedRouted, Nobody
<1>5. QED
  BY <1>1, <1>3, <1>4 DEF IInv, OpInv

---------------------------------------------------------------------------
(* Telling the kernel something *)

LEMMA JobOf == \A kind \in {"none", "config", "users", "add", "remove"} : For(kind) \in Jobs
  BY DEF For, Idle, Jobs, ConfigNames

LEMMA StartedJob ==
  \A r \in Jobs, config \in ConfigNames, l \in SUBSET Users : BoxStart(r, config, l) \in Jobs
  BY DEF BoxStart, Jobs, Building

LEMMA SwappedJob ==
  \A r \in Jobs, l \in SUBSET Users : Swap(r, l) \in Jobs
  BY DEF Swap, BoxFails, Jobs, Hot

\* A running box handed a list with the credentials asked for.
LEMMA SwapHand ==
  ASSUME Types, Place, box.up, box.open, box.config = want'.config,
         Relay \/ Creds(books) = Creds(want'.users) => Agree(books),
         NEW l \in SUBSET Users, Creds(l) = Creds(want'.users), NEW kind \in {"users", "add", "remove"},
         job' = Swap(For(kind), l), UNCHANGED <<box, books>>
  PROVE  job' \in Jobs /\ OpInv'
<1>1. job' \in Jobs
  BY JobOf, SwappedJob
<1>2. /\ job'.at \in {"failed", "prepare", "switch"} /\ (job'.at = "prepare" => Relay) /\ (job'.at = "switch" => ~Relay)
      /\ job'.at # "failed" => job'.users = l
      /\ job'.kind = kind
  BY DEF Swap, BoxFails, For, Idle
<1>3. (Agree(books) <=> Agree(books)') /\ (Relay <=> Relay')
  BY DEF Agree, Relay, Accounts, PanelUsers
<1>4. Place'
  BY <1>2, <1>3 DEF Place, IsAsked, Hot, Undoing, OfRelay, Building, Delta
<1>5. Knows'
  BY <1>2, <1>3 DEF Knows
<1>6. Undone'
  BY <1>2 DEF Undone
<1>7. QED
  BY <1>1, <1>4, <1>5, <1>6 DEF OpInv

LEMMA UpdateHand ==
  ASSUME Types, Place, box.up, box.open, box.config = want'.config,
         Relay \/ Creds(books) = Creds(want'.users) => Agree(books),
         NEW l \in SUBSET Users, Creds(l) = Creds(want'.users), NEW kind \in {"users", "add", "remove"},
         job' = BoxUpdateUsers(For(kind), l), UNCHANGED <<box, books>>
  PROVE  job' \in Jobs /\ OpInv'
<1>1. CASE Creds(l) = Creds(books) /\ RelayUsersValid(box.config, l)
  <2>1. job' = [For(kind) EXCEPT !.at = "map", !.users = l]
    BY <1>1 DEF BoxUpdateUsers
  <2>2. job'.at = "map" /\ job'.users = l /\ job'.kind = kind
    BY <2>1 DEF For, Idle
  <2>3. job' \in Jobs
    <3>1. For(kind) \in Jobs
      BY JobOf
    <3>2. QED
      BY <2>1, <3>1 DEF Jobs, Hot
  <2>4. (Agree(books) <=> Agree(books)') /\ (Relay <=> Relay')
    BY DEF Agree, Relay, Accounts, PanelUsers
  <2>5. Place'
    BY <2>2, <2>4 DEF Place, IsAsked, Hot, Undoing, OfRelay, Building, Delta
  <2>6. Knows'
    BY <1>1, <2>2, <2>4 DEF Knows
  <2>7. Undone'
    BY <2>2 DEF Undone
  <2>8. QED
    BY <2>3, <2>5, <2>6, <2>7 DEF OpInv
<1>2. CASE ~(Creds(l) = Creds(books) /\ RelayUsersValid(box.config, l))
  BY <1>2, SwapHand DEF BoxUpdateUsers
<1>3. QED
  BY <1>1, <1>2

\* Nothing is to be done for a running box that already has what is asked for.
LEMMA IdleHand ==
  ASSUME Types, Place, box.up => Agree(books), box.up => box.open /\ box.config = want'.config,
         box.up => Creds(books) = Creds(want'.users),
         job' = Idle, UNCHANGED <<box, books>>
  PROVE  job' \in Jobs /\ OpInv'
<1>1. job'.at = "idle" /\ job'.kind = "none"
  BY DEF Idle
<1>2. Agree(books) <=> Agree(books)'
  BY DEF Agree, Relay, Accounts, PanelUsers
<1>3. job' \in Jobs
  BY DEF Idle, Jobs, ConfigNames
<1>4. OpInv'
  BY <1>1, <1>2 DEF OpInv, Place, Knows, Undone, Hot, Undoing, OfRelay
<1>5. QED
  BY <1>3, <1>4

\* A box that is down is started with what is asked for.
LEMMA StartHand ==
  ASSUME Types, Place, ~box.up, want'.config \in ConfigNames, want'.users \in SUBSET Users,
         NEW kind \in {"config", "users", "add", "remove"},
         job' = BoxStart(For(kind), want'.config, want'.users), UNCHANGED <<box, books>>
  PROVE  job' \in Jobs /\ OpInv'
<1>1. job' \in Jobs
  BY JobOf, StartedJob
<1>2. job'.at \in {"build", "failed"} /\ (job'.at = "build" => job'.config = want'.config /\ job'.users = want'.users)
  BY DEF BoxStart, For, Idle
<1>3. OpInv'
  BY <1>2 DEF OpInv, Place, Knows, Undone, IsAsked, Hot, Undoing, OfRelay
<1>4. QED
  BY <1>1, <1>3

LEMMA ShutHand ==
  ASSUME Types, Place, ~box.up, want'.config \in ConfigNames, want'.users \in SUBSET Users,
         NEW kind \in {"config", "users", "add", "remove"}, NEW hot,
         job' = IfUp(For(kind), want', hot), UNCHANGED <<box, books>>
  PROVE  job' \in Jobs /\ OpInv'
  BY StartHand, IdleHand DEF IfUp

\* What every idle, running box satisfies.
LEMMA IdleBox ==
  ASSUME IInv, job.at = "idle", box.up
  PROVE  /\ Agree(books) /\ Creds(books) = Creds(want.users) /\ box.config = want.config /\ box.open
         /\ want.config \in ConfigNames /\ want.users \in SUBSET Users /\ books \in SUBSET Users
  BY DEF IInv, Types, Place, Knows

LEMMA TellConfigKeeps == ASSUME IInv, TellConfig PROVE Types' /\ OpInv'
<1> USE DEF IInv
<1>1. PICK c \in BoxConfigs :
        /\ want' = [want EXCEPT !.config = c] /\ job.at = "idle" /\ UNCHANGED <<box, books, client>>
        /\ job' = IfUp(For("config"), want',
             CASE ~Runs(want') -> [For("config") EXCEPT !.at = "close"]
               [] Runs(want') /\ c = box.config /\ Creds(want'.users) = Creds(books) ->
                    [For("config") EXCEPT !.at = "route", !.users = want'.users]
               [] OTHER -> BoxStart(For("config"), c, want'.users))
  BY Zenon DEF TellConfig, Tell
<1>2. want' \in [config : ConfigNames, users : SUBSET Users] /\ want'.config = c /\ want'.users = want.users
  BY <1>1 DEF Types, ConfigNames
<1>3. job' \in Jobs /\ OpInv'
  <2>1. CASE ~box.up
    BY <1>1, <1>2, <2>1, ShutHand
  <2>2. CASE box.up
    <3> DEFINE todo == CASE ~Runs(want') -> [For("config") EXCEPT !.at = "close"]
               [] Runs(want') /\ c = box.config /\ Creds(want'.users) = Creds(books) ->
                    [For("config") EXCEPT !.at = "route", !.users = want'.users]
               [] OTHER -> BoxStart(For("config"), c, want'.users)
    <3>1. job' = todo
      BY <1>1, <2>2 DEF IfUp
    <3>2. (Agree(books) <=> Agree(books)') /\ (Relay <=> Relay')
      BY <1>1 DEF Agree, Relay, Accounts, PanelUsers
    <3>3. Agree(books) /\ box.open /\ Creds(books) = Creds(want.users)
      BY <1>1, <2>2, IdleBox
    <3>4. For("config") \in Jobs /\ For("config").kind = "config" /\ For("config").fails = FALSE
      BY JobOf DEF For, Idle
    <3>5. CASE job' = [For("config") EXCEPT !.at = "close"]
      <4>1. job'.at = "close" /\ job'.fails = FALSE /\ job'.kind = "config" /\ job' \in Jobs
        BY <3>4, <3>5 DEF Jobs, Building
      <4>2. Place' /\ Knows'
        BY <1>1, <2>2, <3>3, <4>1 DEF Place, Knows, Hot, Undoing, OfRelay, Delta
      <4>3. Undone'
        BY <1>1, <2>2, <3>2, <3>3, <4>1, RelayAccounts DEF Undone, Agree
      <4>4. QED
        BY <4>1, <4>2, <4>3 DEF OpInv
    <3>6. CASE c = box.config /\ Creds(want'.users) = Creds(books) /\ job' = [For("config") EXCEPT !.at = "route", !.users = want'.users]
      <4>1. job'.at = "route" /\ job'.users = want'.users /\ job'.kind = "config" /\ job' \in Jobs
        BY <1>2, <3>4, <3>6 DEF Jobs, Hot
      <4>2. Place' /\ Knows' /\ Undone'
        BY <1>1, <1>2, <2>2, <3>2, <3>3, <3>6, <4>1 DEF Place, Knows, Undone, IsAsked, Hot, Undoing, OfRelay, Delta
      <4>3. QED
        BY <4>1, <4>2 DEF OpInv
    <3>7. CASE job' = BoxStart(For("config"), c, want'.users)
      <4>1. job' \in Jobs
        BY <1>2, <3>4, <3>7, StartedJob
      <4>2. job'.at \in {"build", "failed"} /\ job'.kind = "config" /\ (job'.at = "build" => job'.config = c /\ job'.users = want'.users)
        BY <3>7 DEF BoxStart, For, Idle
      <4>3. Place' /\ Knows' /\ Undone'
        BY <1>1, <1>2, <2>2, <3>2, <3>3, <4>2 DEF Place, Knows, Undone, IsAsked, Hot, Undoing, OfRelay, Delta
      <4>4. QED
        BY <4>1, <4>3 DEF OpInv
    <3>8. QED
      BY <3>1, <3>5, <3>6, <3>7
  <2>3. QED
    BY <2>1, <2>2
<1>4. QED
  BY <1>1, <1>2, <1>3 DEF Types

LEMMA TellUsersKeeps == ASSUME IInv, TellUsers PROVE Types' /\ OpInv'
<1>1. PICK l \in BoxUserSets :
        /\ want' = [want EXCEPT !.users = l] /\ job.at = "idle" /\ UNCHANGED <<box, books, client>>
        /\ job' = IfUp(For("users"), want', BoxUpdateUsers(For("users"), l))
  BY Zenon DEF TellUsers, Tell
<1>2. want' \in [config : ConfigNames, users : SUBSET Users] /\ want'.config = want.config /\ want'.users = l /\ l \in SUBSET Users
  BY <1>1 DEF IInv, Types, Users
<1>3. job' \in Jobs /\ OpInv'
  <2>1. CASE ~box.up
    BY <1>1, <1>2, <2>1, ShutHand DEF IInv
  <2>2. CASE box.up
    <3>1. job' = BoxUpdateUsers(For("users"), l)
      BY <1>1, <2>2 DEF IfUp
    <3>2. QED
      BY <1>1, <1>2, <2>2, <3>1, IdleBox, UpdateHand DEF IInv
  <2>3. QED
    BY <2>1, <2>2
<1>4. QED
  BY <1>1, <1>2, <1>3 DEF IInv, Types

LEMMA TellAddKeeps == ASSUME IInv, TellAdd PROVE Types' /\ OpInv'
<1>1. PICK delta \in BoxUserSets : \E kind \in {"users", "add"} :
        /\ want' = [want EXCEPT !.users = MergeUsers(want.users, delta)]
        /\ job.at = "idle" /\ UNCHANGED <<box, books, client>>
        /\ kind = "add" => ~HasUUIDChange(want.users, delta)
        /\ job' = IfUp(For(kind), want', IF kind = "users" THEN BoxUpdateUsers(For(kind), want'.users)
                                                           ELSE BoxAddUsers(For(kind), delta))
  BY SMT DEF TellAdd, Tell
<1>2. PICK kind \in {"users", "add"} :
        /\ kind = "add" => ~HasUUIDChange(want.users, delta)
        /\ job' = IfUp(For(kind), want', IF kind = "users" THEN BoxUpdateUsers(For(kind), want'.users)
                                                           ELSE BoxAddUsers(For(kind), delta))
  BY <1>1
<1>3. want.users \in SUBSET Users /\ want \in [config : ConfigNames, users : SUBSET Users] /\ books \in SUBSET Users
  BY DEF IInv, Types
<1>4. MergeUsers(want.users, delta) \in SUBSET Users /\ books \cup {u \in delta : u.id \notin KnownIds(books)} \in SUBSET Users
  BY <1>3, ListsOfUsers
<1>5. want' \in [config : ConfigNames, users : SUBSET Users] /\ want'.config = want.config
      /\ want'.users = MergeUsers(want.users, delta)
  BY <1>1, <1>3, <1>4
<1>6. job' \in Jobs /\ OpInv'
  <2>1. CASE ~box.up
    BY <1>1, <1>2, <1>5, <2>1, ShutHand DEF IInv
  <2>2. CASE box.up /\ kind = "users"
    <3>1. job' = BoxUpdateUsers(For("users"), want'.users)
      BY <1>2, <2>2 DEF IfUp
    <3>2. QED
      BY <1>1, <1>5, <2>2, <3>1, IdleBox, UpdateHand DEF IInv
  <2>3. CASE box.up /\ kind = "add"
    <3> DEFINE new == {u \in delta : u.id \notin KnownIds(books)}
    <3>1. Creds(books \cup new) = Creds(want'.users)
      <4>1. Creds(books) = Creds(want.users)
        BY <1>1, <2>3, IdleBox
      <4>2. QED
        BY <1>2, <1>5, <2>3, <4>1, MergeAddsNew
    <3>2. job' = IF new = {} THEN Idle ELSE Swap(For("add"), books \cup new)
      BY <1>2, <2>3 DEF IfUp, BoxAddUsers
    <3>3. CASE new = {}
      <4>1. books \cup new = books
        BY <3>3
      <4>2. Creds(books) = Creds(want'.users)
        BY <3>1, <4>1
      <4>3. QED
        BY <1>1, <1>5, <2>3, <3>2, <3>3, <4>2, IdleBox, IdleHand DEF IInv
    <3>4. CASE new # {}
      <4>1. job' = Swap(For("add"), books \cup new)
        BY <3>2, <3>4
      <4>2. books \cup new \in SUBSET Users
        BY <1>4
      <4> HIDE DEF new
      <4>3. QED
        BY <1>1, <1>5, <2>3, <3>1, <4>1, <4>2, IdleBox, SwapHand DEF IInv
    <3>5. QED
      BY <3>3, <3>4
  <2>4. QED
    BY <2>1, <2>2, <2>3
<1>7. QED
  BY <1>1, <1>5, <1>6 DEF IInv, Types

LEMMA TellRemoveKeeps == ASSUME IInv, TellRemove PROVE Types' /\ OpInv'
<1>1. PICK delta \in BoxUserSets :
        /\ want' = [want EXCEPT !.users = SubtractUsers(want.users, delta)]
        /\ job.at = "idle" /\ UNCHANGED <<box, books, client>>
        /\ job' = IfUp(For("remove"), want', BoxRemoveUsers(For("remove"), delta))
  BY SMT DEF TellRemove, Tell
<1>2. want.users \in SUBSET Users /\ want \in [config : ConfigNames, users : SUBSET Users] /\ books \in SUBSET Users
  BY DEF IInv, Types
<1>3. SubtractUsers(want.users, delta) \in SUBSET Users /\ SubtractUsers(books, delta) \in SUBSET Users
  BY <1>2, ListsOfUsers
<1>4. want' \in [config : ConfigNames, users : SUBSET Users] /\ want'.config = want.config
      /\ want'.users = SubtractUsers(want.users, delta)
  BY <1>1, <1>2, <1>3
<1>5. job' \in Jobs /\ OpInv'
  <2>1. CASE ~box.up
    BY <1>1, <1>4, <2>1, ShutHand DEF IInv
  <2>2. CASE box.up
    <3> DEFINE kept == SubtractUsers(books, delta)
    <3>1. Creds(kept) = Creds(want'.users)
      BY <1>1, <1>4, <2>2, IdleBox, SubtractSame
    <3>2. job' = IF kept = books THEN Idle ELSE Swap(For("remove"), kept)
      BY <1>1, <2>2 DEF IfUp, BoxRemoveUsers
    <3>3. kept \in SUBSET Users
      BY <1>3
    <3> HIDE DEF kept
    <3>4. CASE kept = books
      BY <1>1, <1>4, <2>2, <3>1, <3>2, <3>4, IdleBox, IdleHand DEF IInv
    <3>5. CASE kept # books
      BY <1>1, <1>4, <2>2, <3>1, <3>2, <3>3, <3>5, IdleBox, SwapHand DEF IInv
    <3>6. QED
      BY <3>4, <3>5
  <2>3. QED
    BY <2>1, <2>2
<1>6. QED
  BY <1>1, <1>4, <1>5 DEF IInv, Types

---------------------------------------------------------------------------
(* The steps of an operation *)

\* What a list's accounts may be, and that they depend on the configuration alone.
LEMMA AccountsTyped == \A l \in SUBSET Users : Accounts(l) \subseteq AllCreds /\ Creds(l) \subseteq AllCreds
  BY CredsOfUsers DEF Accounts, PanelUsers

LEMMA SameConfig ==
  ASSUME box'.config = box.config
  PROVE  (Relay' <=> Relay) /\ \A l : Accounts(l)' = Accounts(l)
  BY DEF Relay, Accounts, PanelUsers

LEMMA BothIsUnion == Creds(books \cup job.users) = Both
  BY CredsOfUnion DEF Both

LEMMA ClosedKeeps ==
  ASSUME IInv, Construct \/ CloseSockets \/ CloseBox \/ BootBox
  PROVE  Types' /\ OpInv'
<1> USE DEF IInv
<1>1. CASE Construct
  <2>1. Types'
    BY <1>1 DEF Construct, Types, Jobs, Building
  <2>2. Place' /\ Knows'
    BY <1>1 DEF Construct, Types, Jobs, Place, Knows, Agree, Accounts, PanelUsers, Relay, IsAsked, Hot, Undoing, OfRelay, Delta
  <2>3. Undone'
    BY <1>1, RelayAccounts DEF Construct, Types, Jobs, Place, Knows, Undone, Agree, NoBox, Relay
  <2>4. QED
    BY <2>1, <2>2, <2>3 DEF OpInv
<1>2. CASE CloseSockets
  <2>1. job'.at = "drain" /\ job' = [job EXCEPT !.at = "drain"] /\ box' = [box EXCEPT !.open = FALSE] /\ UNCHANGED <<books, want, client>>
    BY <1>2 DEF CloseSockets, Types, Jobs
  <2>2. Types'
    BY <2>1 DEF Types, Jobs, Building, Boxes
  <2>3. Place'
    <3>1. box'.up \/ box' = NoBox
      <4>1. CASE box.up
        BY <2>1, <4>1 DEF Types, Boxes
      <4>2. CASE box = NoBox
        BY <2>1, <4>2 DEF NoBox
      <4>3. QED
        BY <4>1, <4>2 DEF Place
    <3>2. QED
      BY <1>2, <2>1, <3>1 DEF CloseSockets, Types, Jobs, Boxes, Place, IsAsked, Hot, Undoing, OfRelay, Delta
  <2>4. Knows'
    BY <2>1 DEF Knows
  <2>5. Undone'
    BY <1>2, <2>1 DEF CloseSockets, Types, Boxes, Undone, Relay
  <2>6. QED
    BY <2>2, <2>3, <2>4, <2>5 DEF OpInv
<1>3. CASE CloseBox
  <2>1. box' = NoBox /\ UNCHANGED <<books, want>> /\ client' = [c \in Clients |-> Nobody] /\ job.at = "drain"
        /\ job' = IF job.fails THEN [job EXCEPT !.at = "boot"] ELSE Idle
    BY <1>3 DEF CloseBox
  <2>2. Types'
    BY <2>1 DEF Types, Jobs, Building, Boxes, NoBox, Nobody, Sessions, Idle, ConfigNames
  <2>3. Place'
    BY <2>1 DEF Types, Jobs, Place, NoBox, Idle, IsAsked, Hot, Undoing, OfRelay, Delta
  <2>4. Knows' /\ Undone'
    BY <2>1 DEF Types, Jobs, Knows, Undone, NoBox, Idle
  <2>5. QED
    BY <2>2, <2>3, <2>4 DEF OpInv
<1>4. CASE BootBox
  <2>1. job.at = "boot" /\ UNCHANGED <<want, client>> /\ job \in Jobs /\ ~box.up
    BY <1>4 DEF BootBox, Types, Place
  <2>2. CASE /\ box' = [up |-> TRUE, open |-> TRUE, config |-> job.config, auth |-> PanelUsers(job.config, job.users),
                        rules |-> Creds(job.users), tracker |-> PanelUsers(job.config, job.users)]
             /\ books' = job.users /\ job' = Idle
    <3>1. job.config = want.config /\ IsAsked /\ job.users \in SUBSET Users /\ job.config \in ConfigNames
      BY <2>1 DEF Place, Jobs
    <3>2. box' \in Boxes
      BY <2>2, <3>1, CredsOfUsers DEF Boxes, PanelUsers
    <3>3. Types'
      BY <2>1, <2>2, <3>1, <3>2 DEF Types, Idle, Jobs, ConfigNames
    <3>4. job'.at = "idle" /\ job'.kind = "none"
      BY <2>2 DEF Idle
    <3>5. Place' /\ Undone'
      BY <2>2, <3>4 DEF Place, Undone, Hot, Undoing, OfRelay
    <3>6. Knows'
      BY <2>1, <2>2, <3>1, <3>4 DEF Knows, Agree, Accounts, IsAsked
    <3>7. QED
      BY <3>3, <3>5, <3>6 DEF OpInv
  <2>3. CASE UNCHANGED <<box, books>> /\ job' = BoxFails(job)
    <3>1. job' \in Jobs /\ job'.at = "failed"
      BY <2>1, <2>3 DEF BoxFails, Jobs
    <3>2. QED
      BY <2>1, <2>3, <3>1 DEF Types, OpInv, Place, Knows, Undone, Hot, Undoing, OfRelay
  <2>4. QED
    BY <1>4, <2>2, <2>3 DEF BootBox
<1>5. QED
  BY <1>1, <1>2, <1>3, <1>4

LEMMA RulesKeep == ASSUME IInv, UpdateRules PROVE Types' /\ OpInv'
<1>1. job.at = "route" /\ UNCHANGED <<box, books, want, client>> /\ job \in Jobs
  BY DEF IInv, UpdateRules, Types
<1>2. PICK at \in {"map", "failed"} : job' = [job EXCEPT !.at = at]
  BY DEF UpdateRules, BoxFails
<1>3. job' \in Jobs /\ job'.at = at /\ job'.users = job.users /\ job'.kind = job.kind
  BY <1>1, <1>2 DEF Jobs, Hot
<1>4. Agree(books)' <=> Agree(books)
  BY <1>1 DEF Agree, Accounts, PanelUsers, Relay
<1>5. OpInv'
  BY <1>1, <1>3, <1>4 DEF IInv, OpInv, Place, Knows, Undone, IsAsked, Hot, Undoing, OfRelay, Building, Delta
<1>6. QED
  BY <1>1, <1>3, <1>5 DEF IInv, Types

LEMMA MapKeeps == ASSUME IInv, UpdateMap PROVE Types' /\ OpInv'
<1>1. /\ job.at = "map" /\ box' = [box EXCEPT !.tracker = Accounts(job.users)]
      /\ books' = job.users /\ job' = Idle /\ UNCHANGED <<want, client>> /\ job \in Jobs /\ box \in Boxes
  BY DEF IInv, UpdateMap, SetNodeUsers, Types
<1>2. job.users \in SUBSET Users
  BY <1>1 DEF Jobs
<1>3. /\ box'.up = box.up /\ box'.open = box.open /\ box'.config = box.config
      /\ box'.auth = box.auth /\ box'.rules = box.rules /\ box'.tracker = Accounts(job.users)
  BY <1>1 DEF Boxes
<1>4. job'.at = "idle" /\ job'.kind = "none" /\ Idle \in Jobs
  BY <1>1 DEF Idle, Jobs, ConfigNames
<1>5. Types'
  <2>1. box' \in Boxes
    BY <1>1, <1>2, AccountsTyped DEF Boxes
  <2>2. QED
    BY <1>1, <1>2, <1>4, <2>1 DEF IInv, Types
<1>6. Place' /\ Undone'
  BY <1>1, <1>3, <1>4 DEF IInv, Place, Undone, Hot, Undoing, OfRelay
<1>7. Knows'
  <2>1. box.up /\ box.config = want.config /\ IsAsked /\ Agree(books) /\ Creds(job.users) = Creds(books)
    BY <1>1 DEF IInv, Place, Knows, Hot
  <2>2. Accounts(job.users) = Accounts(books)
    BY <2>1, AccountsFollow
  <2>3. Agree(books)'
    <3>1. Accounts(books)' = Accounts(job.users) /\ (Relay' <=> Relay)
      BY <1>1, <1>3 DEF Accounts, Relay
    <3>2. Creds(books)' = Creds(books)
      BY <1>1, <2>1
    <3>3. QED
      BY <1>3, <2>1, <2>2, <3>1, <3>2 DEF Agree
  <2>4. QED
    BY <1>1, <1>3, <1>4, <2>1, <2>3 DEF Knows, IsAsked, Hot
<1>8. QED
  BY <1>5, <1>6, <1>7 DEF OpInv

\* The stage after which only one field of the box has changed.
LEMMA PrepareKeeps == ASSUME IInv, Prepare PROVE Types' /\ OpInv'
<1>1. job.at = "prepare" /\ UNCHANGED <<books, want, client>> /\ job \in Jobs /\ box \in Boxes /\ Relay
      /\ job.users \in SUBSET Users /\ books \in SUBSET Users
  BY DEF IInv, Prepare, Types, Place, OfRelay, Jobs
<1>2. box.up /\ box.open /\ box.config = want.config /\ IsAsked /\ Agree(books)
  BY <1>1 DEF IInv, Place, Knows, Hot
<1>3. CASE box' = [box EXCEPT !.rules = Creds(books \cup job.users)] /\ job' = [job EXCEPT !.at = "admit"]
  <2>1. job' \in Jobs /\ job'.at = "admit" /\ job'.users = job.users
    BY <1>1, <1>3 DEF Jobs, Hot
  <2>2. /\ box'.up = box.up /\ box'.open = box.open /\ box'.config = box.config
        /\ box'.auth = box.auth /\ box'.rules = Both /\ box'.tracker = box.tracker
    BY <1>1, <1>3, BothIsUnion DEF Boxes
  <2>3. Types'
    <3>1. Creds(books \cup job.users) \subseteq AllCreds
      BY <1>1, CredsOfUsers
    <3>2. box' \in Boxes
      BY <1>1, <1>3, <3>1 DEF Boxes
    <3>3. QED
      BY <1>1, <2>1, <3>2 DEF IInv, Types
  <2>4. Place' /\ Undone'
    BY <1>1, <1>2, <2>1, <2>2 DEF Place, Undone, IsAsked, Hot, Undoing, OfRelay, Relay
  <2>5. Knows'
    BY <1>1, <1>2, <2>1, <2>2, RelayAccounts DEF Knows, Agree, Both
  <2>6. QED
    BY <2>3, <2>4, <2>5 DEF OpInv
<1>4. CASE UNCHANGED box /\ job' = BoxFails(job)
  <2>1. job' \in Jobs /\ job'.at = "failed" /\ job'.kind = job.kind
    BY <1>1, <1>4 DEF BoxFails, Jobs
  <2>2. Agree(books)'
    BY <1>1, <1>2, <1>4 DEF Agree, Accounts, Relay
  <2>3. QED
    BY <1>1, <1>2, <1>4, <2>1, <2>2 DEF IInv, Types, OpInv, Place, Knows, Undone, Hot, Undoing, OfRelay
<1>5. QED
  BY <1>3, <1>4 DEF Prepare

LEMMA AdmitKeeps == ASSUME IInv, Admit PROVE Types' /\ OpInv'
<1>1. job.at = "admit" /\ UNCHANGED <<books, want, client>> /\ job \in Jobs /\ box \in Boxes /\ Relay
      /\ job.users \in SUBSET Users /\ books \in SUBSET Users /\ job' = [job EXCEPT !.at = "switch"]
      /\ box' = [box EXCEPT !.tracker = Accounts(books \cup job.users)]
  BY DEF IInv, Admit, SetNodeUsers, Types, Place, OfRelay, Jobs
<1>2. box.up /\ box.open /\ box.config = want.config /\ IsAsked /\ box.auth = Creds(books) /\ box.rules = Both
  BY <1>1 DEF IInv, Place, Knows, Hot
<1>3. job' \in Jobs /\ job'.at = "switch" /\ job'.users = job.users
  BY <1>1 DEF Jobs, Hot
<1>4. /\ box'.up = box.up /\ box'.open = box.open /\ box'.config = box.config
      /\ box'.auth = box.auth /\ box'.rules = box.rules /\ box'.tracker = Both
  BY <1>1, BothIsUnion, RelayAccounts DEF Boxes
<1>5. Types'
  <2>1. box' \in Boxes
    BY <1>1, AccountsTyped DEF Boxes
  <2>2. QED
    BY <1>1, <1>3, <2>1 DEF IInv, Types
<1>6. Place' /\ Undone'
  BY <1>1, <1>2, <1>3, <1>4 DEF Place, Undone, IsAsked, Hot, Undoing, OfRelay, Relay
<1>7. Knows'
  BY <1>1, <1>2, <1>3, <1>4, SameConfig DEF Knows, Both
<1>8. QED
  BY <1>5, <1>6, <1>7 DEF OpInv

LEMMA SwitchKeeps == ASSUME IInv, Switch PROVE Types' /\ OpInv'
<1>1. job.at = "switch" /\ UNCHANGED <<books, want, client>> /\ job \in Jobs /\ box \in Boxes
      /\ job.users \in SUBSET Users /\ books \in SUBSET Users
  BY DEF IInv, Switch, Types, Jobs
<1>2. /\ box.up /\ box.open /\ box.config = want.config /\ IsAsked
      /\ ~Relay /\ Creds(books) = Creds(want.users) => Agree(books)
      /\ Relay => box.auth = Creds(books) /\ box.rules = Both /\ box.tracker = Both
  BY <1>1 DEF IInv, Place, Knows, Hot
<1>3. PICK done \in BOOLEAN, auth \in {box.auth, Accounts(job.users)} :
        /\ done => auth = Accounts(job.users)
        /\ box' = [box EXCEPT !.auth = auth]
        /\ job' = IF done THEN [job EXCEPT !.at = "revoke"] ELSE SwitchFails
  BY DEF Switch
<1>4. /\ box'.up = box.up /\ box'.open = box.open /\ box'.config = box.config
      /\ box'.auth = auth /\ box'.rules = box.rules /\ box'.tracker = box.tracker /\ box' \in Boxes
  BY <1>1, <1>3, AccountsTyped DEF Boxes
<1>5. (Relay' <=> Relay) /\ \A l : Accounts(l)' = Accounts(l)
  BY <1>4, SameConfig
<1>6. CASE done
  <2>1. job' \in Jobs /\ job'.at = "revoke" /\ job'.users = job.users
    BY <1>1, <1>3, <1>6 DEF Jobs, Hot
  <2>2. Types' /\ Place' /\ Undone'
    BY <1>1, <1>2, <1>4, <2>1 DEF IInv, Types, Place, Undone, IsAsked, Hot, Undoing, OfRelay
  <2>3. Accounts(job.users)' = Accounts(job.users)
    BY <1>4, <2>1 DEF Accounts
  <2>4. Knows'
    BY <1>1, <1>2, <1>3, <1>4, <1>5, <1>6, <2>1, <2>3 DEF Knows, Both
  <2>5. QED
    BY <2>2, <2>4 DEF OpInv
<1>7. CASE ~done /\ Relay
  <2>1. job' \in Jobs /\ job'.at = "undo" /\ job'.kind = job.kind
    BY <1>1, <1>3, <1>7 DEF SwitchFails, Jobs, Undoing
  <2>2. Types' /\ Place'
    BY <1>1, <1>2, <1>4, <1>5, <1>7, <2>1 DEF IInv, Types, Place, Hot, Undoing, OfRelay
  <2>3. Knows' /\ Undone'
    BY <1>1, <1>2, <1>4, <1>7, <2>1 DEF Knows, Undone, Both
  <2>4. QED
    BY <2>2, <2>3 DEF OpInv
<1>8. CASE ~done /\ ~Relay
  <2>1. job' \in Jobs /\ job'.at = "failed" /\ job'.kind = job.kind
    BY <1>1, <1>3, <1>8 DEF SwitchFails, Jobs
  <2>2. Types' /\ Place' /\ Undone'
    BY <1>1, <1>2, <1>4, <2>1 DEF IInv, Types, Place, Undone, Hot, Undoing, OfRelay
  <2>3. Knows'
    <3>1. SUFFICES ASSUME Creds(books) = Creds(want.users) PROVE Agree(books)'
      BY <1>1, <1>5, <1>8, <2>1 DEF Knows
    <3>2. Agree(books) /\ Accounts(job.users) = Accounts(books)
      BY <1>2, <1>8, <3>1, AccountsFollow DEF IsAsked
    <3>3. auth = Accounts(books)
      BY <1>3, <3>2 DEF Agree
    <3>4. Accounts(books)' = Accounts(books)
      BY <1>1, <1>4 DEF Accounts
    <3>5. QED
      BY <1>4, <1>5, <1>8, <3>2, <3>3, <3>4 DEF Agree
  <2>4. QED
    BY <2>2, <2>3 DEF OpInv
<1>9. QED
  BY <1>6, <1>7, <1>8

LEMMA RevokeKeeps == ASSUME IInv, Revoke PROVE Types' /\ OpInv'
<1>1. job.at = "revoke" /\ UNCHANGED <<want, client>> /\ job \in Jobs /\ box \in Boxes
      /\ job.users \in SUBSET Users /\ books \in SUBSET Users
      /\ box' = [box EXCEPT !.tracker = Accounts(job.users)]
  BY DEF IInv, Revoke, SetNodeUsers, Types, Jobs
<1>2. /\ box.up /\ box.open /\ box.config = want.config /\ IsAsked
      /\ box.auth = Accounts(job.users) /\ (Relay => box.rules = Both /\ box.tracker = Both)
  BY <1>1 DEF IInv, Place, Knows, Hot
<1>3. /\ box'.up = box.up /\ box'.open = box.open /\ box'.config = box.config
      /\ box'.auth = box.auth /\ box'.rules = box.rules /\ box'.tracker = Accounts(job.users) /\ box' \in Boxes
  BY <1>1, AccountsTyped DEF Boxes
<1>4. Relay' <=> Relay
  BY <1>3, SameConfig
<1>5. CASE Relay
  <2>1. job' = [job EXCEPT !.at = "finish"] /\ books' = books
    BY <1>5 DEF Revoke
  <2>2. job' \in Jobs /\ job'.at = "finish" /\ job'.users = job.users
    BY <1>1, <2>1 DEF Jobs, Hot
  <2>3. Types' /\ Place' /\ Undone'
    BY <1>1, <1>2, <1>3, <1>4, <1>5, <2>1, <2>2 DEF IInv, Types, Place, Undone, IsAsked, Hot, Undoing, OfRelay
  <2>4. Knows'
    BY <1>2, <1>3, <1>5, <2>1, <2>2, RelayAccounts DEF Knows, Both
  <2>5. QED
    BY <2>3, <2>4 DEF OpInv
<1>6. CASE ~Relay
  <2>0. job' = Idle /\ books' = job.users
    BY <1>6 DEF Revoke
  <2>1. job' = Idle /\ books' = job.users /\ job'.at = "idle" /\ job'.kind = "none" /\ job' \in Jobs
    BY <2>0 DEF Idle, Jobs, ConfigNames
  <2>2. Types' /\ Place' /\ Undone'
    BY <1>1, <1>2, <1>3, <2>1 DEF IInv, Types, Place, Undone, Hot, Undoing, OfRelay
  <2>3. Accounts(books)' = Accounts(job.users)
    BY <1>3, <2>1 DEF Accounts
  <2>4. Agree(books)'
    BY <1>2, <1>3, <1>4, <1>6, <2>3 DEF Agree
  <2>5. Knows'
    BY <1>1, <1>2, <1>3, <2>1, <2>4 DEF Knows, IsAsked
  <2>6. QED
    BY <2>2, <2>5 DEF OpInv
<1>7. QED
  BY <1>5, <1>6

LEMMA FinishKeeps == ASSUME IInv, Finish PROVE Types' /\ OpInv'
<1>1. job.at = "finish" /\ UNCHANGED <<want, client>> /\ job \in Jobs /\ box \in Boxes /\ Relay
      /\ job.users \in SUBSET Users /\ books \in SUBSET Users
  BY DEF IInv, Finish, Types, Jobs, Place, OfRelay
<1>2. /\ box.up /\ box.open /\ box.config = want.config /\ IsAsked
      /\ box.auth = Creds(job.users) /\ box.rules = Both /\ box.tracker = Creds(job.users)
  BY <1>1 DEF IInv, Place, Knows, Hot
<1>3. CASE box' = [box EXCEPT !.rules = Creds(job.users)] /\ books' = job.users /\ job' = Idle
  <2>1. /\ box'.up = box.up /\ box'.open = box.open /\ box'.config = box.config
        /\ box'.auth = box.auth /\ box'.rules = Creds(job.users) /\ box'.tracker = box.tracker /\ box' \in Boxes
    BY <1>1, <1>3, CredsOfUsers DEF Boxes
  <2>2. job'.at = "idle" /\ job'.kind = "none" /\ job' \in Jobs
    BY <1>3 DEF Idle, Jobs, ConfigNames
  <2>3. Types' /\ Place' /\ Undone'
    BY <1>1, <1>2, <1>3, <2>1, <2>2 DEF IInv, Types, Place, Undone, Hot, Undoing, OfRelay
  <2>4. Accounts(books)' = Creds(job.users)
    <3>1. Accounts(books)' = Accounts(job.users)
      BY <1>3, <2>1 DEF Accounts
    <3>2. QED
      BY <1>1, <3>1, RelayAccounts
  <2>5. Creds(books)' = Creds(job.users)
    BY <1>3
  <2>6. Agree(books)'
    BY <1>2, <2>1, <2>4, <2>5 DEF Agree
  <2>7. Knows'
    BY <1>1, <1>2, <1>3, <2>1, <2>2, <2>6 DEF Knows, IsAsked
  <2>8. QED
    BY <2>3, <2>7 DEF OpInv
<1>4. CASE UNCHANGED <<box, books>> /\ job' = [job EXCEPT !.at = "undo", !.fails = FALSE]
  <2>1. job'.at = "undo" /\ job'.kind = job.kind /\ job' \in Jobs
    BY <1>1, <1>4 DEF Jobs, Undoing
  <2>2. Types' /\ Place'
    BY <1>1, <1>2, <1>4, <2>1 DEF IInv, Types, Place, Hot, Undoing, OfRelay, Relay
  <2>3. Knows' /\ Undone'
    BY <1>2, <1>4, <2>1 DEF Knows, Undone, Both
  <2>4. QED
    BY <2>2, <2>3 DEF OpInv
<1>5. QED
  BY <1>3, <1>4 DEF Finish

LEMMA UndoSwitchKeeps == ASSUME IInv, UndoSwitch PROVE Types' /\ OpInv'
<1>1. job.at = "undo" /\ UNCHANGED <<books, want, client>> /\ job \in Jobs /\ box \in Boxes /\ Relay
      /\ books \in SUBSET Users
  BY DEF IInv, UndoSwitch, Types, Place, OfRelay, Undoing
<1>2. /\ box.up /\ box.open /\ box.config = want.config
      /\ Creds(books) \subseteq box.rules /\ box.tracker \subseteq box.rules
  BY <1>1 DEF IInv, Place, Undone, Undoing
<1>3. PICK done \in BOOLEAN, auth \in {box.auth, Creds(books)} :
        /\ done => auth = Creds(books)
        /\ box' = [box EXCEPT !.auth = auth]
        /\ job' = [job EXCEPT !.at = "undoRules", !.fails = ~done]
  BY DEF UndoSwitch
<1>4. /\ box'.up = box.up /\ box'.open = box.open /\ box'.config = box.config
      /\ box'.auth = auth /\ box'.rules = box.rules /\ box'.tracker = box.tracker /\ box' \in Boxes
  BY <1>1, <1>3, CredsOfUsers DEF Boxes
<1>5. job'.at = "undoRules" /\ job'.fails = ~done /\ job' \in Jobs
  BY <1>1, <1>3 DEF Jobs, Undoing
<1>6. Types' /\ Place'
  BY <1>1, <1>2, <1>4, <1>5 DEF IInv, Types, Place, Hot, Undoing, OfRelay, Relay
<1>7. Knows' /\ Undone'
  BY <1>1, <1>2, <1>3, <1>4, <1>5 DEF Knows, Undone
<1>8. QED
  BY <1>6, <1>7 DEF OpInv

LEMMA UndoRulesKeeps == ASSUME IInv, UndoRules PROVE Types' /\ OpInv'
<1>1. job.at = "undoRules" /\ UNCHANGED <<books, want, client>> /\ job \in Jobs /\ box \in Boxes /\ Relay
      /\ books \in SUBSET Users
  BY DEF IInv, UndoRules, Types, Place, OfRelay, Undoing
<1>2. /\ box.up /\ box.open /\ box.config = want.config /\ Creds(books) \subseteq box.rules
      /\ ~job.fails => box.auth = Creds(books)
  BY <1>1 DEF IInv, Place, Undone, Undoing
<1>3. PICK done \in BOOLEAN :
        /\ box' = IF done THEN [box EXCEPT !.rules = Creds(books)] ELSE box
        /\ job' = [job EXCEPT !.at = "undoMap", !.fails = job.fails \/ ~done]
  BY DEF UndoRules
<1>4. /\ box'.up = box.up /\ box'.open = box.open /\ box'.config = box.config /\ box'.auth = box.auth
      /\ box'.tracker = box.tracker /\ box' \in Boxes
      /\ box'.rules = IF done THEN Creds(books) ELSE box.rules
  BY <1>1, <1>3, CredsOfUsers DEF Boxes
<1>5. job'.at = "undoMap" /\ job'.fails = (job.fails \/ ~done) /\ job' \in Jobs
  BY <1>1, <1>3 DEF Jobs, Undoing
<1>6. Types' /\ Place'
  BY <1>1, <1>2, <1>4, <1>5 DEF IInv, Types, Place, Hot, Undoing, OfRelay, Relay
<1>7. Knows' /\ Undone'
  BY <1>1, <1>2, <1>3, <1>4, <1>5 DEF Knows, Undone
<1>8. QED
  BY <1>6, <1>7 DEF OpInv

LEMMA UndoMapKeeps == ASSUME IInv, UndoMap PROVE Types' /\ OpInv'
<1>1. job.at = "undoMap" /\ UNCHANGED <<books, want, client>> /\ job \in Jobs /\ box \in Boxes /\ Relay
      /\ books \in SUBSET Users /\ box' = [box EXCEPT !.tracker = Accounts(books)]
      /\ job' = [job EXCEPT !.at = IF job.fails THEN "undoClose" ELSE "failed"]
  BY DEF IInv, UndoMap, SetNodeUsers, Types, Place, OfRelay, Undoing
<1>2. /\ box.up /\ box.open /\ box.config = want.config /\ Creds(books) \subseteq box.rules
      /\ ~job.fails => box.auth = Creds(books) /\ box.rules = Creds(books)
  BY <1>1 DEF IInv, Place, Undone, Undoing
<1>3. Accounts(books) = Creds(books)
  BY <1>1, RelayAccounts
<1>4. /\ box'.up = box.up /\ box'.open = box.open /\ box'.config = box.config /\ box'.auth = box.auth
      /\ box'.rules = box.rules /\ box'.tracker = Creds(books) /\ box' \in Boxes
  BY <1>1, <1>3, CredsOfUsers DEF Boxes
<1>5. job'.at = (IF job.fails THEN "undoClose" ELSE "failed") /\ job'.kind = job.kind /\ job' \in Jobs
  BY <1>1 DEF Jobs, Undoing
<1>6. Types' /\ Place' /\ Undone'
  BY <1>1, <1>2, <1>4, <1>5 DEF IInv, Types, Place, Undone, Hot, Undoing, OfRelay, Relay
<1>7. Knows'
  <2>1. (Relay' <=> Relay) /\ Accounts(books)' = Accounts(books)
    BY <1>1, <1>4 DEF Relay, Accounts
  <2>2. ~job.fails => Agree(books)'
    BY <1>1, <1>2, <1>3, <1>4, <2>1 DEF Agree
  <2>3. QED
    BY <1>5, <2>2 DEF Knows
<1>8. QED
  BY <1>6, <1>7 DEF OpInv

LEMMA UndoCloseKeeps == ASSUME IInv, UndoClose PROVE Types' /\ OpInv'
<1>1. box' = NoBox /\ job' = [job EXCEPT !.at = "failed"] /\ UNCHANGED <<books, want>>
      /\ client' = [c \in Clients |-> Nobody] /\ job \in Jobs
  BY DEF IInv, UndoClose, BoxFails, Types
<1>2. job' \in Jobs /\ job'.at = "failed"
  BY <1>1 DEF Jobs
<1>3. Types'
  BY <1>1, <1>2 DEF IInv, Types, Boxes, NoBox, Nobody, Sessions, ConfigNames
<1>4. OpInv'
  BY <1>1, <1>2 DEF OpInv, Place, Knows, Undone, NoBox, Hot, Undoing, OfRelay
<1>5. QED
  BY <1>3, <1>4

LEMMA AnswerKeeps == ASSUME IInv, AnswerError PROVE Types' /\ OpInv'
<1>1. job.at = "failed" /\ UNCHANGED <<box, books, want, client>> /\ want.users \in SUBSET Users /\ Types /\ Place
  BY DEF IInv, AnswerError, Types
<1>2. job' \in Jobs /\ OpInv'
  <2>1. CASE Delta /\ box.up
    <3>1. job' = BoxUpdateUsers(For("users"), want.users)
      BY <2>1 DEF AnswerError, Delta
    <3>2. box.open /\ box.config = want.config
      BY <1>1, <2>1 DEF Place
    <3>3. Relay \/ Creds(books) = Creds(want.users) => Agree(books)
      BY <1>1, <2>1 DEF IInv, Knows
    <3>4. QED
      BY <1>1, <2>1, <3>1, <3>2, <3>3, UpdateHand
  <2>2. CASE Delta /\ ~box.up
    <3>1. job' = BoxFails(For("users"))
      BY <2>2 DEF AnswerError, Delta, BoxUpdateUsers, Swap
    <3>2. job'.at = "failed" /\ job' \in Jobs
      <4>1. For("users") \in Jobs
        BY JobOf
      <4>2. QED
        BY <3>1, <4>1 DEF BoxFails, Jobs
    <3>3. QED
      BY <1>1, <2>2, <3>2 DEF OpInv, Place, Knows, Undone, Hot, Undoing, OfRelay
  <2>3. CASE ~Delta /\ box.up
    <3>1. job' = [Idle EXCEPT !.at = "close"]
      BY <2>3 DEF AnswerError, Delta
    <3>2. job'.at = "close" /\ job'.kind = "none" /\ job'.fails = FALSE /\ job' \in Jobs
      BY <3>1 DEF Idle, Jobs, Building, ConfigNames
    <3>3. Relay => Agree(books)
      BY <1>1, <2>3 DEF IInv, Knows
    <3>4. Undone'
      BY <1>1, <3>2, <3>3, RelayAccounts DEF Undone, Agree, Relay
    <3>5. QED
      BY <1>1, <2>3, <3>2, <3>4 DEF OpInv, Place, Knows, Hot, Undoing, OfRelay, Delta
  <2>4. CASE ~Delta /\ ~box.up
    <3>1. job' = Idle
      BY <2>4 DEF AnswerError, Delta
    <3>2. QED
      BY <1>1, <2>4, <3>1, IdleHand
  <2>5. QED
    BY <2>1, <2>2, <2>3, <2>4
<1>3. QED
  BY <1>1, <1>2 DEF Types

---------------------------------------------------------------------------
(* Clients *)

\* Whatever the stage, but for the end of a rollback, whom the tracker knows the rules know.
LEMMA TrackedIsRouted ==
  ASSUME IInv, Relay, job.at # "undoMap"
  PROVE  box.tracker \subseteq box.rules
<1>1. job.at \in {"idle", "failed"} \cup Building \cup Hot \cup Undoing
  BY DEF IInv, Types, Jobs
<1>2. CASE ~box.up
  BY <1>2 DEF IInv, Place, NoBox
<1>3. CASE box.up
  <2>1. Agree(books) => box.tracker \subseteq box.rules
    BY RelayAccounts DEF Agree
  <2>2. CASE job.at \in {"idle", "failed", "build", "route", "map", "prepare"}
    BY <1>3, <2>1, <2>2 DEF IInv, Knows
  <2>3. CASE job.at \in {"admit", "switch", "revoke", "finish"}
    BY <2>3 DEF IInv, Knows, Both
  <2>4. CASE job.at \in {"close", "drain", "undo", "undoRules", "undoClose"}
    BY <2>4 DEF IInv, Undone
  <2>5. CASE job.at = "boot"
    BY <1>3, <2>5 DEF IInv, Place
  <2>6. QED
    BY <1>1, <2>2, <2>3, <2>4, <2>5 DEF Building, Hot, Undoing
<1>4. QED
  BY <1>2, <1>3

LEMMA ClientKeeps ==
  ASSUME IInv, NEW c \in Clients, Authenticate(c) \/ Leave(c) \/ Route(c) \/ Track(c) \/ Done(c)
  PROVE  IInv'
<1> USE DEF IInv
<1>1. UNCHANGED <<box, books, job, want>>
  BY DEF Authenticate, Leave, Route, Track, Done, Put
<1>2. PICK v : /\ client' = [client EXCEPT ![c] = v] /\ v \in Sessions
               /\ v.by = "default" => ~v.permitted
  <2>1. client[c] \in Sessions /\ (client[c].by = "default" => ~client[c].permitted)
    BY DEF Types, PermittedRouted
  <2>2. Nobody \in Sessions /\ Nobody.by = "none"
    BY DEF Nobody, Sessions
  <2>3. CASE Authenticate(c)
    <3>1. PICK cred \in box.auth, r \in (IF Relay THEN Routes ELSE {0}) :
             client' = [client EXCEPT ![c] = [Nobody EXCEPT !.at = "in", !.cred = cred, !.route = r]]
      BY <2>3 DEF Authenticate, Put
    <3>2. cred \in AllCreds
      BY DEF Types, Boxes
    <3> DEFINE v == [Nobody EXCEPT !.at = "in", !.cred = cred, !.route = r]
    <3>3. v \in Sessions /\ v.by = "none"
      BY <2>2, <3>2 DEF Sessions
    <3>4. client' = [client EXCEPT ![c] = v]
      BY <3>1
    <3> HIDE DEF v
    <3>5. QED
      BY <3>3, <3>4
  <2>4. CASE Leave(c)
    BY <2>2, <2>4 DEF Leave, Put
  <2>5. CASE Route(c)
    <3> DEFINE v == [client[c] EXCEPT !.at = "routed",
                         !.by = IF Relay /\ client[c].cred \notin box.rules THEN "default" ELSE "own",
                         !.permitted = client[c].cred \in box.tracker /\ job.at # "undoMap"]
    <3>1. client' = [client EXCEPT ![c] = v]
      BY <2>5 DEF Route, Put
    <3>2. v \in Sessions
      BY <2>1 DEF Sessions
    <3>3. v.by = "default" => ~v.permitted
      BY <2>1, TrackedIsRouted DEF Sessions
    <3> HIDE DEF v
    <3>4. QED
      BY <3>1, <3>2, <3>3
  <2>6. CASE Track(c)
    <3> DEFINE v == [client[c] EXCEPT !.at = IF Relay /\ client[c].cred \notin box.tracker THEN "in" ELSE "served"]
    <3>1. v \in Sessions /\ (v.by = "default" => ~v.permitted)
      BY <2>1 DEF Sessions
    <3>2. client' = [client EXCEPT ![c] = v]
      BY <2>6 DEF Track, Put
    <3> HIDE DEF v
    <3>3. QED
      BY <3>1, <3>2
  <2>7. CASE Done(c)
    <3> DEFINE v == [client[c] EXCEPT !.at = "in", !.by = "none", !.permitted = FALSE]
    <3>1. v \in Sessions /\ v.by = "none"
      BY <2>1 DEF Sessions
    <3>2. client' = [client EXCEPT ![c] = v]
      BY <2>7 DEF Done, Put
    <3> HIDE DEF v
    <3>3. QED
      BY <3>1, <3>2
  <2>8. QED
    BY <2>3, <2>4, <2>5, <2>6, <2>7
<1>3. Types' /\ PermittedRouted'
  BY <1>1, <1>2 DEF Types, PermittedRouted
<1>4. Place' /\ Knows' /\ Undone'
  BY <1>1 DEF Place, Knows, Undone, NoBox, Agree, Accounts, PanelUsers, Relay, IsAsked, Delta, Both
<1>5. QED
  BY <1>3, <1>4

---------------------------------------------------------------------------
(* The specification *)

Spec == BoxInit /\ [][BoxNext]_bvars

LEMMA OperationKeeps ==
  ASSUME IInv, TellConfig \/ TellUsers \/ TellAdd \/ TellRemove \/ Operate
  PROVE  IInv'
<1>1. Types' /\ OpInv'
  BY TellConfigKeeps, TellUsersKeeps, TellAddKeeps, TellRemoveKeeps, ClosedKeeps, RulesKeep, MapKeeps, PrepareKeeps,
     AdmitKeeps, SwitchKeeps, RevokeKeeps, FinishKeeps, UndoSwitchKeeps, UndoRulesKeeps, UndoMapKeeps, UndoCloseKeeps,
     AnswerKeeps, Zenon DEF Operate
<1>2. UNCHANGED client \/ client' = [c \in Clients |-> Nobody]
  BY DEF TellConfig, TellUsers, TellAdd, TellRemove, Tell, Operate, Construct, CloseSockets, CloseBox, BootBox, UpdateRules,
         UpdateMap, Prepare, Admit, Switch, Revoke, Finish, UndoSwitch, UndoRules, UndoMap, UndoClose, AnswerError
<1>3. PermittedRouted'
  BY <1>2 DEF IInv, PermittedRouted, Nobody
<1>4. QED
  BY <1>1, <1>3 DEF IInv, OpInv

LEMMA StepHolds == ASSUME IInv, [BoxNext]_bvars PROVE IInv'
<1>1. CASE UNCHANGED bvars
  BY <1>1 DEF bvars, IInv, Types, Place, Knows, Undone, NoBox, Agree, Accounts, PanelUsers, Relay, IsAsked, Delta, Both,
              PermittedRouted
<1>2. CASE BoxNext
  BY <1>2, OperationKeeps, ClientKeeps DEF BoxNext
<1>3. QED
  BY <1>1, <1>2

\* At whatever stage of whatever update, failed or not, a flow of a relay entry that would leave by the default outbound is
\* one that the tracker would have refused when it was routed (relay_users.go), except between the last two steps of a rollback.
THEOREM PermittedRoutedHolds == Spec => []PermittedRouted
<1>1. BoxInit => IInv
  BY InitHolds
<1>2. IInv /\ [BoxNext]_bvars => IInv'
  BY StepHolds
<1>3. IInv => PermittedRouted
  BY DEF IInv
<1>4. QED
  BY <1>1, <1>2, <1>3, PTL DEF Spec

\* Between operations a running sing-box authenticates, routes and accounts the users it was last told of, whatever failed on
\* the way (singbox.go, relay_users.go, and the service that answers a failed update).
THEOREM OneUserSetHolds == Spec => []OneUserSet
<1>1. BoxInit => IInv
  BY InitHolds
<1>2. IInv /\ [BoxNext]_bvars => IInv'
  BY StepHolds
<1>3. IInv => OneUserSet
  BY DEF IInv, Knows, Place, Agree, OneUserSet
<1>4. QED
  BY <1>1, <1>2, <1>3, PTL DEF Spec

---------------------------------------------------------------------------
(* Lists with one user of an ID *)

Lists == UserList(books) /\ UserList(job.users) /\ UserList(want.users) /\ asked \in 0..MaxAsks

LEMMA ListsStay ==
  ASSUME NEW l, UserList(l), NEW delta, UserList(delta)
  PROVE  /\ UserList(MergeUsers(l, delta)) /\ UserList(SubtractUsers(l, delta))
         /\ UserList(l \cup {u \in delta : u.id \notin KnownIds(l)})
  BY DEF UserList, MergeUsers, SubtractUsers, KnownIds

\* What is left to be done is about a list.
LEMMA ListOfHand ==
  /\ \A kind : UserList(Idle.users) /\ UserList(For(kind).users)
  /\ \A r, l : UserList(r.users) => UserList(BoxFails(r).users)
  /\ \A kind, config, l : UserList(l) =>
       UserList(BoxStart(For(kind), config, l).users) /\ UserList(Swap(For(kind), l).users)
       /\ UserList(BoxUpdateUsers(For(kind), l).users)
  /\ \A w, hot : UserList(hot.users) /\ UserList(w.users) =>
       UserList(IfUp(For("config"), w, hot).users) /\ UserList(IfUp(For("users"), w, hot).users)
       /\ UserList(IfUp(For("add"), w, hot).users) /\ UserList(IfUp(For("remove"), w, hot).users)
<1>1. \A kind : UserList(Idle.users) /\ UserList(For(kind).users)
  BY DEF Idle, For, UserList
<1>2. QED
  BY <1>1 DEF Idle, For, BoxFails, BoxStart, Swap, BoxUpdateUsers, IfUp

LEMMA ListsStart == BoxInit => Lists
  BY BoxConstants DEF BoxInit, Lists, UserList, Idle

LEMMA ListsTold ==
  ASSUME IInv, Lists, TellConfig \/ TellUsers \/ TellAdd \/ TellRemove
  PROVE  Lists'
<1>0. want \in [config : ConfigNames, users : SUBSET Users] /\ UserList(books) /\ UserList(want.users)
  BY DEF IInv, Types, Lists
<1>1. UNCHANGED books /\ asked' \in 0..MaxAsks
  <2>1. UNCHANGED books /\ asked < MaxAsks /\ asked' = asked + 1
    BY Zenon DEF TellConfig, TellUsers, TellAdd, TellRemove, Tell
  <2>2. QED
    BY <2>1, BoxConstants DEF Lists
<1>2. CASE TellConfig
  <2>1. PICK c \in BoxConfigs :
          /\ want' = [want EXCEPT !.config = c]
          /\ job' = IfUp(For("config"), want',
               CASE ~Runs(want') -> [For("config") EXCEPT !.at = "close"]
                 [] Runs(want') /\ c = box.config /\ Creds(want'.users) = Creds(books) ->
                      [For("config") EXCEPT !.at = "route", !.users = want'.users]
                 [] OTHER -> BoxStart(For("config"), c, want'.users))
    BY <1>2, Zenon DEF TellConfig, Tell
  <2> DEFINE todo == CASE ~Runs(want') -> [For("config") EXCEPT !.at = "close"]
                 [] Runs(want') /\ c = box.config /\ Creds(want'.users) = Creds(books) ->
                      [For("config") EXCEPT !.at = "route", !.users = want'.users]
                 [] OTHER -> BoxStart(For("config"), c, want'.users)
  <2>2. UserList(want.users)'
    BY <1>0, <2>1
  <2>3. \/ todo = [For("config") EXCEPT !.at = "close"]
        \/ todo = [For("config") EXCEPT !.at = "route", !.users = want'.users]
        \/ todo = BoxStart(For("config"), c, want'.users)
    OBVIOUS
  <2>4. UserList(todo.users)
    <3> HIDE DEF todo
    <3>1. QED
      BY <2>2, <2>3, ListOfHand DEF For, Idle
  <2>5. job' = IfUp(For("config"), want', todo)
    BY <2>1
  <2> HIDE DEF todo
  <2>6. UserList(job.users)'
    BY <2>2, <2>4, <2>5, ListOfHand
  <2>7. QED
    BY <1>0, <1>1, <2>2, <2>6 DEF Lists
<1>3. CASE TellUsers
  <2>1. PICK l \in BoxUserSets :
          want' = [want EXCEPT !.users = l] /\ job' = IfUp(For("users"), want', BoxUpdateUsers(For("users"), l))
    BY <1>3, Zenon DEF TellUsers, Tell
  <2>2. UserList(want.users)' /\ UserList(l)
    BY <1>0, <2>1, BoxConstants
  <2>3. UserList(job.users)'
    BY <2>1, <2>2, ListOfHand
  <2>4. QED
    BY <1>0, <1>1, <2>2, <2>3 DEF Lists
<1>4. CASE TellAdd
  <2>1. PICK delta \in BoxUserSets : \E kind \in {"users", "add"} :
          /\ want' = [want EXCEPT !.users = MergeUsers(want.users, delta)]
          /\ job' = IfUp(For(kind), want', IF kind = "users" THEN BoxUpdateUsers(For(kind), want'.users)
                                                             ELSE BoxAddUsers(For(kind), delta))
    BY <1>4, SMT DEF TellAdd, Tell
  <2>2. PICK kind \in {"users", "add"} :
          job' = IfUp(For(kind), want', IF kind = "users" THEN BoxUpdateUsers(For(kind), want'.users)
                                                          ELSE BoxAddUsers(For(kind), delta))
    BY <2>1
  <2>3. UserList(want.users)' /\ UserList(delta)
    <3>1. UserList(delta)
      BY <2>1, BoxConstants
    <3>2. UserList(MergeUsers(want.users, delta))
      BY <1>0, <3>1, ListsStay
    <3>3. QED
      BY <1>0, <2>1, <3>1, <3>2
  <2>4. UserList(BoxAddUsers(For(kind), delta).users)
    BY <1>0, <2>3, ListsStay, ListOfHand DEF BoxAddUsers
  <2>5. UserList(job.users)'
    BY <2>2, <2>3, <2>4, ListOfHand
  <2>6. QED
    BY <1>0, <1>1, <2>3, <2>5 DEF Lists
<1>5. CASE TellRemove
  <2>1. PICK delta \in BoxUserSets :
          /\ want' = [want EXCEPT !.users = SubtractUsers(want.users, delta)]
          /\ job' = IfUp(For("remove"), want', BoxRemoveUsers(For("remove"), delta))
    BY <1>5, SMT DEF TellRemove, Tell
  <2>2. UserList(want.users)' /\ UserList(delta)
    <3>1. UserList(delta)
      BY <2>1, BoxConstants
    <3>2. UserList(SubtractUsers(want.users, delta))
      BY <1>0, <3>1, ListsStay
    <3>3. QED
      BY <1>0, <2>1, <3>1, <3>2
  <2>3. UserList(BoxRemoveUsers(For("remove"), delta).users)
    BY <1>0, <2>2, ListsStay, ListOfHand DEF BoxRemoveUsers
  <2>4. UserList(job.users)'
    BY <2>1, <2>2, <2>3, ListOfHand
  <2>5. QED
    BY <1>0, <1>1, <2>2, <2>4 DEF Lists
<1>6. QED
  BY <1>2, <1>3, <1>4, <1>5

LEMMA ListsStep ==
  ASSUME IInv, Lists, [BoxNext]_bvars
  PROVE  Lists'
<1>1. CASE TellConfig \/ TellUsers \/ TellAdd \/ TellRemove
  BY <1>1, ListsTold
<1>2. CASE BootBox \/ UpdateMap \/ Revoke \/ Finish
  <2>1. books' \in {books, job.users} /\ UNCHANGED <<want, asked>>
    BY <1>2 DEF BootBox, UpdateMap, Revoke, Finish
  <2>2. job'.users \in {job.users, {}}
    <3>1. job \in Jobs
      BY DEF IInv, Types
    <3>2. CASE BootBox
      BY <3>1, <3>2 DEF Jobs, BootBox, Idle, BoxFails
    <3>3. CASE UpdateMap
      BY <3>3 DEF UpdateMap, Idle
    <3>4. CASE Revoke
      BY <3>1, <3>4 DEF Jobs, Revoke, Idle
    <3>5. CASE Finish
      <4>1. job' = Idle \/ job' = [job EXCEPT !.at = "undo", !.fails = FALSE]
        BY <3>5 DEF Finish
      <4>2. CASE job' = Idle
        BY <4>2 DEF Idle
      <4>3. CASE job' = [job EXCEPT !.at = "undo", !.fails = FALSE]
        BY <3>1, <4>3 DEF Jobs
      <4>4. QED
        BY <4>1, <4>2, <4>3
    <3>6. QED
      BY <1>2, <3>2, <3>3, <3>4, <3>5
  <2>3. QED
    BY <2>1, <2>2 DEF Lists, UserList
<1>3. CASE AnswerError
  <2>1. job' = BoxUpdateUsers(For("users"), want.users) \/ job'.users = {}
    <3>1. CASE job.kind \in {"add", "remove"}
      <4>1. job' = BoxUpdateUsers(For("users"), want.users)
        BY <1>3, <3>1 DEF AnswerError
      <4>2. QED
        BY <4>1
    <3>2. QED
      BY <1>3, <3>1 DEF AnswerError, Idle
  <2>2. UNCHANGED <<books, want, asked>>
    BY <1>3 DEF AnswerError
  <2>3. UserList(job'.users)
    <3>1. UserList({}) /\ UserList(BoxUpdateUsers(For("users"), want.users).users)
      BY ListOfHand DEF Lists, UserList
    <3>2. QED
      BY <2>1, <3>1
  <2>4. QED
    BY <2>2, <2>3 DEF Lists
<1>4. CASE /\ UNCHANGED <<books, want, asked>>
           /\ job'.users \in {job.users, {}}
  BY <1>4 DEF Lists, UserList
<1>5. CASE \E c \in Clients : Authenticate(c) \/ Leave(c) \/ Route(c) \/ Track(c) \/ Done(c)
  <2>1. UNCHANGED <<books, job, want, asked>>
    BY <1>5, Zenon DEF Authenticate, Leave, Route, Track, Done, Put
  <2>2. QED
    BY <2>1 DEF Lists
<1>6. CASE UNCHANGED bvars
  BY <1>6 DEF bvars, Lists
<1>7. CASE \/ Construct \/ CloseSockets \/ CloseBox \/ UpdateRules \/ Prepare \/ Admit \/ Switch
           \/ UndoSwitch \/ UndoRules \/ UndoMap \/ UndoClose
  <2>1. job \in Jobs
    BY DEF IInv, Types
  <2>2. CASE Construct
    BY <1>4, <2>1, <2>2 DEF Jobs, Construct
  <2>3. CASE CloseSockets
    BY <1>4, <2>1, <2>3 DEF Jobs, CloseSockets
  <2>4. CASE CloseBox
    BY <1>4, <2>1, <2>4 DEF Jobs, CloseBox, Idle
  <2>5. CASE UpdateRules
    BY <1>4, <2>1, <2>5 DEF Jobs, UpdateRules, BoxFails
  <2>6. CASE Prepare
    BY <1>4, <2>1, <2>6 DEF Jobs, Prepare, BoxFails
  <2>7. CASE Admit
    BY <1>4, <2>1, <2>7 DEF Jobs, Admit
  <2>8. CASE Switch
    BY <1>4, <2>1, <2>8 DEF Jobs, Switch, SwitchFails
  <2>9. CASE UndoSwitch
    BY <1>4, <2>1, <2>9 DEF Jobs, UndoSwitch
  <2>10. CASE UndoRules
    BY <1>4, <2>1, <2>10 DEF Jobs, UndoRules
  <2>11. CASE UndoMap
    BY <1>4, <2>1, <2>11 DEF Jobs, UndoMap
  <2>12. CASE UndoClose
    BY <1>4, <2>1, <2>12 DEF Jobs, UndoClose, BoxFails
  <2>13. QED
    BY <1>7, <2>2, <2>3, <2>4, <2>5, <2>6, <2>7, <2>8, <2>9, <2>10, <2>11, <2>12
<1>8. QED
  BY <1>1, <1>2, <1>3, <1>5, <1>6, <1>7 DEF BoxNext, Operate

LEMMA BoxTyped == IInv /\ Lists => BoxTypeOK
  BY DEF IInv, Types, Boxes, Sessions, ConfigNames, Lists, BoxTypeOK

\* The types of the instance, of its books and of what the clients do (singbox.go), and that a list has one user of an ID.
THEOREM BoxTypesHold == Spec => []BoxTypeOK
<1>1. BoxInit => IInv /\ Lists
  BY InitHolds, ListsStart
<1>2. IInv /\ Lists /\ [BoxNext]_bvars => IInv' /\ Lists'
  BY StepHolds, ListsStep
<1>3. QED
  BY <1>1, <1>2, BoxTyped, PTL DEF Spec
====
