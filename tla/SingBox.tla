----------------------------- MODULE SingBox -----------------------------
(***************************************************************************)
(* The embedded sing-box kernel: src/internal/kernel/singbox/{singbox,      *)
(* relay,relay_users}.go, driven by the node service.  Every operation      *)
(* holds SingBox.mu from end to end, so operations follow one another; the  *)
(* connections do not take that lock and meet every intermediate state.     *)
(*                                                                          *)
(* A user's client authenticates at the inbound and keeps its session (a    *)
(* QUIC session outlives the removal of its user); every flow of it is      *)
(* first routed by the router's rules and then shown to the ConnTracker.    *)
(* At a relay entry the rules select the landing by the session's name, and *)
(* a name no rule knows would leave by the default outbound: the tracker    *)
(* must refuse it.  A user update is therefore prepared, switched and       *)
(* cleaned up in three parts, and rolled back when one of them fails.  What *)
(* sing-box itself does is external: each of its calls may fail.            *)
(***************************************************************************)
EXTENDS Integers, FiniteSets, KernelUsers

CONSTANTS BoxConfigs,   \* what a node may be configured as
          RelayEntry,   \* those that are relay entries
          BoxLanding,   \* those that are relay landings
          Routes,       \* RouteIDs a relay user may choose
          Identity,     \* the part of a UUID the route bytes leave
          BoxUserSets,  \* lists and deltas of the panel
          Clients,      \* client sessions
          MaxAsks       \* configuration and user changes

ASSUME BoxConstants ==
  /\ RelayEntry \subseteq BoxConfigs /\ BoxLanding \subseteq BoxConfigs \ RelayEntry
  /\ \A l \in BoxUserSets : UserList(l)
  /\ \A l \in BoxUserSets : \A u \in l : u.uuid \in DOMAIN Identity
  /\ MaxAsks \in Nat

VARIABLES box,     \* the instance: [up, open, config, auth, rules, tracker]
          books,   \* s.users
          job,     \* the operation in progress
          want,    \* what the service was last told: [config, users]
          asked,
          client   \* what each client session is doing

bvars == <<box, books, job, want, asked, client>>

NoBox == [up |-> FALSE, open |-> FALSE, config |-> "none", auth |-> {}, rules |-> {}, tracker |-> {}]
Nobody == [at |-> "away", cred |-> [id |-> 0, uuid |-> "none"], route |-> 0, by |-> "none", permitted |-> FALSE]

BoxInit == /\ box = NoBox /\ books = {} /\ job = Idle /\ asked = 0
           /\ want = [config |-> "none", users |-> {}]
           /\ client = [c \in Clients |-> Nobody]

Relay == box.config \in RelayEntry

(* Whom the inbound and the tracker of a configuration know: a landing only has
   the credential of its entry *)
PanelUsers(config, l) == IF config \in BoxLanding THEN {} ELSE Creds(l)
Accounts(l) == PanelUsers(box.config, l)

(* validateRelayUsers: no two users may become one identity *)
RelayUsersValid(config, l) == config \in RelayEntry =>
  \A u, v \in l : Identity[u.uuid] = Identity[v.uuid] => u = v

---------------------------------------------------------------------------
(* What an operation leaves to be done *)
BoxStart(r, config, l) == IF RelayUsersValid(config, l)
                          THEN [r EXCEPT !.at = "build", !.config = config, !.users = l]
                          ELSE [r EXCEPT !.at = "failed"]
BoxFails(r) == [r EXCEPT !.at = "failed"]

(* reloadInboundsLocked *)
Swap(r, l) == IF box.up /\ RelayUsersValid(box.config, l)
              THEN [r EXCEPT !.at = IF Relay THEN "prepare" ELSE "switch", !.users = l]
              ELSE BoxFails(r)
BoxUpdateUsers(r, l) == IF box.up /\ Creds(l) = Creds(books) /\ RelayUsersValid(box.config, l)
                        THEN [r EXCEPT !.at = "map", !.users = l] ELSE Swap(r, l)
(* Users it already has are left alone; the last user may leave *)
BoxAddUsers(r, delta) ==
  LET new == {u \in delta : u.id \notin KnownIds(books)}
  IN  IF box.up /\ new = {} THEN Idle ELSE Swap(r, books \cup new)
BoxRemoveUsers(r, delta) ==
  LET kept == SubtractUsers(books, delta)
  IN  IF box.up /\ kept = books THEN Idle ELSE Swap(r, kept)

(* The service: applyChanges, applyUserUpdate, applyUserDelta *)
Runs(w) == w.config # "none" /\ (w.users # {} \/ w.config \in BoxLanding)
IfUp(r, w, hot) == CASE box.up -> hot
                     [] ~box.up /\ Runs(w) -> BoxStart(r, w.config, w.users)
                     [] OTHER -> Idle
Tell(w, todo) == /\ job.at = "idle" /\ asked < MaxAsks /\ asked' = asked + 1
                 /\ want' = w /\ job' = todo /\ UNCHANGED <<box, books, client>>
For(kind) == [Idle EXCEPT !.kind = kind]
TellConfig == \E c \in BoxConfigs :
  LET w == [want EXCEPT !.config = c]
  IN  Tell(w, IfUp(For("config"), w,
        CASE ~Runs(w) -> [For("config") EXCEPT !.at = "close"]
          [] Runs(w) /\ c = box.config /\ Creds(w.users) = Creds(books) -> [For("config") EXCEPT !.at = "route", !.users = w.users]
          [] OTHER -> BoxStart(For("config"), c, w.users)))
TellUsers == \E l \in BoxUserSets :
  LET w == [want EXCEPT !.users = l] IN Tell(w, IfUp(For("users"), w, BoxUpdateUsers(For("users"), l)))
TellAdd == \E delta \in BoxUserSets \ {{}} :
  LET w == [want EXCEPT !.users = MergeUsers(@, delta)]
      kind == IF HasUUIDChange(want.users, delta) THEN "users" ELSE "add"
  IN  Tell(w, IfUp(For(kind), w, IF kind = "users" THEN BoxUpdateUsers(For(kind), w.users)
                                                   ELSE BoxAddUsers(For(kind), delta)))
TellRemove == \E delta \in BoxUserSets \ {{}} :
  LET w == [want EXCEPT !.users = SubtractUsers(@, delta)]
  IN  Tell(w, IfUp(For("remove"), w, BoxRemoveUsers(For("remove"), delta)))

---------------------------------------------------------------------------
(* startLocked and Stop.  The candidate is built; the old instance's sockets
   are closed and it is given time to drain; it is closed with what is still
   open; only then may the new one start, and nothing brings the old one back. *)
Construct == /\ job.at = "build"
             /\ \E at \in {"close", "failed"} : job' = [job EXCEPT !.at = at, !.fails = (at = "close")]
             /\ UNCHANGED <<box, books, want, asked, client>>
CloseSockets == /\ job.at = "close" /\ job' = [job EXCEPT !.at = "drain"]
                /\ box' = [box EXCEPT !.open = FALSE]
                /\ UNCHANGED <<books, want, asked, client>>
CloseBox == /\ job.at = "drain" /\ box' = NoBox
            /\ client' = [c \in Clients |-> Nobody]
            /\ job' = IF job.fails THEN [job EXCEPT !.at = "boot"] ELSE Idle
            /\ UNCHANGED <<books, want, asked>>
(* The tracker knows the users before the first connection can arrive *)
BootBox == /\ job.at = "boot"
           /\ \/ /\ box' = [up |-> TRUE, open |-> TRUE, config |-> job.config, auth |-> PanelUsers(job.config, job.users),
                            rules |-> Creds(job.users), tracker |-> PanelUsers(job.config, job.users)]
                 /\ books' = job.users /\ job' = Idle
              \/ UNCHANGED <<box, books>> /\ job' = BoxFails(job)
           /\ UNCHANGED <<want, asked, client>>

(* Reload when nothing but the route rules differs *)
UpdateRules == /\ job.at = "route"
               /\ job' \in {[job EXCEPT !.at = "map"], BoxFails(job)}
               /\ UNCHANGED <<box, books, want, asked, client>>
SetNodeUsers(l) == box' = [box EXCEPT !.tracker = Accounts(l)]
UpdateMap == /\ job.at = "map" /\ SetNodeUsers(job.users) /\ books' = job.users /\ job' = Idle
             /\ UNCHANGED <<want, asked, client>>

---------------------------------------------------------------------------
(* reloadRelayUsersLocked, and for other nodes the parts "switch" and "revoke" *)

(* First the rules know the old and the new users ... *)
Prepare == /\ job.at = "prepare"
           /\ \/ /\ box' = [box EXCEPT !.rules = Creds(books \cup job.users)]
                 /\ job' = [job EXCEPT !.at = "admit"]
              \/ UNCHANGED box /\ job' = BoxFails(job)
           /\ UNCHANGED <<books, want, asked, client>>
Admit == /\ job.at = "admit" /\ SetNodeUsers(books \cup job.users)
         /\ job' = [job EXCEPT !.at = "switch"]
         /\ UNCHANGED <<books, want, asked, client>>
(* ... then the inbound authenticates the new ones; it may fail half way ... *)
SwitchFails == [job EXCEPT !.at = IF Relay THEN "undo" ELSE "failed", !.fails = FALSE]
Switch == /\ job.at = "switch"
          /\ \E done \in BOOLEAN, auth \in {box.auth, Accounts(job.users)} :
               /\ done => auth = Accounts(job.users)
               /\ box' = [box EXCEPT !.auth = auth]
               /\ job' = IF done THEN [job EXCEPT !.at = "revoke"] ELSE SwitchFails
          /\ UNCHANGED <<books, want, asked, client>>
(* ... then the old sessions lose their permission, and only then their rules *)
Revoke == /\ job.at = "revoke" /\ SetNodeUsers(job.users)
          /\ IF Relay THEN job' = [job EXCEPT !.at = "finish"] /\ UNCHANGED books
                      ELSE job' = Idle /\ books' = job.users
          /\ UNCHANGED <<want, asked, client>>
(* Mutant: the error of the last part is ignored *)
FinishAnyway == /\ job.at = "finish"
                /\ box' \in {box, [box EXCEPT !.rules = Creds(job.users)]}
                /\ books' = job.users /\ job' = Idle
                /\ UNCHANGED <<want, asked, client>>
Finish == /\ job.at = "finish"
          /\ \/ /\ box' = [box EXCEPT !.rules = Creds(job.users)]
                /\ books' = job.users /\ job' = Idle
             \/ UNCHANGED <<box, books>> /\ job' = [job EXCEPT !.at = "undo", !.fails = FALSE]
          /\ UNCHANGED <<want, asked, client>>

(* rollback: inbound, rules, tracker; if one cannot be restored the box stops *)
UndoSwitch == /\ job.at = "undo"
              /\ \E done \in BOOLEAN, auth \in {box.auth, Creds(books)} :
                   /\ done => auth = Creds(books)
                   /\ box' = [box EXCEPT !.auth = auth]
                   /\ job' = [job EXCEPT !.at = "undoRules", !.fails = ~done]
              /\ UNCHANGED <<books, want, asked, client>>
UndoRules == /\ job.at = "undoRules"
             /\ \E done \in BOOLEAN :
                  /\ box' = IF done THEN [box EXCEPT !.rules = Creds(books)] ELSE box
                  /\ job' = [job EXCEPT !.at = "undoMap", !.fails = @ \/ ~done]
             /\ UNCHANGED <<books, want, asked, client>>
UndoMap == /\ job.at = "undoMap" /\ SetNodeUsers(books)
           /\ job' = [job EXCEPT !.at = IF job.fails THEN "undoClose" ELSE "failed"]
           /\ UNCHANGED <<books, want, asked, client>>
UndoClose == /\ job.at = "undoClose" /\ box' = NoBox /\ job' = BoxFails(job)
             /\ client' = [c \in Clients |-> Nobody]
             /\ UNCHANGED <<books, want, asked>>

(* The service's answer: a full update after a failed delta, else the node stops *)
AnswerError == /\ job.at = "failed"
               /\ job' = CASE job.kind \in {"add", "remove"} -> BoxUpdateUsers(For("users"), want.users)
                           [] job.kind \notin {"add", "remove"} /\ box.up -> [Idle EXCEPT !.at = "close"]
                           [] OTHER -> Idle
               /\ UNCHANGED <<box, books, want, asked, client>>

---------------------------------------------------------------------------
(* Clients *)
Put(c, v) == client' = [client EXCEPT ![c] = v] /\ UNCHANGED <<box, books, job, want, asked>>

Authenticate(c) == /\ client[c].at = "away" /\ box.open
                   /\ \E cred \in box.auth, r \in (IF Relay THEN Routes ELSE {0}) :
                        Put(c, [Nobody EXCEPT !.at = "in", !.cred = cred, !.route = r])
Leave(c) == client[c].at \in {"in", "served"} /\ Put(c, Nobody)
(* The router: the rule of the session's name, or the default outbound *)
Route(c) == /\ client[c].at = "in"
            /\ Put(c, [client[c] EXCEPT !.at = "routed",
                         !.by = IF Relay /\ client[c].cred \notin box.rules THEN "default" ELSE "own",
                         !.permitted = client[c].cred \in box.tracker /\ job.at # "undoMap"])
(* resolveUser: a relay entry refuses names it does not know *)
Track(c) == /\ client[c].at = "routed"
            /\ Put(c, [client[c] EXCEPT !.at = IF Relay /\ client[c].cred \notin box.tracker THEN "in" ELSE "served"])
Done(c) == client[c].at = "served" /\ Put(c, [client[c] EXCEPT !.at = "in", !.by = "none", !.permitted = FALSE])

Operate == \/ Construct \/ CloseSockets \/ CloseBox \/ BootBox \/ UpdateRules \/ UpdateMap
           \/ Prepare \/ Admit \/ Switch \/ Revoke \/ Finish
           \/ UndoSwitch \/ UndoRules \/ UndoMap \/ UndoClose \/ AnswerError
BoxNext == \/ TellConfig \/ TellUsers \/ TellAdd \/ TellRemove \/ Operate
           \/ \E c \in Clients : Authenticate(c) \/ Leave(c) \/ Route(c) \/ Track(c) \/ Done(c)

---------------------------------------------------------------------------
BoxTypeOK == /\ box.up \in BOOLEAN /\ box.open \in BOOLEAN /\ box.config \in BoxConfigs \cup {"none"}
             /\ UserList(books) /\ asked \in 0..MaxAsks
             /\ \A c \in Clients : client[c].at \in {"away", "in", "routed", "served"}

(* relay_users.go "避免更新间隙退回默认出站". At whatever point of whatever update its session was opened and a flow of it
   is routed: a flow of a relay entry that finds no rule is one that the tracker
   would refuse at that moment.  Only while a rollback has restored the rules and
   not yet the tracker is it otherwise. *)
PermittedRouted == \A c \in Clients : client[c].by = "default" => ~client[c].permitted

(* Between operations a running box authenticates, routes and accounts the same
   users, those of its books, and they are the ones last asked for, whose limits
   are the limiter's: a failed step ends in a complete rollback and another
   attempt, or in a stopped box. *)
OneUserSet == job.at = "idle" /\ box.up =>
  /\ Creds(books) = Creds(want.users) /\ box.config = want.config /\ box.open
  /\ box.auth = Accounts(books) /\ box.tracker = Accounts(books)
  /\ Relay => box.rules = Creds(books)
===========================================================================
