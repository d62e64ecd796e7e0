------------------------------- MODULE NodeSync -------------------------------
(***************************************************************************)
(* How a node service learns what the panel wants: WebSocket pushes, the   *)
(* REST poll with its ETags that backs them up, and, in machine mode, the  *)
(* mailbox (internal/service/service.go, internal/controlplane,            *)
(* internal/panel).  What the service does with a wish is NodeRuntime's    *)
(* subject: here applying it succeeds or fails.                            *)
(*                                                                         *)
(* mode is "push" (panel with WebSocket), "rest" (without) or "machine".   *)
(* Handlers of the main goroutine are operators on the record s.           *)
(***************************************************************************)
EXTENDS NodeMailbox, Naturals, Sequences

CONSTANTS
  Modes,        \* the modes to check
  Starts,       \* what the panel may have when the service starts
  UserPushes,   \* bound: how the panel pushes users: "users", "add", "remove"
  EventCap,     \* capacity of wsEvents (16)
  StatusCap,    \* capacity of wsStatusCh (4)
  Budgets,      \* bound: changes the panel makes in a mode, [config, users]
  MaxDials      \* bound: attempts to connect the WebSocket

ASSUME InstanceAssumption ==
  /\ Modes \subseteq {"push", "rest", "machine"}
  /\ Starts \subseteq [config : Configs, users : SUBSET Users]
  /\ EventCap \in Nat /\ StatusCap \in Nat

VARIABLES
  mode,
  panel,      \* the panel's configuration and users
  changes,    \* bound: changes left
  socket,     \* pushes on the wire
  connected,  \* WSClient.connected
  dials,   \* bound: attempts to connect
  push,       \* history: "none" pushed so far, every change ("whole"), some "lost" or dropped
  events,     \* wsEvents
  statuses,   \* wsStatusCh
  box,        \* the node's mailbox
  mainPC,     \* "config", "users", "setup" (Initial), "loop"
  s,          \* the service, its ETags and its poll goroutine
  result,     \* pullResults
  delivered   \* history: what the last complete poll brought

panelVars == <<panel, changes>>
pushVars == <<socket, connected, dials, push>>
queueVars == <<events, statuses, box>>
vars == <<mode, panel, changes, socket, connected, dials, push, events,
          statuses, box, mainPC, s, result, delivered>>

Snapshots == [config : Configs \cup {None}, users : (SUBSET Users) \cup {None}]
NoSnapshot == [config |-> None, users |-> None]

\* The poll goroutine; pc is "idle" exactly when pullActive is false.
Polls == [pc : {"idle", "launched", "config", "users", "deliver", "leaving"},
          base : Configs \cup {None},      \* currentConfigHash
          saved : Snapshots,               \* the ETags to restore
          asked : Snapshots,               \* If-None-Match of the requests
          got : Snapshots]                 \* what they brought, None for a 304

NoPoll == [pc |-> "idle", base |-> None, saved |-> NoSnapshot,
           asked |-> NoSnapshot, got |-> NoSnapshot]
Leaving == [NoPoll EXCEPT !.pc = "leaving"]

Services == [config : Configs \cup {None}, users : SUBSET Users,
             etag : Snapshots, poll : Polls,
             skip : 0..1,          \* pullBackoff.skipRemaining
             resync : BOOLEAN,     \* wsResyncPending
             down : BOOLEAN,       \* wsDisconnectAt is set
             client : BOOLEAN]     \* wsClient is not nil

Statuses == [connected : BOOLEAN, resync : BOOLEAN]
Status(isConnected) == [connected |-> isConnected, resync |-> FALSE]

ConfigEvent(c) == [type |-> "config", config |-> c, users |-> {}]
UsersEvent(type, us) == [type |-> type, config |-> None, users |-> us]

\* Mutant: the capacity is not looked at.
OfferAlways(queue, x, cap) == Append(queue, x)

\* A send that never blocks.
Offer(queue, x, cap) == IF Len(queue) < cap THEN Append(queue, x) ELSE queue

Init ==
  /\ mode \in Modes
  /\ panel \in Starts /\ changes \in Budgets[mode]
  /\ socket = <<>> /\ connected = FALSE /\ dials = 0 /\ push = "none"
  /\ events = <<>> /\ statuses = <<>> /\ box = NewBox
  /\ mainPC = IF mode = "push" THEN "loop" ELSE "config"
  /\ s = [config |-> None, users |-> {}, etag |-> NoSnapshot, poll |-> NoPoll,
          skip |-> 0, resync |-> FALSE, down |-> FALSE, client |-> mode # "rest"]
  /\ result = <<>>
  /\ delivered = NoSnapshot

-----------------------------------------------------------------------------
(* The panel and the wire.                                                 *)

\* The panel pushes a change to whoever is connected.
Announce(e) ==
  /\ socket' = IF connected THEN Append(socket, e) ELSE socket
  /\ push' = CASE connected /\ push = "none" -> "whole"
               [] ~connected /\ push = "whole" -> "lost"
               [] OTHER -> push
  /\ UNCHANGED <<mode, connected, dials, queueVars, mainPC, s, result, delivered>>

ChangeConfig(c) ==
  /\ changes.config > 0 /\ changes' = [changes EXCEPT !.config = @ - 1]
  /\ c # panel.config
  /\ panel' = [panel EXCEPT !.config = c]
  /\ Announce(ConfigEvent(c))

ChangeUsers(us) ==
  /\ changes.users > 0 /\ changes' = [changes EXCEPT !.users = @ - 1]
  /\ us # panel.users
  /\ panel' = [panel EXCEPT !.users = us]
  /\ \/ /\ "users" \in UserPushes
        /\ Announce(UsersEvent("users", us))
     \/ /\ "add" \in UserPushes /\ panel.users \subseteq us
        /\ Announce(UsersEvent("add", us \ panel.users))
     \/ /\ "remove" \in UserPushes /\ us \subseteq panel.users
        /\ Announce(UsersEvent("remove", panel.users \ us))

\* In machine mode the mux tells the services that have registered.
Registered == mode = "machine" => mainPC \in {"setup", "loop"}

OfferStatus(isConnected) ==
  statuses' = IF Registered THEN Offer(statuses, Status(isConnected), StatusCap)
              ELSE statuses

\* The panel may open a connection with a full state.
Connect(full) ==
  /\ s.client /\ ~connected /\ dials < MaxDials
  /\ connected' = TRUE /\ dials' = dials + 1
  /\ socket' = IF full THEN <<ConfigEvent(panel.config), UsersEvent("users", panel.users)>>
               ELSE <<>>
  /\ push' = IF full /\ push = "none" THEN "whole" ELSE push
  /\ OfferStatus(TRUE)
  /\ UNCHANGED <<mode, panelVars, events, box, mainPC, s, result, delivered>>

DialFails ==
  /\ s.client /\ ~connected /\ dials < MaxDials
  /\ dials' = dials + 1
  /\ OfferStatus(FALSE)
  /\ UNCHANGED <<mode, panelVars, socket, connected, push, events, box, mainPC, s, result, delivered>>

\* Pushes on the wire are lost with the connection.
Hangup ==
  /\ connected' = FALSE
  /\ socket' = <<>>
  /\ push' = IF socket # <<>> THEN "lost" ELSE push
  /\ dials' = dials

Disconnect ==
  /\ connected
  /\ Hangup
  /\ OfferStatus(FALSE)
  /\ UNCHANGED <<mode, panelVars, events, box, mainPC, s, result, delivered>>

\* handleDataEvent: a snapshot without users brings no event at all, and nobody asks for a resync.
Silent(e) == e.type = "users" /\ e.users = {}

\* History: what a silent push says is news while the service has users or is about to be told of some.
News == s.users # {} \/ \E i \in DOMAIN events : events[i].users # {}

\* onEvent: a full queue drops the event and asks for a resync, if that fits.
Receive ==
  /\ mode # "machine"
  /\ socket # <<>>
  /\ socket' = Tail(socket)
  /\ \/ /\ Silent(Head(socket))
        /\ push' = IF News THEN "lost" ELSE push
        /\ UNCHANGED <<events, statuses>>
     \/ /\ ~Silent(Head(socket)) /\ Len(events) < EventCap
        /\ events' = Append(events, Head(socket))
        /\ UNCHANGED <<statuses, push>>
     \/ /\ ~Silent(Head(socket)) /\ Len(events) >= EventCap
        /\ statuses' = Offer(statuses, [connected |-> TRUE, resync |-> TRUE], StatusCap)
        /\ push' = "lost"
        /\ UNCHANGED events
  /\ UNCHANGED <<mode, panelVars, connected, dials, box, mainPC, s, result, delivered>>

\* The mux hands the event to the mailbox, which notifies once it is unlocked.
MailboxReceives ==
  /\ mode = "machine"
  /\ socket # <<>> /\ ~box.waking
  /\ socket' = Tail(socket)
  /\ box' = IF Silent(Head(socket)) THEN box ELSE Apply(box, Head(socket))
  /\ UNCHANGED <<mode, panelVars, connected, dials, push, events, statuses,
                 mainPC, s, result, delivered>>

MailboxNotifies ==
  /\ box.waking
  /\ box' = Notify(box)
  /\ UNCHANGED <<mode, panelVars, pushVars, events, statuses, mainPC, s, result,
                 delivered>>

-----------------------------------------------------------------------------
(* Handlers.                                                               *)

\* pullViaAPIAsync.
PullAsync(r) ==
  CASE r.poll.pc # "idle" -> r
    [] r.poll.pc = "idle" /\ r.skip > 0 -> [r EXCEPT !.skip = @ - 1]
    [] r.poll.pc = "idle" /\ r.skip = 0 ->
         [r EXCEPT !.poll = [NoPoll EXCEPT !.pc = "launched", !.base = r.config]]

RequestWSResync(r) ==
  IF r.resync THEN r ELSE PullAsync([r EXCEPT !.resync = TRUE])

\* The wish is kept either way; a failure resets the polling state.
Attempt(r, applied) ==
  IF applied \/ r.config = None THEN r ELSE [r EXCEPT !.etag = NoSnapshot]

Wish(r, e) ==
  CASE e.type = "config" -> [r EXCEPT !.config = e.config]
    [] e.type = "users" -> [r EXCEPT !.users = e.users]
    [] e.type \in {"add", "remove"} -> [r EXCEPT !.users = Delta(@, e)]

\* handleWSEvent; a snapshot equal to the wish is ignored.
HandleWSEvent(r, e, applied) ==
  IF e.type \in {"config", "users"} /\ Wish(r, e) = r THEN r
  ELSE Attempt(Wish(r, e), applied)

HandleWSStatus(r, status) ==
  LET q == IF status.resync THEN RequestWSResync(r) ELSE r IN
  PullAsync([q EXCEPT !.down = ~status.connected])

\* Mutant: the flag is cleared only when the poll brought something.
ApplyPullResultKeepingResync(r, got, applied) ==
  LET users == IF got.users = None THEN r.users ELSE got.users
      config == IF got.config = None THEN r.config ELSE got.config
      changed == got.config # None \/ users # r.users
      q == [r EXCEPT !.resync = @ /\ ~changed, !.users = users, !.config = config]
  IN IF changed THEN Attempt(q, applied) ELSE q

\* applyPullResult.  Renewed certificates are NodeRuntime's subject.
ApplyPullResult(r, got, applied) ==
  LET users == IF got.users = None THEN r.users ELSE got.users
      config == IF got.config = None THEN r.config ELSE got.config
      q == [r EXCEPT !.resync = FALSE, !.users = users, !.config = config]
  IN IF got.config # None \/ users # r.users THEN Attempt(q, applied) ELSE q

\* drainMachineMailbox.
DrainMailbox(r, b, applied) ==
  LET afterConfig == IF b.dirtyConfig
                       THEN HandleWSEvent(r, ConfigEvent(b.config), applied) ELSE r
      afterUsers == IF b.dirtyUsers
                      THEN HandleWSEvent(afterConfig, UsersEvent("users", b.users), applied)
                      ELSE afterConfig
  IN CASE ~b.ready -> r
       [] b.ready /\ b.reconcile -> RequestWSResync(afterUsers)
       [] b.ready /\ ~b.reconcile -> afterUsers

-----------------------------------------------------------------------------
(* The main goroutine.                                                     *)

\* Initial, over REST: configuration, then users; a failure ends the service.
InitialConfig ==
  /\ mainPC = "config"
  /\ s' = [s EXCEPT !.config = panel.config, !.etag.config = panel.config]
  /\ delivered' = [delivered EXCEPT !.config = panel.config]
  /\ mainPC' = "users"
  /\ UNCHANGED <<mode, panelVars, pushVars, queueVars, result>>

InitialUsers ==
  /\ mainPC = "users"
  /\ s' = [s EXCEPT !.users = panel.users, !.etag.users = panel.users]
  /\ delivered' = [delivered EXCEPT !.users = panel.users]
  /\ mainPC' = "setup"
  /\ UNCHANGED <<mode, panelVars, pushVars, queueVars, result>>

\* The first attempt, then markMailboxReadyAndDrain.  What the mux applies
\* between its lock sections would be applied as well before or after them.
Setup(applied) ==
  /\ mainPC = "setup"
  /\ mainPC' = "loop"
  /\ IF mode = "machine"
       THEN LET seeded == Seed(box, s.users, s.config) IN
            /\ s' = DrainMailbox(s, seeded, applied)
            /\ box' = [Drained(seeded) EXCEPT !.token = TRUE, !.waking = box.waking]
       ELSE UNCHANGED <<s, box>>
  /\ UNCHANGED <<mode, panelVars, pushVars, events, statuses, result, delivered>>

PullTick ==
  /\ mainPC = "loop"
  /\ s' = PullAsync(s)
  /\ UNCHANGED <<mode, panelVars, pushVars, queueVars, mainPC, result, delivered>>

\* wsDiscovery: the handshake says whether the panel offers a WebSocket.
Discover(enabled) ==
  /\ mainPC = "loop" /\ mode # "machine"
  /\ ~s.client \/ s.down
  /\ LET changed == s.client # enabled IN
     /\ s' = [PullAsync(s) EXCEPT !.client = enabled,
                                  !.down = IF changed THEN FALSE ELSE @]
     /\ IF s.client /\ ~enabled
          THEN /\ Hangup
               /\ statuses' = IF connected THEN Offer(statuses, Status(FALSE), StatusCap)
                              ELSE statuses
          ELSE UNCHANGED <<pushVars, statuses>>
  /\ UNCHANGED <<mode, panelVars, events, box, mainPC, result, delivered>>

StatusArrives ==
  /\ mainPC = "loop" /\ statuses # <<>>
  /\ s' = HandleWSStatus(s, Head(statuses))
  /\ statuses' = Tail(statuses)
  /\ UNCHANGED <<mode, panelVars, pushVars, events, box, mainPC, result, delivered>>

EventArrives(applied) ==
  /\ mainPC = "loop" /\ events # <<>>
  /\ s' = HandleWSEvent(s, Head(events), applied)
  /\ events' = Tail(events)
  /\ UNCHANGED <<mode, panelVars, pushVars, statuses, box, mainPC, result, delivered>>

MailArrives(applied) ==
  /\ mainPC = "loop" /\ box.token
  /\ s' = DrainMailbox(s, box, applied)
  /\ box' = Drained(box)
  /\ UNCHANGED <<mode, panelVars, pushVars, events, statuses, mainPC, result, delivered>>

ResultArrives(applied) ==
  /\ mainPC = "loop" /\ result # <<>>
  /\ s' = ApplyPullResult(s, Head(result), applied)
  /\ result' = Tail(result)
  /\ UNCHANGED <<mode, panelVars, pushVars, queueVars, mainPC, delivered>>

-----------------------------------------------------------------------------
(* The poll goroutine.                                                     *)

pollUnchanged == UNCHANGED <<mode, panelVars, pushVars, queueVars, mainPC>>

\* Poll remembers the ETags and sends the first request.
PollBegins ==
  /\ s.poll.pc = "launched"
  /\ s' = [s EXCEPT !.poll.pc = "config", !.poll.saved = s.etag,
                    !.poll.asked.config = s.etag.config]
  /\ UNCHANGED <<result, delivered>> /\ pollUnchanged

\* GetConfig returns: the body and its ETag, or 304 when the ETag still names
\* what the panel has; then the request for the users leaves.
ConfigAnswered ==
  /\ s.poll.pc = "config"
  /\ LET fresh == s.poll.asked.config # panel.config IN
     s' = [s EXCEPT !.poll.pc = "users",
                    !.poll.asked = [NoSnapshot EXCEPT !.users = s.etag.users],
                    !.poll.got.config = IF fresh THEN panel.config ELSE None,
                    !.etag.config = IF fresh THEN panel.config ELSE @]
  /\ UNCHANGED <<result, delivered>> /\ pollUnchanged

\* A configuration equal to the one the poll started from is left out.
UsersAnswered ==
  /\ s.poll.pc = "users"
  /\ LET fresh == s.poll.asked.users # panel.users
         got == [s.poll.got EXCEPT !.users = IF fresh THEN panel.users ELSE None]
     IN
     /\ s' = [s EXCEPT !.skip = 0,
                       !.poll = [NoPoll EXCEPT !.pc = "deliver", !.got =
                         [got EXCEPT !.config = IF @ = s.poll.base THEN None ELSE @]],
                       !.etag.users = IF fresh THEN panel.users ELSE @]
     /\ delivered' = [config |-> IF got.config # None THEN got.config
                                 ELSE delivered.config,
                      users |-> IF fresh THEN panel.users ELSE delivered.users]
  /\ UNCHANGED result /\ pollUnchanged

\* Mutant: the ETags of an incomplete poll stay.
PollFailsKeepingETags ==
  /\ s.poll.pc \in {"config", "users"}
  /\ s' = [s EXCEPT !.poll = Leaving, !.skip = 1]
  /\ UNCHANGED <<result, delivered>> /\ pollUnchanged

PollFails ==
  /\ s.poll.pc \in {"config", "users"}
  /\ s' = [s EXCEPT !.poll = Leaving, !.skip = 1, !.etag = s.poll.saved]
  /\ UNCHANGED <<result, delivered>> /\ pollUnchanged

PollDelivers ==
  /\ s.poll.pc = "deliver" /\ result = <<>>
  /\ result' = <<s.poll.got>>
  /\ s' = [s EXCEPT !.poll = Leaving]
  /\ UNCHANGED delivered /\ pollUnchanged

PollEnds ==
  /\ s.poll.pc = "leaving"
  /\ s' = [s EXCEPT !.poll = NoPoll]
  /\ UNCHANGED <<result, delivered>> /\ pollUnchanged

-----------------------------------------------------------------------------
Wire ==
  \/ \E full \in BOOLEAN : Connect(full)
  \/ DialFails \/ Disconnect \/ Receive \/ MailboxReceives \/ MailboxNotifies

Main ==
  \/ InitialConfig \/ InitialUsers
  \/ PullTick \/ StatusArrives
  \/ \E enabled \in BOOLEAN : Discover(enabled)
  \/ \E applied \in BOOLEAN : \/ Setup(applied) \/ EventArrives(applied)
                              \/ MailArrives(applied) \/ ResultArrives(applied)

Poll == PollBegins \/ ConfigAnswered \/ UsersAnswered \/ PollFails \/ PollDelivers
        \/ PollEnds

Next ==
  \/ \E c \in Configs : ChangeConfig(c)
  \/ \E us \in SUBSET Users : ChangeUsers(us)
  \/ Wire \/ Main \/ Poll

Spec == Init /\ [][Next]_vars

\* The main loop serves every case of its select, tickers fire, requests end
\* within their timeout, and a poll repeated again and again gets through.
\* Nothing is asked of the panel's changes and of the connection.
LiveSpec ==
  /\ Spec
  /\ WF_vars(InitialConfig) /\ WF_vars(InitialUsers)
  /\ WF_vars(\E applied \in BOOLEAN : Setup(applied))
  /\ WF_vars(PullTick) /\ WF_vars(StatusArrives)
  /\ WF_vars(\E applied \in BOOLEAN : EventArrives(applied))
  /\ WF_vars(\E applied \in BOOLEAN : MailArrives(applied))
  /\ WF_vars(\E applied \in BOOLEAN : ResultArrives(applied))
  /\ WF_vars(Receive) /\ WF_vars(MailboxReceives) /\ WF_vars(MailboxNotifies)
  /\ WF_vars(Poll) /\ SF_vars(ConfigAnswered) /\ SF_vars(UsersAnswered)

-----------------------------------------------------------------------------
(* Properties.                                                             *)

TypeOK ==
  /\ mode \in {"push", "rest", "machine"}
  /\ panel \in [config : Configs, users : SUBSET Users]
  /\ socket \in Seq(Events) /\ events \in Seq(Events) /\ statuses \in Seq(Statuses)
  /\ Len(events) <= EventCap /\ Len(statuses) <= StatusCap
  /\ connected \in BOOLEAN /\ push \in {"none", "whole", "lost"}
  /\ box \in Boxes /\ mainPC \in {"config", "users", "setup", "loop"}
  /\ s \in Services /\ result \in Seq(Snapshots) /\ Len(result) <= 1
  /\ delivered \in Snapshots

\* "ETags are committed only when configuration and users both succeeded":
\* between polls an ETag names what a complete poll brought.
ETagsCommitted ==
  s.poll.pc \notin {"config", "users"} =>
    /\ s.etag.config \in {None, delivered.config}
    /\ s.etag.users \in {None, delivered.users}

\* Nothing waits in a ready mailbox without a wake-up on its way to the service.
MailboxWakes ==
  box.ready /\ (box.dirtyConfig \/ box.dirtyUsers \/ box.reconcile)
    => box.token \/ box.waking

\* A resync that was asked for is answered by a poll result.
ResyncAnswered == s.resync ~> ~s.resync

Synced == s.config = panel.config /\ s.users = panel.users

\* Outside machine mode, the service ends up with what the panel has once the panel is quiet, if no push
\* was lost after the first one and no poll starts while the result of the last one waits: such a poll
\* compares with a configuration that is about to be replaced.  Lost is a push that met a full queue, and
\* one with an empty list while the service has users or is about to be told of some: the ETag of an
\* earlier poll that brought no users either hides it from every later one (handleDataEvent).
Overlaps == s.poll.pc = "launched" /\ result # <<>>
Converges == [](mode # "machine" /\ push # "lost" /\ ~Overlaps) => <>[]Synced

\* "Lost pushes no longer leave configuration or users on an old version", and much less so when none was
\* lost: the polls bring the service to what the panel has, whenever they start.
PollsHeal == [](mode # "machine" /\ push # "lost") => <>[]Synced

=============================================================================
