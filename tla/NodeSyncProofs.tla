---------------------------- MODULE NodeSyncProofs ----------------------------
(***************************************************************************)
(* Proofs about NodeSync: typing, ETags that name complete polls only, and *)
(* the wake-up of the mailbox, for any panel, queue capacity and mode.     *)
(***************************************************************************)
EXTENDS NodeSync, TLAPS

Asking == {"config", "users"}

Committed(etag, d) == etag.config \in {None, d.config} /\ etag.users \in {None, d.users}

\* The strengthening.  While a poll asks, what it would restore is committed; what
\* the client holds is ahead of d only by the configuration the poll has got.
Good(r, d) ==
  /\ r \in Services
  /\ r.poll.pc \notin Asking => Committed(r.etag, d)
  /\ r.poll.pc \in Asking => Committed(r.poll.saved, d)
  /\ r.poll.pc = "config" => Committed(r.etag, d)
  /\ r.poll.pc = "users" =>
       /\ r.etag.users \in {None, d.users}
       /\ r.etag.config \in {None, IF r.poll.got.config # None THEN r.poll.got.config
                                   ELSE d.config}

IInv ==
  /\ TypeOK
  /\ Good(s, delivered)
  /\ mainPC # "loop" => s.poll.pc = "idle"
  /\ MailboxWakes

-----------------------------------------------------------------------------
(* Handlers.                                                               *)

\* What a handler may do to ETags and poll: reset the ones, start the other.
Handled(r, q) ==
  /\ q \in Services
  /\ q.etag \in {r.etag, NoSnapshot}
  /\ q.poll = r.poll \/ (r.poll.pc = "idle" /\ q.poll.pc = "launched")

LEMMA HandledGood ==
  ASSUME NEW r, NEW q, NEW d, Good(r, d), Handled(r, q)
  PROVE  Good(q, d)
BY DEF Good, Handled, Committed, NoSnapshot, Asking

LEMMA HandledTwice ==
  ASSUME NEW r, NEW q, NEW t, Handled(r, q), Handled(q, t), q.poll.pc = "idle" => q.poll = r.poll
  PROVE  Handled(r, t)
BY DEF Handled

LEMMA Nothings == NoSnapshot \in Snapshots /\ NoPoll \in Polls /\ Leaving \in Polls
BY DEF NoSnapshot, NoPoll, Leaving, Snapshots, Polls

LEMMA PullAsyncHandled ==
  ASSUME NEW r \in Services
  PROVE  Handled(r, PullAsync(r)) /\ PullAsync(r).resync = r.resync
<1>1. CASE r.poll.pc # "idle"
  BY <1>1 DEF PullAsync, Handled, Services
<1>2. CASE r.poll.pc = "idle" /\ r.skip > 0
  BY <1>2 DEF PullAsync, Handled, Services
<1>3. CASE r.poll.pc = "idle" /\ ~(r.skip > 0)
  <2>1. r.skip = 0
    BY <1>3 DEF Services
  <2> DEFINE p == [NoPoll EXCEPT !.pc = "launched", !.base = r.config]
  <2>2. p \in Polls /\ p.pc = "launched"
    BY Nothings DEF NoPoll, Polls, Services
  <2>3. PullAsync(r) = [r EXCEPT !.poll = p]
    BY <1>3, <2>1 DEF PullAsync
  <2> HIDE DEF p
  <2> QED BY <1>3, <2>2, <2>3 DEF Handled, Services
<1> QED BY <1>1, <1>2, <1>3

LEMMA AttemptHandled ==
  ASSUME NEW r \in Services, NEW applied
  PROVE  Handled(r, Attempt(r, applied))
BY Nothings DEF Attempt, Handled, Services

LEMMA EventHandled ==
  ASSUME NEW r \in Services, NEW e \in Events, NEW applied
  PROVE  Handled(r, HandleWSEvent(r, e, applied)) /\ HandleWSEvent(r, e, applied).poll = r.poll
<1> DEFINE w == Wish(r, e)
<1>1. w \in Services /\ w.etag = r.etag /\ w.poll = r.poll
  <2>0. e.type \in {"config", "users", "add", "remove"} /\ e.users \subseteq Users
        /\ e.config \in Configs \cup {None}
    BY DEF Events
  <2>1. CASE e.type = "config"
    BY <2>0, <2>1 DEF Wish, Services
  <2>2. CASE e.type = "users"
    BY <2>0, <2>2 DEF Wish, Services
  <2>3. CASE e.type \in {"add", "remove"}
    <3>1. Delta(r.users, e) \subseteq Users
      BY <2>0 DEF Delta, Services
    <3>2. w = [r EXCEPT !.users = Delta(r.users, e)]
      BY <2>3 DEF Wish
    <3> QED BY <3>1, <3>2 DEF Services
  <2> QED BY <2>0, <2>1, <2>2, <2>3
<1> HIDE DEF w
<1>2. Handled(w, Attempt(w, applied)) /\ Attempt(w, applied).poll = w.poll
  BY <1>1, AttemptHandled DEF Attempt, Services
<1>3. HandleWSEvent(r, e, applied) \in {r, Attempt(w, applied)}
  BY DEF HandleWSEvent, w
<1> QED BY <1>1, <1>2, <1>3 DEF Handled

LEMMA ResyncHandled ==
  ASSUME NEW r \in Services
  PROVE  Handled(r, RequestWSResync(r))
<1> DEFINE q == [r EXCEPT !.resync = TRUE]
<1>1. q \in Services /\ q.etag = r.etag /\ q.poll = r.poll
  BY DEF Services
<1> HIDE DEF q
<1>2. Handled(q, PullAsync(q))
  BY <1>1, PullAsyncHandled
<1>3. RequestWSResync(r) \in {r, PullAsync(q)}
  BY DEF RequestWSResync, q
<1> QED BY <1>1, <1>2, <1>3 DEF Handled

LEMMA HandledLater ==
  ASSUME NEW r, NEW q, NEW t, Handled(r, q), q.poll = r.poll, Handled(q, t)
  PROVE  Handled(r, t)
BY DEF Handled

LEMMA StatusHandled ==
  ASSUME NEW r \in Services, NEW status \in Statuses
  PROVE  Handled(r, HandleWSStatus(r, status))
<1> DEFINE q == IF status.resync THEN RequestWSResync(r) ELSE r
           t == [q EXCEPT !.down = ~status.connected]
<1>1. Handled(r, q)
  BY ResyncHandled DEF Handled
<1>2. t \in Services /\ t.etag = q.etag /\ t.poll = q.poll
  BY <1>1 DEF Handled, Services, Statuses
<1>3. HandleWSStatus(r, status) = PullAsync(t)
  BY DEF HandleWSStatus
<1> HIDE DEF q, t
<1>4. Handled(t, PullAsync(t))
  BY <1>2, PullAsyncHandled
<1>5. CASE q.poll = r.poll
  BY <1>1, <1>2, <1>3, <1>4, <1>5 DEF Handled
<1>6. CASE q.poll # r.poll
  <2>1. q.poll.pc = "launched" /\ r.poll.pc = "idle"
    BY <1>1, <1>6 DEF Handled
  <2>2. PullAsync(t) = t
    BY <1>2, <2>1 DEF PullAsync
  <2> QED BY <1>1, <1>2, <1>3, <2>1, <2>2 DEF Handled
<1> QED BY <1>5, <1>6

LEMMA ResultHandled ==
  ASSUME NEW r \in Services, NEW got \in Snapshots, NEW applied
  PROVE  Handled(r, ApplyPullResult(r, got, applied))
<1> DEFINE users == IF got.users = None THEN r.users ELSE got.users
           config == IF got.config = None THEN r.config ELSE got.config
           q == [r EXCEPT !.resync = FALSE, !.users = users, !.config = config]
<1>1. users \subseteq Users /\ config \in Configs \cup {None}
  BY DEF Snapshots, Services
<1>2. q \in Services /\ q.etag = r.etag /\ q.poll = r.poll
  <2> HIDE DEF users, config
  <2> QED BY <1>1 DEF Services
<1>3. ApplyPullResult(r, got, applied) \in {q, Attempt(q, applied)}
  BY DEF ApplyPullResult
<1> HIDE DEF q
<1>4. Handled(q, Attempt(q, applied))
  BY <1>2, AttemptHandled
<1> QED BY <1>2, <1>3, <1>4 DEF Handled

LEMMA DrainHandled ==
  ASSUME NEW r \in Services, NEW b \in Boxes, NEW applied
  PROVE  Handled(r, DrainMailbox(r, b, applied))
<1> DEFINE c == IF b.dirtyConfig THEN HandleWSEvent(r, ConfigEvent(b.config), applied) ELSE r
           u == IF b.dirtyUsers THEN HandleWSEvent(c, UsersEvent("users", b.users), applied)
                ELSE c
<1>1. ConfigEvent(b.config) \in Events /\ UsersEvent("users", b.users) \in Events
  BY DEF ConfigEvent, UsersEvent, Events, Boxes
<1>2. Handled(r, c) /\ c.poll = r.poll
  BY <1>1, EventHandled DEF Handled
<1>3. c \in Services
  BY <1>2 DEF Handled
<1>4. Handled(c, u) /\ u.poll = c.poll
  <2> HIDE DEF c
  <2> QED BY <1>1, <1>3, EventHandled DEF Handled
<1>5. DrainMailbox(r, b, applied) \in {r, u, RequestWSResync(u)}
  BY DEF DrainMailbox, Boxes
<1> HIDE DEF c, u
<1>6. Handled(r, u) /\ u.poll = r.poll /\ u \in Services
  BY <1>2, <1>4, HandledLater DEF Handled
<1>7. Handled(u, RequestWSResync(u))
  BY <1>6, ResyncHandled
<1> QED BY <1>5, <1>6, <1>7, HandledLater DEF Handled

-----------------------------------------------------------------------------
(* Queues and the mailbox.                                                 *)

LEMMA OfferTyped ==
  ASSUME NEW S, NEW queue \in Seq(S), NEW x \in S, NEW cap \in Nat, Len(queue) <= cap
  PROVE  Offer(queue, x, cap) \in Seq(S) /\ Len(Offer(queue, x, cap)) <= cap
BY DEF Offer

LEMMA TailTyped ==
  ASSUME NEW S, NEW queue \in Seq(S), queue # <<>>
  PROVE  Head(queue) \in S /\ Tail(queue) \in Seq(S) /\ Len(Tail(queue)) <= Len(queue)
OBVIOUS

LEMMA EmptyQueue ==
  ASSUME NEW S
  PROVE  <<>> \in Seq(S) /\ Len(<<>>) = 0
OBVIOUS

\* Everything a ready mailbox holds for the service has a wake-up under way.
Woken(b) == b.ready /\ (b.dirtyConfig \/ b.dirtyUsers \/ b.reconcile) => b.token \/ b.waking

LEMMA BoxNew == NewBox \in Boxes /\ Woken(NewBox)
BY DEF NewBox, Boxes, Woken

LEMMA BoxNotified ==
  ASSUME NEW b \in Boxes
  PROVE  Notify(b) \in Boxes /\ Woken(Notify(b))
BY DEF Notify, Boxes, Woken

LEMMA BoxApplied ==
  ASSUME NEW b \in Boxes, NEW e \in Events
  PROVE  Apply(b, e) \in Boxes /\ Woken(Apply(b, e))
<1>0. e.type \in {"config", "users", "add", "remove"} /\ e.users \subseteq Users
      /\ e.config \in Configs \cup {None}
  BY DEF Events
<1>1. CASE e.type = "config"
  BY <1>0, <1>1 DEF Apply, Boxes, Woken
<1>2. CASE e.type = "users"
  BY <1>0, <1>2 DEF Apply, Boxes, Woken
<1>3. CASE e.type \in {"add", "remove"} /\ ~b.full
  BY <1>0, <1>3 DEF Apply, Boxes, Woken
<1>4. CASE e.type \in {"add", "remove"} /\ b.full
  <2>1. Delta(b.users, e) \subseteq Users
    BY <1>0 DEF Delta, Boxes
  <2>2. Apply(b, e) = [b EXCEPT !.users = Delta(b.users, e), !.dirtyUsers = TRUE,
                                !.waking = TRUE]
    BY <1>4 DEF Apply
  <2> QED BY <2>1, <2>2 DEF Boxes, Woken
<1> QED BY <1>0, <1>1, <1>2, <1>3, <1>4

LEMMA BoxSeeded ==
  ASSUME NEW b \in Boxes, NEW us \in SUBSET Users, NEW c \in Configs \cup {None}
  PROVE  Seed(b, us, c) \in Boxes /\ Seed(b, us, c).ready
BY DEF Seed, Notify, Boxes

LEMMA BoxDrained ==
  ASSUME NEW b \in Boxes
  PROVE  Drained(b) \in Boxes /\ Woken(Drained(b))
BY DEF Drained, Boxes, Woken

-----------------------------------------------------------------------------
(* The first state, the panel and the wire.                                *)

LEMMA InitIInv == Init => IInv
<1> SUFFICES ASSUME Init PROVE IInv
  OBVIOUS
<1> USE DEF Init
<1>1. s \in Services /\ s.etag = NoSnapshot /\ s.poll = NoPoll
  BY Nothings DEF Services
<1>2. Good(s, delivered) /\ s.poll.pc = "idle"
  BY <1>1 DEF Good, Committed, NoSnapshot, NoPoll, Asking
<1>3. box \in Boxes /\ MailboxWakes
  BY BoxNew DEF MailboxWakes, Woken
<1>4. socket \in Seq(Events) /\ events \in Seq(Events) /\ statuses \in Seq(Statuses)
      /\ result \in Seq(Snapshots) /\ Len(events) = 0 /\ Len(statuses) = 0 /\ Len(result) = 0
  BY EmptyQueue
<1>5. Len(events) <= EventCap /\ Len(statuses) <= StatusCap /\ Len(result) <= 1
  BY <1>4, InstanceAssumption
<1>6. mode \in {"push", "rest", "machine"} /\ mainPC \in {"config", "users", "setup", "loop"}
      /\ panel \in [config : Configs, users : SUBSET Users] /\ delivered \in Snapshots
  BY Nothings, InstanceAssumption
<1>7. TypeOK
  BY <1>1, <1>3, <1>4, <1>5, <1>6 DEF TypeOK
<1> QED BY <1>2, <1>3, <1>7 DEF IInv

LEMMA EventsTyped ==
  /\ \A c \in Configs : ConfigEvent(c) \in Events
  /\ \A us \in SUBSET Users, t \in {"users", "add", "remove"} : UsersEvent(t, us) \in Events
BY DEF ConfigEvent, UsersEvent, Events

LEMMA PushFacts ==
  ASSUME IInv, NEW e \in Events, Announce(e)
  PROVE  /\ socket' \in Seq(Events) /\ push' \in {"none", "whole", "lost"}
         /\ UNCHANGED <<mode, connected, events, statuses, box, mainPC, s, result, delivered>>
BY DEF IInv, TypeOK, Announce, queueVars

\* A step that leaves the service alone and keeps the types.
LEMMA OutsideStep ==
  ASSUME IInv, TypeOK', Woken(box'), UNCHANGED <<mainPC, s, delivered>>
  PROVE  IInv'
BY DEF IInv, Good, Committed, MailboxWakes, Woken

LEMMA ChangeConfigStep ==
  ASSUME IInv, NEW c \in Configs, ChangeConfig(c)
  PROVE  IInv'
<1>1. Announce(ConfigEvent(c)) /\ panel' \in [config : Configs, users : SUBSET Users]
  BY DEF ChangeConfig, IInv, TypeOK
<1>2. TypeOK' /\ UNCHANGED <<mainPC, s, delivered, box>>
  BY <1>1, EventsTyped, PushFacts DEF IInv, TypeOK
<1> QED BY <1>2, OutsideStep DEF IInv, MailboxWakes, Woken

LEMMA ChangeUsersStep ==
  ASSUME IInv, NEW us \in SUBSET Users, ChangeUsers(us)
  PROVE  IInv'
<1>1. panel' \in [config : Configs, users : SUBSET Users]
  BY DEF ChangeUsers, IInv, TypeOK
<1>2. \E t \in {"users", "add", "remove"}, them \in SUBSET Users : Announce(UsersEvent(t, them))
  BY DEF ChangeUsers, IInv, TypeOK
<1>3. TypeOK' /\ UNCHANGED <<mainPC, s, delivered, box>>
  BY <1>1, <1>2, EventsTyped, PushFacts DEF IInv, TypeOK
<1> QED BY <1>3, OutsideStep DEF IInv, MailboxWakes, Woken

LEMMA StatusTyped ==
  ASSUME IInv, NEW isConnected \in BOOLEAN, OfferStatus(isConnected)
  PROVE  statuses' \in Seq(Statuses) /\ Len(statuses') <= StatusCap
<1>1. Status(isConnected) \in Statuses
  BY DEF Status, Statuses
<1> QED BY <1>1, OfferTyped, InstanceAssumption DEF OfferStatus, IInv, TypeOK

LEMMA WireStep ==
  ASSUME IInv, Wire
  PROVE  IInv'
<1> USE DEF IInv
<1>0. Woken(box) /\ TypeOK
  BY DEF MailboxWakes, Woken
<1>1. ASSUME NEW full \in BOOLEAN, Connect(full) PROVE IInv'
  <2>1. socket' \in Seq(Events) /\ push' \in {"none", "whole", "lost"} /\ connected'
    BY <1>0, <1>1, EventsTyped DEF Connect, TypeOK
  <2>2. TypeOK'
    BY <1>0, <1>1, <2>1, StatusTyped DEF Connect, TypeOK, panelVars
  <2> QED BY <1>0, <1>1, <2>2, OutsideStep DEF Connect
<1>2. CASE DialFails
  <2>1. TypeOK'
    BY <1>0, <1>2, StatusTyped DEF DialFails, TypeOK, panelVars
  <2> QED BY <1>0, <1>2, <2>1, OutsideStep DEF DialFails
<1>3. CASE Disconnect
  <2>1. socket' \in Seq(Events) /\ push' \in {"none", "whole", "lost"} /\ connected' = FALSE
    BY <1>0, <1>3, EmptyQueue DEF Disconnect, Hangup, TypeOK
  <2>2. statuses' \in Seq(Statuses) /\ Len(statuses') <= StatusCap
    BY <1>3, StatusTyped DEF Disconnect
  <2>3. TypeOK'
    BY <1>0, <1>3, <2>1, <2>2 DEF Disconnect, TypeOK, panelVars
  <2> QED BY <1>0, <1>3, <2>3, OutsideStep DEF Disconnect
<1>4. CASE Receive
  <2>1. Head(socket) \in Events /\ socket' \in Seq(Events)
    BY <1>0, <1>4, TailTyped DEF Receive, TypeOK
  <2>2. events' \in Seq(Events) /\ Len(events') <= EventCap
    <3>1. events' = events \/ (Len(events) < EventCap /\ events' = Append(events, Head(socket)))
      BY <1>4, Zenon DEF Receive
    <3>2. Len(Append(events, Head(socket))) = Len(events) + 1 /\ Append(events, Head(socket)) \in Seq(Events) /\ Len(events) \in Nat
      BY <1>0, <2>1 DEF TypeOK
    <3>3. events \in Seq(Events) /\ Len(events) <= EventCap /\ EventCap \in Nat
      BY <1>0, InstanceAssumption DEF TypeOK
    <3> QED BY <3>1, <3>2, <3>3
  <2>3. statuses' \in Seq(Statuses) /\ Len(statuses') <= StatusCap /\ push' \in {"none", "whole", "lost"}
    <3>1. [connected |-> TRUE, resync |-> TRUE] \in Statuses
      BY DEF Statuses
    <3> QED BY <1>0, <1>4, <3>1, OfferTyped, InstanceAssumption DEF Receive, TypeOK
  <2>4. TypeOK'
    BY <1>0, <1>4, <2>1, <2>2, <2>3 DEF Receive, TypeOK, panelVars
  <2> QED BY <1>0, <1>4, <2>4, OutsideStep DEF Receive
<1>5. CASE MailboxReceives
  <2>1. Head(socket) \in Events /\ socket' \in Seq(Events)
    BY <1>0, <1>5, TailTyped DEF MailboxReceives, TypeOK
  <2>2. box' \in Boxes /\ Woken(box')
    BY <1>0, <1>5, <2>1, BoxApplied DEF MailboxReceives, TypeOK
  <2>3. TypeOK'
    BY <1>0, <1>5, <2>1, <2>2 DEF MailboxReceives, TypeOK, panelVars
  <2> QED BY <1>5, <2>2, <2>3, OutsideStep DEF MailboxReceives
<1>6. CASE MailboxNotifies
  <2>1. box' \in Boxes /\ Woken(box')
    BY <1>0, <1>6, BoxNotified DEF MailboxNotifies, TypeOK
  <2>2. TypeOK'
    BY <1>0, <1>6, <2>1 DEF MailboxNotifies, TypeOK, panelVars, pushVars
  <2> QED BY <1>6, <2>1, <2>2, OutsideStep DEF MailboxNotifies
<1> QED BY <1>1, <1>2, <1>3, <1>4, <1>5, <1>6 DEF Wire

-----------------------------------------------------------------------------
(* The main goroutine and the poll goroutine.                              *)

\* A step of the main loop: a handler has run, and nothing was delivered.
LEMMA HandlerStep ==
  ASSUME IInv, TypeOK', Handled(s, s'), Woken(box'), mainPC' = "loop", delivered' = delivered
  PROVE  IInv'
<1>1. Good(s', delivered)
  BY HandledGood DEF IInv
<1> QED BY <1>1 DEF IInv, MailboxWakes, Woken

LEMMA FirstPollStep ==
  ASSUME IInv, InitialConfig \/ InitialUsers
  PROVE  IInv'
<1> USE DEF IInv
<1>0. s.poll.pc = "idle" /\ Committed(s.etag, delivered) /\ TypeOK
  BY DEF InitialConfig, InitialUsers, Good, Asking
<1>1. CASE InitialConfig
  <2>1. s' \in Services /\ s'.poll = s.poll /\ delivered' \in Snapshots /\ Committed(s'.etag, delivered')
    BY <1>0, <1>1 DEF InitialConfig, TypeOK, Services, Snapshots, Committed
  <2>2. TypeOK' /\ MailboxWakes' /\ mainPC' = "users"
    BY <1>0, <1>1, <2>1 DEF InitialConfig, TypeOK, MailboxWakes, panelVars, pushVars, queueVars
  <2> QED BY <1>0, <2>1, <2>2 DEF Good, Asking
<1>2. CASE InitialUsers
  <2>1. s' \in Services /\ s'.poll = s.poll /\ delivered' \in Snapshots /\ Committed(s'.etag, delivered')
    BY <1>0, <1>2 DEF InitialUsers, TypeOK, Services, Snapshots, Committed
  <2>2. TypeOK' /\ MailboxWakes' /\ mainPC' = "setup"
    BY <1>0, <1>2, <2>1 DEF InitialUsers, TypeOK, MailboxWakes, panelVars, pushVars, queueVars
  <2> QED BY <1>0, <2>1, <2>2 DEF Good, Asking
<1> QED BY <1>1, <1>2

LEMMA SetupStep ==
  ASSUME IInv, NEW applied \in BOOLEAN, Setup(applied)
  PROVE  IInv'
<1>0. TypeOK /\ Woken(box)
  BY DEF IInv, MailboxWakes, Woken
<1>1. CASE mode = "machine"
  <2> DEFINE seeded == Seed(box, s.users, s.config)
             drained == Drained(seeded)
  <2>1. seeded \in Boxes
    BY <1>0, BoxSeeded DEF TypeOK, Services
  <2>2. drained \in Boxes
    <3> HIDE DEF seeded
    <3> QED BY <2>1, BoxDrained
  <2>3. s' = DrainMailbox(s, seeded, applied)
        /\ box' = [drained EXCEPT !.token = TRUE, !.waking = box.waking]
    BY <1>1 DEF Setup
  <2> HIDE DEF seeded, drained
  <2>4. Handled(s, s')
    BY <1>0, <2>1, <2>3, DrainHandled DEF TypeOK
  <2>5. box' \in Boxes /\ Woken(box')
    BY <1>0, <2>2, <2>3 DEF TypeOK, Boxes, Woken
  <2>6. TypeOK' /\ mainPC' = "loop" /\ delivered' = delivered
    BY <1>0, <2>4, <2>5 DEF Setup, TypeOK, Handled, panelVars, pushVars
  <2> QED BY <2>4, <2>5, <2>6, HandlerStep
<1>2. CASE mode # "machine"
  <2>1. UNCHANGED <<s, box>>
    BY <1>2 DEF Setup
  <2>2. Handled(s, s')
    BY <1>0, <2>1 DEF Handled, TypeOK
  <2>3. TypeOK' /\ mainPC' = "loop" /\ delivered' = delivered /\ Woken(box')
    BY <1>0, <2>1 DEF Setup, TypeOK, panelVars, pushVars
  <2> QED BY <2>2, <2>3, HandlerStep
<1> QED BY <1>1, <1>2

LEMMA DiscoverStep ==
  ASSUME IInv, NEW enabled \in BOOLEAN, Discover(enabled)
  PROVE  IInv'
<1>0. TypeOK /\ Woken(box)
  BY DEF IInv, MailboxWakes, Woken
<1> DEFINE q == PullAsync(s)
<1>1. Handled(s, q)
  BY <1>0, PullAsyncHandled DEF TypeOK
<1>2. q \in Services
  BY <1>1 DEF Handled
<1>3. \E down \in BOOLEAN : s' = [q EXCEPT !.client = enabled, !.down = down]
  <2> HIDE DEF q
  <2>1. s' = [q EXCEPT !.client = enabled,
                       !.down = IF s.client # enabled THEN FALSE ELSE q.down]
    BY <1>2 DEF Discover, q
  <2> QED BY <1>2, <2>1 DEF Services
<1> HIDE DEF q
<1>4. s' \in Services /\ s'.etag = q.etag /\ s'.poll = q.poll
  BY <1>2, <1>3 DEF Services
<1>5. Handled(s, s')
  BY <1>1, <1>4 DEF Handled
<1>6. /\ socket' \in Seq(Events) /\ push' \in {"none", "whole", "lost"} /\ connected' \in BOOLEAN
      /\ statuses' \in Seq(Statuses) /\ Len(statuses') <= StatusCap
  <2>1. Status(FALSE) \in Statuses
    BY DEF Status, Statuses
  <2>2. CASE s.client /\ ~enabled
    <3>1. socket' \in Seq(Events) /\ push' \in {"none", "whole", "lost"} /\ connected' \in BOOLEAN
      BY <1>0, <2>2, EmptyQueue DEF Discover, Hangup, TypeOK
    <3>2. statuses' \in Seq(Statuses) /\ Len(statuses') <= StatusCap
      <4>1. statuses' \in {statuses, Offer(statuses, Status(FALSE), StatusCap)}
        BY <2>2 DEF Discover
      <4>2. statuses \in Seq(Statuses) /\ Len(statuses) <= StatusCap /\ StatusCap \in Nat
        BY <1>0, InstanceAssumption DEF TypeOK
      <4>3. Offer(statuses, Status(FALSE), StatusCap) \in Seq(Statuses)
            /\ Len(Offer(statuses, Status(FALSE), StatusCap)) <= StatusCap
        BY <2>1, <4>2, OfferTyped
      <4> QED BY <4>1, <4>2, <4>3
    <3> QED BY <3>1, <3>2
  <2>3. CASE ~(s.client /\ ~enabled)
    BY <1>0, <2>3 DEF Discover, TypeOK, pushVars
  <2> QED BY <2>2, <2>3
<1>7. TypeOK' /\ Woken(box') /\ mainPC' = "loop" /\ delivered' = delivered
  BY <1>0, <1>4, <1>6 DEF Discover, TypeOK, panelVars
<1> QED BY <1>5, <1>7, HandlerStep

LEMMA LoopStep ==
  ASSUME IInv, NEW applied \in BOOLEAN,
         PullTick \/ StatusArrives \/ EventArrives(applied) \/ MailArrives(applied)
           \/ ResultArrives(applied)
  PROVE  IInv'
<1>0. TypeOK /\ Woken(box)
  BY DEF IInv, MailboxWakes, Woken
<1>1. CASE PullTick
  <2>1. Handled(s, s')
    BY <1>0, <1>1, PullAsyncHandled DEF PullTick, TypeOK
  <2>2. TypeOK' /\ Woken(box') /\ mainPC' = "loop" /\ delivered' = delivered
    BY <1>0, <1>1, <2>1 DEF PullTick, TypeOK, Handled, panelVars, pushVars, queueVars
  <2> QED BY <2>1, <2>2, HandlerStep
<1>2. CASE StatusArrives
  <2>1. Head(statuses) \in Statuses /\ statuses' \in Seq(Statuses) /\ Len(statuses') <= StatusCap
    BY <1>0, <1>2, TailTyped, InstanceAssumption DEF StatusArrives, TypeOK
  <2>2. Handled(s, s')
    BY <1>0, <1>2, <2>1, StatusHandled DEF StatusArrives, TypeOK
  <2>3. TypeOK' /\ Woken(box') /\ mainPC' = "loop" /\ delivered' = delivered
    BY <1>0, <1>2, <2>1, <2>2 DEF StatusArrives, TypeOK, Handled, panelVars, pushVars
  <2> QED BY <2>2, <2>3, HandlerStep
<1>3. CASE EventArrives(applied)
  <2>1. Head(events) \in Events /\ events' \in Seq(Events) /\ Len(events') <= EventCap
    BY <1>0, <1>3, TailTyped, InstanceAssumption DEF EventArrives, TypeOK
  <2>2. Handled(s, s')
    BY <1>0, <1>3, <2>1, EventHandled DEF EventArrives, TypeOK
  <2>3. TypeOK' /\ Woken(box') /\ mainPC' = "loop" /\ delivered' = delivered
    BY <1>0, <1>3, <2>1, <2>2 DEF EventArrives, TypeOK, Handled, panelVars, pushVars
  <2> QED BY <2>2, <2>3, HandlerStep
<1>4. CASE MailArrives(applied)
  <2>1. box' \in Boxes /\ Woken(box')
    BY <1>0, <1>4, BoxDrained DEF MailArrives, TypeOK
  <2>2. Handled(s, s')
    BY <1>0, <1>4, DrainHandled DEF MailArrives, TypeOK
  <2>3. TypeOK' /\ mainPC' = "loop" /\ delivered' = delivered
    BY <1>0, <1>4, <2>1, <2>2 DEF MailArrives, TypeOK, Handled, panelVars, pushVars
  <2> QED BY <2>1, <2>2, <2>3, HandlerStep
<1>5. CASE ResultArrives(applied)
  <2>1. Head(result) \in Snapshots /\ result' \in Seq(Snapshots) /\ Len(result') <= 1
    BY <1>0, <1>5, TailTyped DEF ResultArrives, TypeOK
  <2>2. Handled(s, s')
    BY <1>0, <1>5, <2>1, ResultHandled DEF ResultArrives, TypeOK
  <2>3. TypeOK' /\ Woken(box') /\ mainPC' = "loop" /\ delivered' = delivered
    BY <1>0, <1>5, <2>1, <2>2 DEF ResultArrives, TypeOK, Handled, panelVars, pushVars, queueVars
  <2> QED BY <2>2, <2>3, HandlerStep
<1> QED BY <1>1, <1>2, <1>3, <1>4, <1>5

\* A step of the poll goroutine; the main loop is running, as a poll is.
LEMMA PollStep ==
  ASSUME IInv, s.poll.pc # "idle", pollUnchanged, Good(s', delivered'),
         result' \in Seq(Snapshots), Len(result') <= 1, delivered' \in Snapshots
  PROVE  IInv'
<1>1. TypeOK' /\ mainPC' = "loop" /\ MailboxWakes'
  BY DEF IInv, TypeOK, Good, MailboxWakes, pollUnchanged, panelVars, pushVars, queueVars
<1> QED BY <1>1 DEF IInv

LEMMA PollBeginsStep ==
  ASSUME IInv, PollBegins
  PROVE  IInv'
<1>0. TypeOK /\ s \in Services /\ Committed(s.etag, delivered)
  BY DEF IInv, Good, PollBegins, Asking
<1> DEFINE p == [s.poll EXCEPT !.pc = "config", !.saved = s.etag, !.asked.config = s.etag.config]
<1>1. p \in Polls /\ p.pc = "config" /\ p.saved = s.etag
  BY <1>0 DEF Services, Polls, Snapshots
<1>2. s' = [s EXCEPT !.poll = p]
  BY <1>0 DEF PollBegins, Services, Polls
<1> HIDE DEF p
<1>3. s' \in Services /\ s'.poll = p /\ s'.etag = s.etag
  BY <1>0, <1>1, <1>2 DEF Services
<1>4. Good(s', delivered)
  BY <1>0, <1>1, <1>3 DEF Good, Asking
<1> QED BY <1>0, <1>4, PollStep DEF PollBegins, TypeOK

LEMMA ConfigAnsweredStep ==
  ASSUME IInv, ConfigAnswered
  PROVE  IInv'
<1>0. TypeOK /\ s \in Services /\ s.poll.pc = "config" /\ Committed(s.etag, delivered)
      /\ Committed(s.poll.saved, delivered) /\ None \notin Configs
  BY NoneAssumption DEF IInv, Good, ConfigAnswered, Asking
<1> DEFINE fresh == s.poll.asked.config # panel.config
           c == IF fresh THEN panel.config ELSE None
           p == [s.poll EXCEPT !.pc = "users",
                   !.asked = [NoSnapshot EXCEPT !.users = s.etag.users], !.got.config = c]
           e == [s.etag EXCEPT !.config = IF fresh THEN panel.config ELSE @]
<1>1. e \in Snapshots /\ e.users = s.etag.users /\ e.config = (IF fresh THEN panel.config ELSE s.etag.config)
  BY <1>0 DEF TypeOK, Services, Snapshots
<1>2. p \in Polls /\ p.pc = "users" /\ p.saved = s.poll.saved /\ p.got.config = c
  <2>1. c \in Configs \cup {None}
    BY <1>0 DEF TypeOK
  <2>2. [NoSnapshot EXCEPT !.users = s.etag.users] \in Snapshots
    BY <1>0 DEF NoSnapshot, Services, Snapshots
  <2> HIDE DEF c
  <2> QED BY <1>0, <2>1, <2>2 DEF Services, Polls, Snapshots
<1>3. s' = [s EXCEPT !.poll = p, !.etag = e]
  BY <1>0 DEF ConfigAnswered, Services, Polls, Snapshots
<1>4. c = None \/ (c = panel.config /\ fresh)
  OBVIOUS
<1>5. e.config \in {None, IF c # None THEN c ELSE delivered.config}
  BY <1>0, <1>1 DEF Committed, TypeOK
<1> HIDE DEF p, e, c
<1>6. s' \in Services /\ s'.poll = p /\ s'.etag = e
  BY <1>0, <1>1, <1>2, <1>3 DEF Services
<1>7. Good(s', delivered)
  BY <1>0, <1>1, <1>2, <1>5, <1>6 DEF Good, Asking, Committed
<1> QED BY <1>0, <1>7, PollStep DEF ConfigAnswered, TypeOK

LEMMA SkipTyped == 0 \in 0..1 /\ 1 \in 0..1
OBVIOUS

LEMMA UsersAnsweredStep ==
  ASSUME IInv, UsersAnswered
  PROVE  IInv'
<1>0. TypeOK /\ s \in Services /\ s.poll.pc = "users" /\ s.etag.users \in {None, delivered.users}
      /\ s.etag.config \in {None, IF s.poll.got.config # None THEN s.poll.got.config
                                  ELSE delivered.config}
  BY DEF IInv, Good, UsersAnswered, Asking
<1> DEFINE fresh == s.poll.asked.users # panel.users
           got == [s.poll.got EXCEPT !.users = IF fresh THEN panel.users ELSE None]
           told == [got EXCEPT !.config = IF @ = s.poll.base THEN None ELSE @]
           p == [NoPoll EXCEPT !.pc = "deliver", !.got = told]
           e == [s.etag EXCEPT !.users = IF fresh THEN panel.users ELSE @]
<1>1. got \in Snapshots /\ got.config = s.poll.got.config
  BY <1>0 DEF TypeOK, Services, Polls, Snapshots
<1>2. told \in Snapshots
  <2> HIDE DEF got
  <2> QED BY <1>1 DEF Snapshots
<1>3. e \in Snapshots /\ e.config = s.etag.config
      /\ e.users = (IF fresh THEN panel.users ELSE s.etag.users)
  BY <1>0 DEF TypeOK, Services, Snapshots
<1>4. p \in Polls /\ p.pc = "deliver"
  <2> HIDE DEF told
  <2> QED BY <1>2, Nothings DEF NoPoll, Polls
<1>5. s' = [s EXCEPT !.skip = 0, !.poll = p, !.etag = e]
  BY <1>0 DEF UsersAnswered, Services
<1>6. delivered' = [config |-> IF got.config # None THEN got.config ELSE delivered.config,
                    users |-> IF fresh THEN panel.users ELSE delivered.users]
  BY DEF UsersAnswered
<1>7. delivered' \in Snapshots
  <2> HIDE DEF got
  <2> QED BY <1>0, <1>1, <1>6 DEF TypeOK, Snapshots
<1>8. Committed(e, delivered')
  <2> HIDE DEF got, e
  <2> QED BY <1>0, <1>1, <1>3, <1>6 DEF Committed
<1> HIDE DEF p, e, got, told
<1>9. s' \in Services /\ s'.poll = p /\ s'.etag = e
  BY <1>0, <1>3, <1>4, <1>5, SkipTyped DEF Services
<1>10. Good(s', delivered')
  BY <1>4, <1>8, <1>9 DEF Good, Asking
<1> QED BY <1>0, <1>7, <1>10, PollStep DEF UsersAnswered, TypeOK

LEMMA PollFailsStep ==
  ASSUME IInv, PollFails
  PROVE  IInv'
<1>0. TypeOK /\ s \in Services /\ s.poll.pc \in Asking /\ Committed(s.poll.saved, delivered)
  BY DEF IInv, Good, PollFails, Asking
<1>1. s' \in Services /\ s'.poll = Leaving /\ s'.etag = s.poll.saved
  <2>1. s' = [s EXCEPT !.poll = Leaving, !.skip = 1, !.etag = s.poll.saved]
    BY DEF PollFails
  <2>2. s.poll.saved \in Snapshots
    BY <1>0 DEF Services, Polls
  <2> QED BY <1>0, <2>1, <2>2, Nothings, SkipTyped DEF Services
<1>2. Leaving.pc = "leaving"
  BY DEF Leaving, NoPoll
<1>3. Good(s', delivered)
  BY <1>0, <1>1, <1>2 DEF Good, Asking
<1> QED BY <1>0, <1>3, PollStep DEF PollFails, TypeOK, Asking

\* The last two steps: the result is handed over, then pullActive is cleared.
LEMMA PollEndsStep ==
  ASSUME IInv, PollDelivers \/ PollEnds
  PROVE  IInv'
<1>0. TypeOK /\ s \in Services /\ s.poll.pc \in {"deliver", "leaving"} /\ Committed(s.etag, delivered)
  BY DEF IInv, Good, PollDelivers, PollEnds, Asking
<1>1. \E p \in {Leaving, NoPoll} : s' = [s EXCEPT !.poll = p]
  BY DEF PollDelivers, PollEnds
<1>2. s' \in Services /\ s'.etag = s.etag /\ s'.poll \in {Leaving, NoPoll}
  BY <1>0, <1>1, Nothings DEF Services
<1>3. Leaving.pc = "leaving" /\ NoPoll.pc = "idle"
  BY DEF Leaving, NoPoll
<1>4. Good(s', delivered)
  BY <1>0, <1>2, <1>3 DEF Good, Asking
<1>5. s.poll.got \in Snapshots
  BY <1>0 DEF Services, Polls
<1>6. result' \in Seq(Snapshots) /\ Len(result') <= 1 /\ delivered' = delivered /\ pollUnchanged
  <2>1. CASE PollDelivers
    <3>1. result' = <<s.poll.got>> /\ delivered' = delivered /\ pollUnchanged
      BY <2>1 DEF PollDelivers
    <3> QED BY <1>5, <3>1
  <2>2. CASE PollEnds
    BY <1>0, <2>2 DEF PollEnds, TypeOK
  <2> QED BY <2>1, <2>2
<1> QED BY <1>0, <1>4, <1>6, PollStep DEF TypeOK

-----------------------------------------------------------------------------
(* Theorems.                                                               *)

LEMMA NextIInv == IInv /\ [Next]_vars => IInv'
<1> SUFFICES ASSUME IInv, [Next]_vars PROVE IInv'
  OBVIOUS
<1>1. CASE UNCHANGED vars
  BY <1>1 DEF vars, IInv, TypeOK, Good, MailboxWakes
<1>2. CASE \E c \in Configs : ChangeConfig(c)
  BY <1>2, ChangeConfigStep
<1>3. CASE \E us \in SUBSET Users : ChangeUsers(us)
  BY <1>3, ChangeUsersStep
<1>4. CASE Wire
  BY <1>4, WireStep
<1>5. CASE Main
  BY <1>5, FirstPollStep, SetupStep, DiscoverStep, LoopStep DEF Main
<1>6. CASE Poll
  BY <1>6, PollBeginsStep, ConfigAnsweredStep, UsersAnsweredStep, PollFailsStep, PollEndsStep
     DEF Poll
<1> QED BY <1>1, <1>2, <1>3, <1>4, <1>5, <1>6 DEF Next

\* The strengthened invariant holds throughout, whatever the panel pushes and
\* however large the queues of the service are.
THEOREM Invariant == Spec => []IInv
BY InitIInv, NextIInv, PTL DEF Spec

\* The queues of the service stay within their capacity and everything is typed.
THEOREM TypeCorrect == Spec => []TypeOK
<1>1. IInv => TypeOK
  BY DEF IInv
<1> QED BY <1>1, Invariant, PTL

\* Poll's promise: between polls the client holds no ETag of a poll that has not
\* brought both configuration and users.
THEOREM ETagsCommittedHolds == Spec => []ETagsCommitted
<1>1. IInv => ETagsCommitted
  BY DEF IInv, Good, Asking, Committed, ETagsCommitted
<1> QED BY <1>1, Invariant, PTL

\* What a ready mailbox holds has a wake-up on its way: Apply notifies after it has
\* unlocked, and the service drains only what the token it took stands for.
THEOREM MailboxWakesHolds == Spec => []MailboxWakes
<1>1. IInv => MailboxWakes
  BY DEF IInv
<1> QED BY <1>1, Invariant, PTL
=============================================================================
