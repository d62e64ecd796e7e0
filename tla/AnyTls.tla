---- MODULE AnyTls ----
(* The AnyTLS sessions of compat/sing-anytls: a client pools connections, each carries one stream at *)
(* a time and is given back when the stream ends; the server accepts streams, reports the handshake  *)
(* and closes. Frames are delivered in order until the connection breaks. Dialling, the connection   *)
(* and what the streams carry are external.                                                          *)
EXTENDS Naturals, FiniteSets, Sequences

CONSTANTS SessionIds,            \* the connections, by the session's sequence number
          StreamIds,             \* the streams a session may open: 1..n
          Callers,               \* the goroutines that call CreateStream
          MinIdleSession, MaxBreaks

ASSUME TlsConstants ==
  /\ SessionIds \subseteq Nat \ {0} /\ StreamIds \subseteq Nat \ {0}
  /\ MinIdleSession \in Nat /\ MaxBreaks \in Nat

VARIABLES sess,       \* the two ends of every session
          c2s, s2c,   \* the frames under way
          cstream,    \* the client's streams, in Session.streams or not
          sstream,    \* the server's streams
          hooked,     \* the client streams whose dieHook is registered
          closing,    \* what closeState and closeWithError of a client stream still have to do
          idle,       \* Client.idleSession
          caller,     \* the calls of CreateStream
          clientDead, \* c.die is cancelled
          breaks
tlsVars == <<sess, c2s, s2c, cstream, sstream, hooked, closing, idle, caller, clientDead, breaks>>

NoSession == [client |-> "none", server |-> "none", peer |-> FALSE, settings |-> FALSE, next |-> 1, watched |-> FALSE, cut |-> FALSE]
NoStream == [at |-> "none", mapped |-> FALSE]
NoCall == [at |-> "idle", s |-> 0, i |-> 0]
TlsInit ==
  /\ sess = [s \in SessionIds |-> NoSession] /\ c2s = [s \in SessionIds |-> <<>>] /\ s2c = [s \in SessionIds |-> <<>>]
  /\ cstream = [s \in SessionIds |-> [i \in StreamIds |-> NoStream]]
  /\ sstream = [s \in SessionIds |-> [i \in StreamIds |-> "none"]]
  /\ hooked = {} /\ closing = {} /\ idle = {} /\ caller = [k \in Callers |-> NoCall] /\ clientDead = FALSE /\ breaks = 0

Live(s) == sess[s].client = "live"
Frame(cmd, i) == [cmd |-> cmd, sid |-> i]
Send(wire, s, frames) == IF sess[s].cut THEN wire ELSE [wire EXCEPT ![s] = @ \o frames]
\* closeState: the stream ends once; its hook, if it is registered, runs outside the locks; then the
\* closer that is not the session itself sends FIN.
CloseState(s, streams, fin) ==
  /\ cstream' = [cstream EXCEPT ![s] = [i \in StreamIds |->
       IF i \in streams THEN [at |-> "closed", mapped |-> cstream[s][i].mapped /\ fin] ELSE cstream[s][i]]]
  /\ closing' = closing \cup {[s |-> s, i |-> i, fin |-> fin, at |-> IF <<s, i>> \in hooked THEN "check" ELSE "fin"] : i \in streams}
  /\ hooked' = hooked \ {<<s, i>> : i \in streams}
OpenStreams(s) == {i \in StreamIds : cstream[s][i].at = "open"}
MappedStreams(s) == {i \in StreamIds : cstream[s][i].mapped}

\* Session.Close on the client: die, dieHook takes the session out of the pool, its streams end locally.
CloseClient(s) ==
  /\ sess' = [sess EXCEPT ![s].client = "dead", ![s].cut = TRUE, ![s].watched = FALSE, ![s].next = 1, ![s].peer = FALSE]
  /\ s2c' = [s2c EXCEPT ![s] = <<>>] /\ idle' = idle \ {s} /\ CloseState(s, MappedStreams(s) \cap OpenStreams(s), FALSE)

\* CreateStream: the newest idle session, or a new one; then OpenStream and the hook.
SameWires == UNCHANGED <<c2s, s2c, sstream>>
Call(k, at, s, i) == caller' = [caller EXCEPT ![k] = [at |-> at, s |-> s, i |-> i]]
GetIdleSession(k) ==
  /\ caller[k].at = "idle" /\ ~clientDead
  /\ \E s \in idle : (\A t \in idle : t <= s) /\ idle' = idle \ {s} /\ Call(k, "open", s, 0)
  /\ SameWires /\ UNCHANGED <<sess, cstream, hooked, closing, clientDead, breaks>>
CreateSession(k) ==
  /\ caller[k].at = "idle" /\ ~clientDead /\ idle = {}
  /\ \E s \in SessionIds :
       /\ sess[s].client = "none" /\ \A t \in SessionIds : t < s => sess[t].client # "none"
       /\ sess' = [sess EXCEPT ![s].client = "live", ![s].server = "live"]
       /\ c2s' = [c2s EXCEPT ![s] = <<Frame("settings", 0)>>] /\ Call(k, "open", s, 0)
  /\ UNCHANGED <<s2c, cstream, sstream, hooked, closing, idle, clientDead, breaks>>
\* OpenStream: SYN is written first, the stream enters Session.streams after it.
OpenStream(k) ==
  LET s == caller[k].s
      i == sess[s].next IN
  /\ caller[k].at = "open"
  /\ \/ /\ ~Live(s) /\ Call(k, "idle", 0, 0) /\ SameWires /\ UNCHANGED <<sess, cstream>>
     \/ /\ Live(s) /\ i \in StreamIds
        /\ sess' = [sess EXCEPT ![s].next = @ + 1, ![s].watched = i >= 2 /\ sess[s].peer]
        /\ c2s' = Send(c2s, s, <<Frame("syn", i)>>) /\ Call(k, "map", s, i)
        /\ cstream' = [cstream EXCEPT ![s][i].at = "open"] /\ UNCHANGED <<s2c, sstream>>
  /\ UNCHANGED <<hooked, closing, idle, clientDead, breaks>>
MapStream(k) ==
  LET s == caller[k].s
      i == caller[k].i IN
  /\ caller[k].at = "map" /\ SameWires
  /\ IF Live(s) THEN cstream' = [cstream EXCEPT ![s][i].mapped = TRUE] /\ Call(k, "hook", s, i)
     ELSE cstream' = [cstream EXCEPT ![s][i].at = "closed"] /\ Call(k, "idle", 0, 0)
  /\ UNCHANGED <<sess, hooked, closing, idle, clientDead, breaks>>
\* Mutant: the hook of a stream that is closed already is stored, too.
SetDieHookOnly(k) ==
  /\ caller[k].at = "hook" /\ Call(k, "idle", 0, 0) /\ SameWires
  /\ hooked' = hooked \cup {<<caller[k].s, caller[k].i>>}
  /\ UNCHANGED <<closing, sess, cstream, idle, clientDead, breaks>>
\* setDieHook: a stream that has ended already runs the hook at once.
SetDieHook(k) ==
  LET s == caller[k].s
      i == caller[k].i IN
  /\ caller[k].at = "hook" /\ Call(k, "idle", 0, 0) /\ SameWires
  /\ IF cstream[s][i].at = "closed"
     THEN closing' = closing \cup {[s |-> s, i |-> i, fin |-> FALSE, at |-> "check"]} /\ UNCHANGED hooked
     ELSE hooked' = hooked \cup {<<s, i>>} /\ UNCHANGED closing
  /\ UNCHANGED <<sess, cstream, idle, clientDead, breaks>>

\* The hook: a session that is not closed, of a client that is not, goes back to the pool.
RunHook(c) ==
  /\ c \in closing /\ c.at \in {"check", "insert"} /\ SameWires
  /\ \/ /\ c.at = "check" /\ Live(c.s) /\ ~clientDead
        /\ closing' = (closing \ {c}) \cup {[c EXCEPT !.at = "insert"]} /\ UNCHANGED <<idle, sess, cstream, hooked>>
     \/ /\ c.at = "check" /\ ~Live(c.s)
        /\ closing' = (closing \ {c}) \cup {[c EXCEPT !.at = "fin"]} /\ UNCHANGED <<idle, sess, cstream, hooked>>
     \/ /\ c.at = "check" /\ Live(c.s) /\ clientDead
        /\ sess' = [sess EXCEPT ![c.s].client = "dead", ![c.s].cut = TRUE] /\ idle' = idle \ {c.s}
        /\ closing' = (closing \ {c}) \cup {[c EXCEPT !.at = "fin"]} /\ UNCHANGED <<cstream, hooked>>
     \/ /\ c.at = "insert" /\ idle' = idle \cup {c.s}
        /\ closing' = (closing \ {c}) \cup {[c EXCEPT !.at = "fin"]} /\ UNCHANGED <<sess, cstream, hooked>>
  /\ UNCHANGED <<caller, clientDead, breaks>>
StreamClosed(c) ==
  /\ c \in closing /\ c.at = "fin" /\ closing' = closing \ {c}
  /\ IF c.fin /\ Live(c.s)
     THEN c2s' = Send(c2s, c.s, <<Frame("fin", c.i)>>) /\ cstream' = [cstream EXCEPT ![c.s][c.i].mapped = FALSE]
     ELSE cstream' = [cstream EXCEPT ![c.s][c.i].mapped = FALSE] /\ UNCHANGED c2s
  /\ UNCHANGED <<sess, s2c, sstream, hooked, idle, caller, clientDead, breaks>>
\* The owner of a stream closes it, after CreateStream has returned it.
CloseStream(s, i) ==
  /\ cstream[s][i].at = "open" /\ ~ \E k \in Callers : caller[k].s = s /\ caller[k].i = i
  /\ CloseState(s, {i}, TRUE) /\ SameWires /\ UNCHANGED <<sess, idle, caller, clientDead, breaks>>

\* recvLoop of the client.
ClientReceives(s) ==
  /\ Live(s) /\ s2c[s] # <<>> /\ s2c' = [s2c EXCEPT ![s] = Tail(@)]
  /\ LET f == Head(s2c[s]) IN
     \/ /\ f.cmd = "serversettings" /\ sess' = [sess EXCEPT ![s].peer = TRUE] /\ UNCHANGED <<cstream, closing, hooked>>
     \/ /\ f.cmd = "synack" /\ sess' = [sess EXCEPT ![s].watched = FALSE] /\ UNCHANGED <<cstream, closing, hooked>>
     \/ /\ f.cmd = "synerr" /\ sess' = [sess EXCEPT ![s].watched = FALSE]
        /\ CloseState(s, {f.sid} \cap MappedStreams(s) \cap OpenStreams(s), TRUE)
     \/ /\ f.cmd = "fin" /\ UNCHANGED sess /\ CloseState(s, {f.sid} \cap MappedStreams(s) \cap OpenStreams(s), FALSE)
  /\ UNCHANGED <<c2s, sstream, idle, caller, clientDead, breaks>>
\* recvLoop of the server: settings are answered, SYN starts a stream, FIN ends one.
ServerReceives(s) ==
  /\ sess[s].server = "live" /\ c2s[s] # <<>> /\ c2s' = [c2s EXCEPT ![s] = Tail(@)]
  /\ LET f == Head(c2s[s]) IN
     \/ /\ f.cmd = "settings" /\ sess' = [sess EXCEPT ![s].settings = TRUE]
        /\ s2c' = Send(s2c, s, <<Frame("serversettings", 0)>>) /\ UNCHANGED sstream
     \/ /\ f.cmd = "syn" /\ sess[s].settings /\ UNCHANGED <<sess, s2c>>
        /\ sstream' = [sstream EXCEPT ![s][f.sid] = IF @ = "none" THEN "open" ELSE @]
     \/ /\ f.cmd = "fin" /\ UNCHANGED <<sess, s2c>>
        /\ sstream' = [sstream EXCEPT ![s][f.sid] = IF @ = "none" THEN @ ELSE "closed"]
  /\ UNCHANGED <<cstream, hooked, closing, idle, caller, clientDead, breaks>>
\* The server's handler reports once whether the destination was reached, and ends its stream.
HandshakeReport(s, i, ok) ==
  /\ sess[s].server = "live" /\ sstream[s][i] = "open" /\ sstream' = [sstream EXCEPT ![s][i] = "reported"]
  /\ s2c' = Send(s2c, s, <<Frame(IF ok THEN "synack" ELSE "synerr", i)>>)
  /\ UNCHANGED <<sess, c2s, cstream, hooked, closing, idle, caller, clientDead, breaks>>
ServerCloses(s, i) ==
  /\ sess[s].server = "live" /\ sstream[s][i] \in {"open", "reported"} /\ sstream' = [sstream EXCEPT ![s][i] = "closed"]
  /\ s2c' = Send(s2c, s, <<Frame("fin", i)>>)
  /\ UNCHANGED <<sess, c2s, cstream, hooked, closing, idle, caller, clientDead, breaks>>

\* A handshake that is not acknowledged in time closes the session; so does a broken connection, at
\* each end when it notices.
SynTimeout(s) ==
  /\ Live(s) /\ sess[s].watched /\ breaks < MaxBreaks /\ breaks' = breaks + 1
  /\ CloseClient(s) /\ UNCHANGED <<c2s, sstream, caller, clientDead>>
Break(s) ==
  /\ Live(s) /\ ~sess[s].cut /\ breaks < MaxBreaks /\ breaks' = breaks + 1 /\ sess' = [sess EXCEPT ![s].cut = TRUE]
  /\ SameWires /\ UNCHANGED <<cstream, hooked, closing, idle, caller, clientDead>>
ClientNotices(s) ==
  /\ Live(s) /\ sess[s].cut /\ CloseClient(s) /\ UNCHANGED <<c2s, sstream, caller, clientDead, breaks>>
ServerNotices(s) ==
  /\ sess[s].server = "live" /\ sess[s].cut /\ sess' = [sess EXCEPT ![s].server = "dead"]
  /\ sstream' = [sstream EXCEPT ![s] = [i \in StreamIds |-> "none"]] /\ c2s' = [c2s EXCEPT ![s] = <<>>]
  /\ UNCHANGED <<s2c, cstream, hooked, closing, idle, caller, clientDead, breaks>>
\* idleCleanupExpTime: of the idle sessions, newest first, MinIdleSession are kept whatever their age.
IdleCleanup(s) ==
  /\ s \in idle /\ Cardinality({t \in idle : t > s}) >= MinIdleSession
  /\ IF Live(s) THEN CloseClient(s) ELSE idle' = idle \ {s} /\ UNCHANGED <<sess, s2c, cstream, closing, hooked>>
  /\ UNCHANGED <<c2s, sstream, caller, clientDead, breaks>>
CloseClientPool ==
  /\ ~clientDead /\ clientDead' = TRUE /\ SameWires
  /\ sess' = [s \in SessionIds |-> IF Live(s) THEN [sess[s] EXCEPT !.client = "dead", !.cut = TRUE] ELSE sess[s]]
  /\ idle' = idle \ {s \in SessionIds : Live(s)}
  /\ cstream' = [s \in SessionIds |-> [i \in StreamIds |->
       IF i \in MappedStreams(s) \cap OpenStreams(s) THEN [at |-> "closed", mapped |-> FALSE] ELSE cstream[s][i]]]
  /\ hooked' = {} /\ UNCHANGED <<closing, caller, breaks>>

TlsNext ==
  \/ \E k \in Callers : GetIdleSession(k) \/ CreateSession(k) \/ OpenStream(k) \/ MapStream(k) \/ SetDieHook(k)
  \/ \E c \in closing : RunHook(c) \/ StreamClosed(c)
  \/ \E s \in SessionIds :
       \/ ClientReceives(s) \/ ServerReceives(s) \/ SynTimeout(s) \/ Break(s) \/ ClientNotices(s) \/ ServerNotices(s) \/ IdleCleanup(s)
       \/ \E i \in StreamIds : CloseStream(s, i) \/ ServerCloses(s, i) \/ \E ok \in BOOLEAN : HandshakeReport(s, i, ok)
  \/ CloseClientPool

\* The two ends of a session, the frames, the ends of a stream, a call and what is left of a close.
TlsSessions == [client : {"none", "live", "dead"}, server : {"none", "live", "dead"}, peer : BOOLEAN, settings : BOOLEAN,
                next : Nat, watched : BOOLEAN, cut : BOOLEAN]
TlsFrames == [cmd : {"settings", "syn", "fin", "serversettings", "synack", "synerr"}, sid : StreamIds \cup {0}]
ClientStreams == [at : {"none", "open", "closed"}, mapped : BOOLEAN]
TlsCalls == [at : {"idle"}, s : {0}, i : {0}] \cup [at : {"open"}, s : SessionIds, i : {0}]
            \cup [at : {"map", "hook"}, s : SessionIds, i : StreamIds]
Closers == [s : SessionIds, i : StreamIds, fin : BOOLEAN, at : {"check", "insert", "fin"}]
TlsTypeOK ==
  /\ sess \in [SessionIds -> TlsSessions]
  /\ c2s \in [SessionIds -> Seq(TlsFrames)] /\ s2c \in [SessionIds -> Seq(TlsFrames)]
  /\ cstream \in [SessionIds -> [StreamIds -> ClientStreams]]
  /\ sstream \in [SessionIds -> [StreamIds -> {"none", "open", "reported", "closed"}]]
  /\ hooked \subseteq SessionIds \X StreamIds /\ closing \subseteq Closers /\ idle \subseteq SessionIds
  /\ caller \in [Callers -> TlsCalls] /\ clientDead \in BOOLEAN /\ breaks \in 0..MaxBreaks

Busy(s) == OpenStreams(s) # {} \/ \E k \in Callers : caller[k].s = s
\* A connection serves one stream at a time and is never lost: every live session is in exactly one
\* hand, a stream that is open, a call that opens one, a hook that has yet to give it back, or the
\* pool, whenever the remote end, the owner and the registration of the hook come together.
OneHand ==
  /\ \A s \in idle : Live(s) => ~Busy(s)
  /\ \A s \in SessionIds : Cardinality(OpenStreams(s)) <= 1
  /\ \A s \in SessionIds : Live(s) =>
       s \in idle \/ Busy(s) \/ \E c \in closing : c.s = s /\ c.at \in {"check", "insert"}
====
