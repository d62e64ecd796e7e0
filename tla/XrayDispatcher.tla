-------------------------- MODULE XrayDispatcher --------------------------
(***************************************************************************)
(* The admission bookkeeping of the xray kernel: LimitDispatcher of         *)
(* src/internal/kernel/xray/dispatcher.go, for one user.  Connections are   *)
(* admitted and closed by xray's goroutines while the kernel changes the    *)
(* user's device limit.  A user with a limit is counted in limitedIPs, a    *)
(* map of maps under a read-write lock; one without in unlimitedIPs, a      *)
(* sync.Map of counters.  Every section under a lock and every operation    *)
(* of a sync.Map or an atomic is one step, and the steps of different       *)
(* connections interleave.  The maps of different users share nothing but   *)
(* the lock, so one user is enough.                                         *)
(***************************************************************************)
EXTENDS Integers, FiniteSets

CONSTANTS Conns,     \* connections the user may open
          Sources,   \* source addresses, numbers in the order of their strings
          Limits,    \* device limits the panel may set; 0 is none
          MaxEdits   \* how often UpdateLimits may change the limit

ASSUME DispatcherConstants ==
  /\ IsFiniteSet(Conns) /\ Sources \subseteq Int /\ IsFiniteSet(Sources)
  /\ Limits \subseteq Nat /\ MaxEdits \in Nat

VARIABLES limit,      \* deviceLimits[email]
          limited,    \* limitedIPs[email]: address -> its refcount, 0 for one it does not have
          present,    \* limitedIPs has a map for the user
          unlimited,  \* unlimitedIPs: address -> the counter in the map
          mixed,      \* unlimitedIPs has an entry for the user (nothing deletes it)
          connCount,  \* the counter of tracked links
          conn,       \* what each connection's goroutine is doing
          edits, panicked

dvars == <<limit, limited, present, unlimited, mixed, connCount, conn, edits, panicked>>
userMaps == <<limited, present, unlimited, mixed>>

NoCounter == [live |-> FALSE, n |-> 0]
Steps == {"new", "checking", "bump", "create", "full", "loaded", "admitted",
          "open", "dropping", "lowering", "decremented", "untracking", "gone"}
ConnType == [at : Steps, source : Sources \cup {0}, tcp : BOOLEAN, limit : Limits \cup {0},
             detached : BOOLEAN, left : {"gone", "untracking"}]
Fresh == [at |-> "new", source |-> 0, tcp |-> FALSE, limit |-> 0, detached |-> FALSE, left |-> "gone"]

DispatcherInit == /\ limit \in Limits /\ limited = [s \in Sources |-> 0] /\ present = FALSE
        /\ unlimited = [s \in Sources |-> NoCounter] /\ mixed = FALSE
        /\ connCount = 0 /\ edits = 0 /\ panicked = FALSE
        /\ conn = [c \in Conns |-> Fresh]

Goto(c, at) == conn' = [conn EXCEPT ![c].at = at]

---------------------------------------------------------------------------
(* Admission *)

UpdateLimits == /\ edits < MaxEdits /\ edits' = edits + 1
                /\ limit' \in Limits \ {limit}
                /\ UNCHANGED <<limited, present, unlimited, mixed, connCount, conn, panicked>>

(* identifyAndCheck, and the first read of checkDeviceLimit *)
Arrive(c) == \E s \in Sources, tcp \in BOOLEAN :
  /\ conn[c].at = "new"
  /\ conn' = [conn EXCEPT ![c] = [Fresh EXCEPT !.at = "checking", !.source = s, !.tcp = tcp, !.limit = limit]]
  /\ UNCHANGED <<limit, userMaps, connCount, edits, panicked>>

(* The fast path: the counter is fetched in one operation ... *)
LoadCounter(c) ==
  /\ conn[c].at = "checking" /\ conn[c].limit <= 0
  /\ IF conn[c].tcp
     THEN /\ mixed' = TRUE /\ Goto(c, "loaded")
          /\ unlimited' = [unlimited EXCEPT ![conn[c].source].live = TRUE]
     ELSE Goto(c, "admitted") /\ UNCHANGED <<mixed, unlimited>>
  /\ UNCHANGED <<limit, limited, present, connCount, edits, panicked>>

(* ... and raised in another; meanwhile delConn may have taken it out of the map *)
RaiseCounter(c) ==
  /\ conn[c].at = "loaded"
  /\ conn' = [conn EXCEPT ![c].at = "admitted", ![c].detached = FALSE]
  /\ unlimited' = IF conn[c].detached THEN unlimited
                  ELSE [unlimited EXCEPT ![conn[c].source].n = @ + 1]
  /\ UNCHANGED <<limit, limited, present, mixed, connCount, edits, panicked>>

IPs == {s \in Sources : limited[s] > 0}
Known(c) == conn[c].source \in IPs
Room(c) == Cardinality(IPs) < conn[c].limit

(* The slow path under the read lock: known addresses and free slots are
   admitted, and counted only after the lock was let go *)
Look(c) ==
  /\ conn[c].at = "checking" /\ conn[c].limit > 0
  /\ LET admit == present /\ (Known(c) \/ Room(c))
     IN  \/ ~admit /\ Goto(c, "full")
         \/ admit /\ ~conn[c].tcp /\ Goto(c, "admitted")
         \/ admit /\ conn[c].tcp /\ Known(c) /\ Goto(c, "bump")
         \/ admit /\ conn[c].tcp /\ ~Known(c) /\ Goto(c, "create")
  /\ UNCHANGED <<limit, userMaps, connCount, edits, panicked>>

Count(c) == limited' = [limited EXCEPT ![conn[c].source] = @ + 1]

(* limitedIPs[email][sourceIP]++ on a map that may be gone: a write to nil panics *)
Bump(c) ==
  /\ conn[c].at = "bump"
  /\ IF present THEN Count(c) /\ Goto(c, "admitted") /\ UNCHANGED panicked
                ELSE panicked' = TRUE /\ UNCHANGED <<limited, conn>>
  /\ UNCHANGED <<limit, present, unlimited, mixed, connCount, edits>>

Create(c) ==
  /\ conn[c].at = "create" /\ present' = TRUE /\ Count(c) /\ Goto(c, "admitted")
  /\ UNCHANGED <<limit, unlimited, mixed, connCount, edits, panicked>>

(* Under the write lock everything is checked again; over the limit the lowest
   addresses are admitted, whoever came first *)
LowestSource(c) == Cardinality({s \in IPs : s < conn[c].source}) < conn[c].limit
(* Mutant: UDP links are counted as well *)
RecheckCountingAll(c) ==
  /\ conn[c].at = "full" /\ present' = TRUE
  /\ LET admit == Known(c) \/ Room(c) \/ LowestSource(c)
     IN  /\ Goto(c, IF admit THEN "admitted" ELSE "gone")
         /\ IF admit THEN Count(c) ELSE UNCHANGED limited
  /\ UNCHANGED <<limit, unlimited, mixed, connCount, edits, panicked>>
Recheck(c) ==
  /\ conn[c].at = "full" /\ present' = TRUE
  /\ LET admit == Known(c) \/ Room(c) \/ LowestSource(c)
     IN  /\ Goto(c, IF admit THEN "admitted" ELSE "gone")
         /\ IF admit /\ conn[c].tcp THEN Count(c) ELSE UNCHANGED limited
  /\ UNCHANGED <<limit, unlimited, mixed, connCount, edits, panicked>>

(* Dispatch or DispatchLink: the link is tracked, or xray refuses the destination *)
TrackLink(c) ==
  /\ conn[c].at = "admitted" /\ Goto(c, "open") /\ connCount' = connCount + 1
  /\ UNCHANGED <<limit, userMaps, edits, panicked>>
DispatchFails(c) ==
  /\ conn[c].at = "admitted" /\ Goto(c, IF conn[c].tcp THEN "dropping" ELSE "gone")
  /\ UNCHANGED <<limit, userMaps, connCount, edits, panicked>>

---------------------------------------------------------------------------
(* Closing *)

(* closeTrackingWriter.Close or Interrupt, the first of them *)
Close(c) ==
  /\ conn[c].at = "open"
  /\ conn' = [conn EXCEPT ![c].at = IF conn[c].tcp THEN "dropping" ELSE "untracking", ![c].left = "untracking"]
  /\ UNCHANGED <<limit, userMaps, connCount, edits, panicked>>

(* delConn for a user that unlimitedIPs knows: the counter is fetched ... *)
Fetch(c) ==
  /\ conn[c].at = "dropping" /\ mixed
  /\ Goto(c, IF unlimited[conn[c].source].live THEN "lowering" ELSE conn[c].left)
  /\ UNCHANGED <<limit, userMaps, connCount, edits, panicked>>

(* ... and lowered; one that the map has lost may have been raised since *)
Lower(c) ==
  /\ conn[c].at = "lowering"
  /\ IF conn[c].detached
     THEN UNCHANGED unlimited /\ \E at \in {"decremented", conn[c].left} : Goto(c, at)
     ELSE /\ unlimited' = [unlimited EXCEPT ![conn[c].source].n = @ - 1]
          /\ Goto(c, IF unlimited[conn[c].source].n <= 1 THEN "decremented" ELSE conn[c].left)
  /\ UNCHANGED <<limit, limited, present, mixed, connCount, edits, panicked>>

(* ips.Delete: whoever holds the counter now raises one the map has lost *)
Delete(c) ==
  /\ conn[c].at = "decremented"
  /\ unlimited' = [unlimited EXCEPT ![conn[c].source] = NoCounter]
  /\ conn' = [d \in Conns |->
       IF d = c THEN [conn[c] EXCEPT !.at = conn[c].left]
       ELSE IF conn[d].at \in {"loaded", "lowering"} /\ conn[d].source = conn[c].source
            THEN [conn[d] EXCEPT !.detached = TRUE] ELSE conn[d]]
  /\ UNCHANGED <<limit, limited, present, mixed, connCount, edits, panicked>>

(* delConn for any other user *)
Release(c) ==
  /\ conn[c].at = "dropping" /\ ~mixed
  /\ limited' = [limited EXCEPT ![conn[c].source] = IF @ > 1 THEN @ - 1 ELSE 0]
  /\ present' = (present /\ \E s \in Sources : limited'[s] > 0)
  /\ Goto(c, conn[c].left)
  /\ UNCHANGED <<limit, unlimited, mixed, connCount, edits, panicked>>

Untrack(c) ==
  /\ conn[c].at = "untracking" /\ Goto(c, "gone") /\ connCount' = connCount - 1
  /\ UNCHANGED <<limit, userMaps, edits, panicked>>

Work(c) == \/ LoadCounter(c) \/ RaiseCounter(c) \/ Look(c) \/ Bump(c) \/ Create(c)
           \/ Recheck(c) \/ TrackLink(c) \/ DispatchFails(c) \/ Fetch(c) \/ Lower(c) \/ Delete(c)
           \/ Release(c) \/ Untrack(c)
DispatcherNext == ~panicked /\ (UpdateLimits \/ \E c \in Conns : Arrive(c) \/ Close(c) \/ Work(c))

---------------------------------------------------------------------------
(* GetConnectionState for this user *)
OnlineIPs == IPs \cup {s \in Sources : unlimited[s].live /\ unlimited[s].n > 0}

DispatcherTypeOK ==
  /\ limit \in Limits /\ present \in BOOLEAN /\ mixed \in BOOLEAN /\ panicked \in BOOLEAN
  /\ limited \in [Sources -> Nat]
  /\ unlimited \in [Sources -> [live : BOOLEAN, n : Int]]
  /\ connCount \in Int /\ edits \in 0..MaxEdits
  /\ conn \in [Conns -> ConnType]

Holders(s) == {c \in Conns : conn[c].source = s /\ conn[c].tcp
                 /\ conn[c].at \in {"admitted", "open", "dropping", "lowering"}}

(* The refcounts of dispatcher.go.  While the user has always had a limit,
   an address has exactly as many references as admitted TCP connections that
   are not closed: no device slot leaks and none is given back twice, whatever
   map is created and deleted under the other connections.  While it has never
   had one, an address is never counted more often than that, so that a user
   without connections has no device online. *)
SlotsExact ==
  /\ ~mixed => /\ \A s \in Sources : limited[s] = Cardinality(Holders(s))
               /\ OnlineIPs = {t \in Sources : Holders(t) # {}}
  /\ IPs = {} => \A s \in Sources : unlimited[s].n <= Cardinality(Holders(s))
  /\ connCount = Cardinality({c \in Conns : conn[c].at \in {"open", "untracking"}
        \/ (conn[c].at \in {"dropping", "lowering", "decremented"} /\ conn[c].left = "untracking")})
===========================================================================
