---- MODULE DataPlaneProofs ----
(* Every part of the data plane keeps its books, for any number of connections, users, sessions and   *)
(* changes: the slots of the dispatcher are those of its open connections, the counts of the tracker  *)
(* those of its flows, its bucket the panel's speed, sing-box serves one set of users, and an AnyTLS  *)
(* session is in one hand.                                                                             *)
EXTENDS DataPlane, SingBoxProofs, FiniteSetTheorems, SequenceTheorems, TLAPS

---------------------------------------------------------------------------
(* Counting *)

\* How many members of D have a value in R.
Having(D, f, R) == {d \in D : f[d] \in R}
Number(D, f, R) == Cardinality(Having(D, f, R))

LEMMA OneMoves ==
  ASSUME NEW D, IsFiniteSet(D), NEW f, NEW g, NEW R, NEW c \in D, \A d \in D \ {c} : g[d] = f[d]
  PROVE  /\ Number(D, f, R) \in Nat /\ Number(D, g, R) \in Nat
         /\ (f[c] \in R <=> g[c] \in R) => Number(D, g, R) = Number(D, f, R)
         /\ f[c] \notin R /\ g[c] \in R => Number(D, g, R) = Number(D, f, R) + 1
         /\ f[c] \in R /\ g[c] \notin R => Number(D, g, R) = Number(D, f, R) - 1
<1> DEFINE F == Having(D, f, R)
           G == Having(D, g, R)
<1>1. IsFiniteSet(F) /\ IsFiniteSet(G) /\ Cardinality(F) \in Nat /\ Cardinality(G) \in Nat
  <2>1. F \subseteq D /\ G \subseteq D
    BY DEF Having
  <2>2. QED
    BY <2>1, FS_Subset, FS_CardinalityType
<1>2. ASSUME f[c] \in R <=> g[c] \in R PROVE Cardinality(G) = Cardinality(F)
  <2>1. F = G
    BY <1>2 DEF Having
  <2>2. QED
    BY <2>1
<1>3. ASSUME f[c] \notin R, g[c] \in R PROVE Cardinality(G) = Cardinality(F) + 1
  <2>1. G = F \cup {c} /\ c \notin F
    BY <1>3 DEF Having
  <2>2. QED
    BY <1>1, <2>1, FS_AddElement
<1>4. ASSUME f[c] \in R, g[c] \notin R PROVE Cardinality(G) = Cardinality(F) - 1
  <2>1. G = F \ {c} /\ c \in F
    BY <1>4 DEF Having
  <2>2. QED
    BY <1>1, <2>1, FS_RemoveElement
<1>5. QED
  BY <1>1, <1>2, <1>3, <1>4 DEF Number

---------------------------------------------------------------------------
(* The dispatcher *)

Holding == {"admitted", "open", "dropping", "lowering"}
Closing == {"dropping", "lowering", "decremented"}

\* What is known of a connection at each of its steps.
ConnSound(c) ==
  /\ conn[c].at \in {"bump", "create", "loaded", "dropping", "lowering", "decremented"} => conn[c].tcp
  /\ conn[c].at \in {"loaded", "lowering", "decremented"} => mixed
  /\ conn[c].at # "new" => conn[c].source \in Sources
  /\ conn[c].at \notin Closing \cup {"untracking", "gone"} => conn[c].left = "gone"
  /\ conn[c].at \notin {"loaded", "lowering", "decremented", "untracking", "gone"} => ~conn[c].detached
  /\ conn[c].at \in {"loaded", "lowering"} /\ ~conn[c].detached => unlimited[conn[c].source].live

CountersSound ==
  /\ ~mixed => \A s \in Sources : unlimited[s] = NoCounter
  /\ \A s \in Sources : ~unlimited[s].live => unlimited[s].n = 0

\* The connections that hold a reference, those the counter of an address may still count (not one
\* whose counter the map has lost), and the tracked links.
HolderType(s) == {r \in ConnType : r.source = s /\ r.tcp /\ r.at \in Holding}
CountingType(s) == {r \in HolderType(s) : ~(r.at = "lowering" /\ r.detached)}
LinkType == {r \in ConnType : r.at \in {"open", "untracking"} \/ (r.at \in Closing /\ r.left = "untracking")}

LimitedExact == ~mixed => \A s \in Sources : limited[s] = Number(Conns, conn, HolderType(s))
UnlimitedBounded == IPs = {} => \A s \in Sources : unlimited[s].n <= Number(Conns, conn, CountingType(s))
LinksExact == connCount = Number(Conns, conn, LinkType)

---------------------------------------------------------------------------
DispSound == DispatcherTypeOK /\ (\A c \in Conns : ConnSound(c)) /\ CountersSound

LEMMA SoundStart == DispatcherInit => DispSound
<1> SUFFICES ASSUME DispatcherInit PROVE DispSound
  OBVIOUS
<1>1. Fresh \in ConnType
  BY DEF Fresh, ConnType, Steps
<1>2. conn = [c \in Conns |-> Fresh] /\ conn \in [Conns -> ConnType]
  BY <1>1 DEF DispatcherInit
<1>3. DispatcherTypeOK
  <2>1. limited \in [Sources -> Nat] /\ unlimited \in [Sources -> [live : BOOLEAN, n : Int]]
    BY DEF DispatcherInit, NoCounter
  <2>2. limit \in Limits /\ edits \in 0..MaxEdits /\ connCount \in Int
    BY DispatcherConstants DEF DispatcherInit
  <2>3. present \in BOOLEAN /\ mixed \in BOOLEAN /\ panicked \in BOOLEAN
    BY DEF DispatcherInit
  <2>4. QED
    BY <1>2, <2>1, <2>2, <2>3 DEF DispatcherTypeOK
<1>4. \A c \in Conns : ConnSound(c)
  BY <1>2 DEF ConnSound, Fresh, Closing
<1>5. CountersSound
  BY DEF CountersSound, DispatcherInit, NoCounter
<1>6. QED
  BY <1>3, <1>4, <1>5 DEF DispSound

\* Connection c goes to step `at` and nothing else of it, or of the others, changes.
Moves(c, at) ==
  /\ conn' \in [Conns -> ConnType] /\ conn'[c].at = at
  /\ conn'[c].source = conn[c].source /\ conn'[c].tcp = conn[c].tcp /\ conn'[c].limit = conn[c].limit
  /\ conn'[c].detached = conn[c].detached /\ conn'[c].left = conn[c].left
  /\ \A d \in Conns \ {c} : conn'[d] = conn[d]

LEMMA Moved == ASSUME DispatcherTypeOK, NEW c \in Conns, NEW at \in Steps, Goto(c, at) PROVE Moves(c, at)
<1>1. conn[c] \in ConnType
  BY DEF DispatcherTypeOK
<1>2. [conn[c] EXCEPT !.at = at] \in ConnType
  BY <1>1 DEF ConnType
<1>3. QED
  BY <1>1, <1>2 DEF Goto, DispatcherTypeOK, ConnType, Moves

\* A connection whose step is another's stays sound while the counters only come to life.
LEMMA OthersSound ==
  ASSUME DispSound, NEW c \in Conns, NEW d \in Conns \ {c}, conn'[d] = conn[d], mixed => mixed',
         \A s \in Sources : unlimited[s].live => unlimited'[s].live
  PROVE  ConnSound(d)'
BY DEF DispSound, ConnSound

LEMMA SoundStep == ASSUME DispSound, [DispatcherNext]_dvars PROVE DispSound'
<1> USE DispatcherConstants
<1>1. CASE UpdateLimits
  BY <1>1 DEF UpdateLimits, DispSound, DispatcherTypeOK, ConnSound, CountersSound, Closing
<1>2. CASE UNCHANGED dvars
  BY <1>2 DEF dvars, DispSound, DispatcherTypeOK, ConnSound, CountersSound, Closing, ConnType, NoCounter
<1>3. ASSUME NEW c \in Conns, Arrive(c) PROVE DispSound'
  <2>1. DispatcherTypeOK /\ ConnSound(c) /\ CountersSound /\ conn[c] \in ConnType
    BY DEF DispSound, DispatcherTypeOK
  <2>2. PICK s \in Sources, tcp \in BOOLEAN : conn[c].at = "new" /\ conn' = [conn EXCEPT ![c] = [Fresh EXCEPT !.at = "checking", !.source = s, !.tcp = tcp, !.limit = limit]]
    BY <1>3 DEF Arrive
  <2>3. [Fresh EXCEPT !.at = "checking", !.source = s, !.tcp = tcp, !.limit = limit] \in ConnType
    BY <2>1 DEF Fresh, Steps, ConnType, DispatcherTypeOK
  <2>4. DispatcherTypeOK'
    BY <1>3, <2>1, <2>2, <2>3 DEF Arrive, userMaps, DispatcherTypeOK
  <2>5. ConnSound(c)'
    BY <1>3, <2>1, <2>2 DEF Arrive, Fresh, userMaps, ConnSound, Closing, DispatcherTypeOK
  <2>6. \A d \in Conns \ {c} : ConnSound(d)'
    BY <1>3, <2>1, <2>2, OthersSound DEF Arrive, userMaps, DispatcherTypeOK
  <2>7. CountersSound'
    BY <1>3, <2>1 DEF Arrive, userMaps, CountersSound, NoCounter
  <2>8. QED
    BY <2>4, <2>5, <2>6, <2>7 DEF DispSound
<1>4. ASSUME NEW c \in Conns, Close(c) PROVE DispSound'
  <2>1. DispatcherTypeOK /\ ConnSound(c) /\ CountersSound /\ conn[c] \in ConnType
    BY DEF DispSound, DispatcherTypeOK
  <2>3. conn' \in [Conns -> ConnType]
    BY <1>4, <2>1 DEF Close, Steps, DispatcherTypeOK, ConnType
  <2>4. DispatcherTypeOK'
    BY <1>4, <2>1, <2>3 DEF Close, userMaps, DispatcherTypeOK, ConnSound
  <2>5. ConnSound(c)'
    BY <1>4, <2>1, <2>3 DEF Close, userMaps, ConnSound, CountersSound, Closing, ConnType
  <2>6. \A d \in Conns \ {c} : ConnSound(d)'
    BY <1>4, <2>1, <2>3, OthersSound DEF Close, userMaps
  <2>7. CountersSound'
    BY <1>4, <2>1, <2>3 DEF Close, userMaps, DispatcherTypeOK, ConnSound, CountersSound, NoCounter
  <2>8. QED
    BY <2>4, <2>5, <2>6, <2>7 DEF DispSound
<1>5. ASSUME NEW c \in Conns, LoadCounter(c) PROVE DispSound'
  <2>1. DispatcherTypeOK /\ ConnSound(c) /\ CountersSound /\ conn[c] \in ConnType
    BY DEF DispSound, DispatcherTypeOK
  <2>2. PICK at \in Steps : Goto(c, at) /\ at = IF conn[c].tcp THEN "loaded" ELSE "admitted"
    BY <1>5, <2>1 DEF LoadCounter, Steps, ConnType
  <2>3. Moves(c, at)
    BY <2>1, <2>2, Moved
  <2>4. /\ unlimited' \in [Sources -> [live : BOOLEAN, n : Int]] /\ mixed' \in BOOLEAN /\ (mixed => mixed')
        /\ \A s \in Sources : unlimited'[s].n = unlimited[s].n /\ (unlimited[s].live => unlimited'[s].live)
        /\ conn[c].tcp => mixed' /\ unlimited'[conn[c].source].live
        /\ ~conn[c].tcp => mixed' = mixed /\ unlimited' = unlimited
        /\ conn[c].at = "checking" /\ conn[c].source \in Sources
    <3>1. conn[c].at = "checking" /\ conn[c].source \in Sources
      BY <1>5, <2>1 DEF LoadCounter, ConnSound
    <3>2. CASE conn[c].tcp
      <4>1. mixed' = TRUE /\ unlimited' = [unlimited EXCEPT ![conn[c].source].live = TRUE]
        BY <1>5, <3>2 DEF LoadCounter
      <4>2. QED
        BY <2>1, <3>1, <3>2, <4>1 DEF DispatcherTypeOK
    <3>3. CASE ~conn[c].tcp
      BY <1>5, <2>1, <3>1, <3>3 DEF LoadCounter, DispatcherTypeOK
    <3>4. QED
      BY <3>1, <3>2, <3>3
  <2>5. DispatcherTypeOK'
    BY <1>5, <2>1, <2>3, <2>4 DEF LoadCounter, Moves, DispatcherTypeOK
  <2>6. ConnSound(c)'
    BY <2>1, <2>2, <2>3, <2>4 DEF Moves, ConnSound, Closing
  <2>7. \A d \in Conns \ {c} : ConnSound(d)'
    BY <2>3, <2>4, OthersSound DEF Moves
  <2>8. CountersSound'
    BY <2>1, <2>4 DEF CountersSound, DispatcherTypeOK
  <2>9. QED
    BY <2>5, <2>6, <2>7, <2>8 DEF DispSound
<1>6. ASSUME NEW c \in Conns, RaiseCounter(c) PROVE DispSound'
  <2>1. DispatcherTypeOK /\ ConnSound(c) /\ CountersSound /\ conn[c] \in ConnType
    BY DEF DispSound, DispatcherTypeOK
  <2>3. conn' \in [Conns -> ConnType]
    BY <1>6, <2>1 DEF RaiseCounter, Steps, DispatcherTypeOK, ConnType
  <2>4. DispatcherTypeOK'
    BY <1>6, <2>1, <2>3 DEF RaiseCounter, userMaps, DispatcherTypeOK, ConnSound
  <2>5. ConnSound(c)'
    BY <1>6, <2>1, <2>3 DEF RaiseCounter, userMaps, ConnSound, CountersSound, Closing, ConnType
  <2>6. \A d \in Conns \ {c} : ConnSound(d)'
    BY <1>6, <2>1, <2>3, OthersSound DEF RaiseCounter, userMaps
  <2>7. CountersSound'
    BY <1>6, <2>1, <2>3 DEF RaiseCounter, userMaps, DispatcherTypeOK, ConnSound, CountersSound, NoCounter
  <2>8. QED
    BY <2>4, <2>5, <2>6, <2>7 DEF DispSound
<1>7. ASSUME NEW c \in Conns, Look(c) PROVE DispSound'
  <2>1. DispatcherTypeOK /\ ConnSound(c) /\ CountersSound /\ conn[c] \in ConnType
    BY DEF DispSound, DispatcherTypeOK
  <2>2. PICK at \in {"full", "admitted", "bump", "create"} : Goto(c, at) /\ (at \in {"bump", "create"} => conn[c].tcp)
    BY <1>7 DEF Look
  <2>3. Moves(c, at) /\ conn[c].at = "checking"
    BY <1>7, <2>1, <2>2, Moved DEF Look, Steps
  <2>4. DispatcherTypeOK'
    BY <1>7, <2>1, <2>3 DEF Look, Moves, userMaps, DispatcherTypeOK
  <2>5. ConnSound(c)'
    BY <1>7, <2>1, <2>2, <2>3 DEF Look, Moves, userMaps, ConnSound, Closing
  <2>6. \A d \in Conns \ {c} : ConnSound(d)'
    BY <1>7, <2>3, OthersSound DEF Look, Moves, userMaps
  <2>7. CountersSound'
    BY <1>7, <2>1 DEF Look, userMaps, CountersSound, NoCounter
  <2>8. QED
    BY <2>4, <2>5, <2>6, <2>7 DEF DispSound
<1>8. ASSUME NEW c \in Conns, Bump(c) PROVE DispSound'
  <2>1. DispatcherTypeOK /\ ConnSound(c) /\ CountersSound /\ conn[c] \in ConnType
    BY DEF DispSound, DispatcherTypeOK
  <2>2. CASE present
    <3>1. Moves(c, "admitted") /\ conn[c].at = "bump" /\ conn[c].source \in Sources
      BY <1>8, <2>1, <2>2, Moved DEF Bump, Steps, ConnSound
    <3>2. limited' \in [Sources -> Nat]
      BY <1>8, <2>1, <2>2, <3>1 DEF Bump, Count, DispatcherTypeOK
    <3>3. DispatcherTypeOK'
      BY <1>8, <2>1, <2>2, <3>1, <3>2 DEF Bump, Moves, DispatcherTypeOK
    <3>4. ConnSound(c)'
      BY <1>8, <2>1, <3>1 DEF Bump, Moves, ConnSound, Closing
    <3>5. \A d \in Conns \ {c} : ConnSound(d)'
      BY <1>8, <3>1, OthersSound DEF Bump, Moves
    <3>6. CountersSound'
      BY <1>8, <2>1 DEF Bump, CountersSound, NoCounter
    <3>7. QED
      BY <3>3, <3>4, <3>5, <3>6 DEF DispSound
  <2>3. CASE ~present
    BY <1>8, <2>3 DEF Bump, DispSound, DispatcherTypeOK, ConnSound, CountersSound, Closing, NoCounter
  <2>4. QED
    BY <2>2, <2>3
<1>9. ASSUME NEW c \in Conns, Create(c) PROVE DispSound'
  <2>1. DispatcherTypeOK /\ ConnSound(c) /\ CountersSound /\ conn[c] \in ConnType
    BY DEF DispSound, DispatcherTypeOK
  <2>2. Moves(c, "admitted") /\ conn[c].at = "create" /\ conn[c].source \in Sources
    BY <1>9, <2>1, Moved DEF Create, Steps, ConnSound
  <2>3. limited' \in [Sources -> Nat]
    <3>1. limited' = [limited EXCEPT ![conn[c].source] = @ + 1]
      BY <1>9 DEF Create, Count
    <3>2. limited \in [Sources -> Nat]
      BY <2>1 DEF DispatcherTypeOK
    <3>3. limited[conn[c].source] \in Nat
      BY <2>2, <3>2
    <3>4. QED
      BY <2>2, <3>1, <3>2, <3>3
  <2>4. DispatcherTypeOK'
    BY <1>9, <2>1, <2>2, <2>3 DEF Create, Moves, DispatcherTypeOK
  <2>5. ConnSound(c)'
    BY <1>9, <2>1, <2>2 DEF Create, Moves, ConnSound, Closing
  <2>6. \A d \in Conns \ {c} : ConnSound(d)'
    BY <1>9, <2>2, OthersSound DEF Create, Moves
  <2>7. CountersSound'
    BY <1>9, <2>1 DEF Create, CountersSound, NoCounter
  <2>8. QED
    BY <2>4, <2>5, <2>6, <2>7 DEF DispSound
<1>10. ASSUME NEW c \in Conns, Recheck(c) PROVE DispSound'
  <2>1. DispatcherTypeOK /\ ConnSound(c) /\ CountersSound /\ conn[c] \in ConnType
    BY DEF DispSound, DispatcherTypeOK
  <2>2. PICK at \in Steps : Goto(c, at) /\ (at \in {"admitted", "gone"})
    BY <1>10, <2>1 DEF Recheck, Steps, ConnType
  <2>3. Moves(c, at)
    BY <2>1, <2>2, Moved
  <2>4. DispatcherTypeOK'
    BY <1>10, <2>1, <2>2, <2>3 DEF Recheck, Count, Moves, userMaps, DispatcherTypeOK, ConnSound
  <2>5. ConnSound(c)'
    BY <1>10, <2>1, <2>2, <2>3 DEF Recheck, Count, Moves, userMaps, ConnSound, CountersSound, Closing, ConnType
  <2>6. \A d \in Conns \ {c} : ConnSound(d)'
    BY <1>10, <2>1, <2>2, <2>3, OthersSound DEF Recheck, Count, Moves, userMaps
  <2>7. CountersSound'
    BY <1>10, <2>1, <2>2, <2>3 DEF Recheck, Count, userMaps, DispatcherTypeOK, ConnSound, CountersSound, NoCounter
  <2>8. QED
    BY <2>4, <2>5, <2>6, <2>7 DEF DispSound
<1>11. ASSUME NEW c \in Conns, TrackLink(c) PROVE DispSound'
  <2>1. DispatcherTypeOK /\ ConnSound(c) /\ CountersSound /\ conn[c] \in ConnType
    BY DEF DispSound, DispatcherTypeOK
  <2>2. PICK at \in Steps : Goto(c, at) /\ (at = "open")
    BY <1>11, <2>1 DEF TrackLink, Steps, ConnType
  <2>3. Moves(c, at)
    BY <2>1, <2>2, Moved
  <2>4. DispatcherTypeOK'
    BY <1>11, <2>1, <2>2, <2>3 DEF TrackLink, Moves, userMaps, DispatcherTypeOK, ConnSound
  <2>5. ConnSound(c)'
    BY <1>11, <2>1, <2>2, <2>3 DEF TrackLink, Moves, userMaps, ConnSound, CountersSound, Closing, ConnType
  <2>6. \A d \in Conns \ {c} : ConnSound(d)'
    BY <1>11, <2>1, <2>2, <2>3, OthersSound DEF TrackLink, Moves, userMaps
  <2>7. CountersSound'
    BY <1>11, <2>1, <2>2, <2>3 DEF TrackLink, userMaps, DispatcherTypeOK, ConnSound, CountersSound, NoCounter
  <2>8. QED
    BY <2>4, <2>5, <2>6, <2>7 DEF DispSound
<1>12. ASSUME NEW c \in Conns, DispatchFails(c) PROVE DispSound'
  <2>1. DispatcherTypeOK /\ ConnSound(c) /\ CountersSound /\ conn[c] \in ConnType
    BY DEF DispSound, DispatcherTypeOK
  <2>2. PICK at \in Steps : Goto(c, at) /\ (at = IF conn[c].tcp THEN "dropping" ELSE "gone")
    BY <1>12, <2>1 DEF DispatchFails, Steps, ConnType
  <2>3. Moves(c, at)
    BY <2>1, <2>2, Moved
  <2>4. DispatcherTypeOK'
    BY <1>12, <2>1, <2>2, <2>3 DEF DispatchFails, Moves, userMaps, DispatcherTypeOK, ConnSound
  <2>5. ConnSound(c)'
    BY <1>12, <2>1, <2>2, <2>3 DEF DispatchFails, Moves, userMaps, ConnSound, CountersSound, Closing, ConnType
  <2>6. \A d \in Conns \ {c} : ConnSound(d)'
    BY <1>12, <2>1, <2>2, <2>3, OthersSound DEF DispatchFails, Moves, userMaps
  <2>7. CountersSound'
    BY <1>12, <2>1, <2>2, <2>3 DEF DispatchFails, userMaps, DispatcherTypeOK, ConnSound, CountersSound, NoCounter
  <2>8. QED
    BY <2>4, <2>5, <2>6, <2>7 DEF DispSound
<1>13. ASSUME NEW c \in Conns, Fetch(c) PROVE DispSound'
  <2>1. DispatcherTypeOK /\ ConnSound(c) /\ CountersSound /\ conn[c] \in ConnType
    BY DEF DispSound, DispatcherTypeOK
  <2>2. PICK at \in Steps : Goto(c, at) /\ (at = conn[c].left \/ (at = "lowering" /\ unlimited[conn[c].source].live))
    BY <1>13, <2>1 DEF Fetch, Steps, ConnType
  <2>3. Moves(c, at)
    BY <2>1, <2>2, Moved
  <2>4. DispatcherTypeOK'
    BY <1>13, <2>1, <2>2, <2>3 DEF Fetch, Moves, userMaps, DispatcherTypeOK, ConnSound
  <2>5. ConnSound(c)'
    BY <1>13, <2>1, <2>2, <2>3 DEF Fetch, Moves, userMaps, ConnSound, CountersSound, Closing, ConnType
  <2>6. \A d \in Conns \ {c} : ConnSound(d)'
    BY <1>13, <2>1, <2>2, <2>3, OthersSound DEF Fetch, Moves, userMaps
  <2>7. CountersSound'
    BY <1>13, <2>1, <2>2, <2>3 DEF Fetch, userMaps, DispatcherTypeOK, ConnSound, CountersSound, NoCounter
  <2>8. QED
    BY <2>4, <2>5, <2>6, <2>7 DEF DispSound
<1>14. ASSUME NEW c \in Conns, Lower(c) PROVE DispSound'
  <2>1. DispatcherTypeOK /\ ConnSound(c) /\ CountersSound /\ conn[c] \in ConnType
    BY DEF DispSound, DispatcherTypeOK
  <2>2. PICK at \in Steps : Goto(c, at) /\ (at = conn[c].left \/ at = "decremented")
    BY <1>14, <2>1 DEF Lower, Steps, ConnType
  <2>3. Moves(c, at) /\ conn[c].at = "lowering" /\ conn[c].source \in Sources
    BY <1>14, <2>1, <2>2, Moved DEF Lower, ConnSound
  <2>4. /\ unlimited' \in [Sources -> [live : BOOLEAN, n : Int]] /\ mixed' = mixed
        /\ \A s \in Sources : unlimited'[s].live = unlimited[s].live
        /\ \A s \in Sources : unlimited[s].live \/ unlimited'[s] = unlimited[s]
    <3>1. CASE conn[c].detached
      BY <1>14, <2>1, <2>3, <3>1 DEF Lower, DispatcherTypeOK
    <3>2. CASE ~conn[c].detached
      BY <1>14, <2>1, <2>3, <3>2 DEF Lower, DispatcherTypeOK, ConnSound
    <3>3. QED
      BY <3>1, <3>2
  <2>5. DispatcherTypeOK'
    BY <1>14, <2>1, <2>3, <2>4 DEF Lower, Moves, DispatcherTypeOK
  <2>6. ConnSound(c)'
    BY <2>1, <2>2, <2>3, <2>4 DEF Moves, ConnSound, Closing, ConnType
  <2>7. \A d \in Conns \ {c} : ConnSound(d)'
    BY <2>3, <2>4, OthersSound DEF Moves
  <2>8. CountersSound'
    BY <2>1, <2>3, <2>4 DEF CountersSound, ConnSound
  <2>9. QED
    BY <2>5, <2>6, <2>7, <2>8 DEF DispSound
<1>15. ASSUME NEW c \in Conns, Delete(c) PROVE DispSound'
  <2>1. DispatcherTypeOK /\ ConnSound(c) /\ CountersSound /\ conn[c] \in ConnType
    BY DEF DispSound, DispatcherTypeOK
  <2>2. conn[c].at = "decremented" /\ conn[c].source \in Sources /\ mixed /\ mixed' = mixed
    BY <1>15, <2>1 DEF Delete, ConnSound
  <2>3. /\ unlimited' \in [Sources -> [live : BOOLEAN, n : Int]] /\ unlimited'[conn[c].source] = NoCounter
        /\ \A s \in Sources \ {conn[c].source} : unlimited'[s] = unlimited[s]
    BY <1>15, <2>1, <2>2 DEF Delete, NoCounter, DispatcherTypeOK
  <2>4. conn'[c] = [conn[c] EXCEPT !.at = conn[c].left] /\ conn'[c] \in ConnType
    BY <1>15, <2>1 DEF Delete, ConnType, Steps
  <2>5. ASSUME NEW d \in Conns \ {c} PROVE conn'[d] \in ConnType /\ ConnSound(d)'
    <3>1. conn[d] \in ConnType /\ ConnSound(d)
      BY DEF DispSound, DispatcherTypeOK
    <3>2. CASE conn[d].at \in {"loaded", "lowering"} /\ conn[d].source = conn[c].source
      <4>1. conn'[d] = [conn[d] EXCEPT !.detached = TRUE]
        BY <1>15, <3>2 DEF Delete
      <4>2. QED
        BY <2>2, <3>1, <3>2, <4>1 DEF ConnType, ConnSound, Closing
    <3>3. CASE ~(conn[d].at \in {"loaded", "lowering"} /\ conn[d].source = conn[c].source)
      <4>1. conn'[d] = conn[d]
        BY <1>15, <3>3 DEF Delete
      <4>2. QED
        BY <2>2, <2>3, <3>1, <3>3, <4>1 DEF ConnSound
    <3>4. QED
      BY <3>2, <3>3
  <2>6. conn' \in [Conns -> ConnType]
    <3>1. \A d \in Conns : conn'[d] \in ConnType
      BY <2>4, <2>5
    <3>2. QED
      BY <1>15, <3>1 DEF Delete
  <2>7. DispatcherTypeOK'
    BY <1>15, <2>1, <2>3, <2>6 DEF Delete, DispatcherTypeOK
  <2>8. ConnSound(c)'
    BY <2>1, <2>2, <2>4 DEF ConnSound, Closing, ConnType
  <2>9. CountersSound'
    BY <2>1, <2>2, <2>3 DEF CountersSound, NoCounter
  <2>10. QED
    BY <2>5, <2>7, <2>8, <2>9 DEF DispSound
<1>16. ASSUME NEW c \in Conns, Release(c) PROVE DispSound'
  <2>1. DispatcherTypeOK /\ ConnSound(c) /\ CountersSound /\ conn[c] \in ConnType
    BY DEF DispSound, DispatcherTypeOK
  <2>2. Goto(c, conn[c].left) /\ conn[c].left \in Steps
    BY <1>16, <2>1 DEF Release, Steps, ConnType
  <2>3. Moves(c, conn[c].left) /\ conn[c].at = "dropping" /\ conn[c].source \in Sources
    BY <1>16, <2>1, <2>2, Moved DEF Release, ConnSound
  <2>4. limited' \in [Sources -> Nat] /\ present' \in BOOLEAN
    <3>1. limited[conn[c].source] \in Nat /\ limited' = [limited EXCEPT ![conn[c].source] = IF @ > 1 THEN @ - 1 ELSE 0]
      BY <1>16, <2>1, <2>3 DEF Release, DispatcherTypeOK
    <3>2. limited' \in [Sources -> Nat]
      <4>1. (IF limited[conn[c].source] > 1 THEN limited[conn[c].source] - 1 ELSE 0) \in Nat
        BY <3>1
      <4>2. limited \in [Sources -> Nat]
        BY <2>1 DEF DispatcherTypeOK
      <4>3. QED
        BY <3>1, <4>1, <4>2
    <3>3. present' \in BOOLEAN
      BY <1>16, Zenon DEF Release
    <3>4. QED
      BY <3>2, <3>3
  <2>5. DispatcherTypeOK'
    BY <1>16, <2>1, <2>3, <2>4 DEF Release, Moves, DispatcherTypeOK
  <2>6. ConnSound(c)'
    BY <1>16, <2>1, <2>3 DEF Release, Moves, ConnSound, Closing, ConnType
  <2>7. \A d \in Conns \ {c} : ConnSound(d)'
    BY <1>16, <2>3, OthersSound DEF Release, Moves
  <2>8. CountersSound'
    BY <1>16, <2>1 DEF Release, CountersSound, NoCounter
  <2>9. QED
    BY <2>5, <2>6, <2>7, <2>8 DEF DispSound
<1>17. ASSUME NEW c \in Conns, Untrack(c) PROVE DispSound'
  <2>1. DispatcherTypeOK /\ ConnSound(c) /\ CountersSound /\ conn[c] \in ConnType
    BY DEF DispSound, DispatcherTypeOK
  <2>2. PICK at \in Steps : Goto(c, at) /\ (at = "gone")
    BY <1>17, <2>1 DEF Untrack, Steps, ConnType
  <2>3. Moves(c, at)
    BY <2>1, <2>2, Moved
  <2>4. DispatcherTypeOK'
    BY <1>17, <2>1, <2>2, <2>3 DEF Untrack, Moves, userMaps, DispatcherTypeOK, ConnSound
  <2>5. ConnSound(c)'
    BY <1>17, <2>1, <2>2, <2>3 DEF Untrack, Moves, userMaps, ConnSound, CountersSound, Closing, ConnType
  <2>6. \A d \in Conns \ {c} : ConnSound(d)'
    BY <1>17, <2>1, <2>2, <2>3, OthersSound DEF Untrack, Moves, userMaps
  <2>7. CountersSound'
    BY <1>17, <2>1, <2>2, <2>3 DEF Untrack, userMaps, DispatcherTypeOK, ConnSound, CountersSound, NoCounter
  <2>8. QED
    BY <2>4, <2>5, <2>6, <2>7 DEF DispSound
<1>18. QED
  BY <1>1, <1>2, <1>3, <1>4, <1>5, <1>6, <1>7, <1>8, <1>9, <1>10, <1>11, <1>12, <1>13, <1>14, <1>15, <1>16, <1>17 DEF DispatcherNext, Work

---------------------------------------------------------------------------
\* What one connection's step does to the numbers the properties speak of.
LEMMA NumberMoves ==
  ASSUME NEW c \in Conns, \A d \in Conns \ {c} : conn'[d] = conn[d]
  PROVE  \A R : /\ Number(Conns, conn, R) \in Nat /\ Number(Conns, conn', R) \in Nat
                /\ (conn[c] \in R <=> conn'[c] \in R) => Number(Conns, conn', R) = Number(Conns, conn, R)
                /\ conn[c] \notin R /\ conn'[c] \in R => Number(Conns, conn', R) = Number(Conns, conn, R) + 1
                /\ conn[c] \in R /\ conn'[c] \notin R => Number(Conns, conn', R) = Number(Conns, conn, R) - 1
BY DispatcherConstants, OneMoves

\* The counts the properties speak of follow every step.
DispCounts == LimitedExact /\ UnlimitedBounded /\ LinksExact

LEMMA CountsStep ==
  ASSUME DispSound, DispSound', DispCounts, [DispatcherNext]_dvars
  PROVE  DispCounts'
<1> USE DispatcherConstants
<1>1. CASE UpdateLimits
  BY <1>1 DEF UpdateLimits, DispCounts, LimitedExact, UnlimitedBounded, LinksExact, IPs
<1>2. CASE UNCHANGED dvars
  BY <1>2 DEF dvars, DispCounts, LimitedExact, UnlimitedBounded, LinksExact, IPs
<1>3. ASSUME NEW c \in Conns, Arrive(c) PROVE DispCounts'
  <2>1. /\ DispatcherTypeOK /\ DispatcherTypeOK' /\ ConnSound(c) /\ CountersSound /\ CountersSound'
        /\ conn[c] \in ConnType /\ conn'[c] \in ConnType
    BY DEF DispSound, DispatcherTypeOK
  <2>2. /\ conn[c].at = "new" /\ conn'[c].at = "checking"
        /\ \A d \in Conns \ {c} : conn'[d] = conn[d]
    BY <1>3, <2>1 DEF Arrive, Fresh, Goto, DispatcherTypeOK, ConnType
  <2>3. /\ \A s : conn[c] \in HolderType(s) <=> conn'[c] \in HolderType(s)
        /\ \A s : conn[c] \in CountingType(s) <=> conn'[c] \in CountingType(s)
        /\ conn[c] \in LinkType <=> conn'[c] \in LinkType
    BY <2>1, <2>2 DEF HolderType, CountingType, LinkType, Holding, Closing, ConnSound, ConnType
  <2>4. LimitedExact'
    <3>1. mixed' = mixed /\ limited' = limited
      BY <1>3 DEF Arrive, userMaps
    <3>2. QED
      BY <2>2, <2>3, <3>1, NumberMoves DEF DispCounts, LimitedExact
  <2>5. UnlimitedBounded'
    BY <1>3, <2>1, <2>2, <2>3, NumberMoves DEF DispCounts, UnlimitedBounded, IPs, Arrive, userMaps
  <2>6. LinksExact'
    BY <1>3, <2>1, <2>2, <2>3, NumberMoves DEF DispCounts, LinksExact, Arrive, userMaps
  <2>7. QED
    BY <2>4, <2>5, <2>6 DEF DispCounts
<1>4. ASSUME NEW c \in Conns, Close(c) PROVE DispCounts'
  <2>1. /\ DispatcherTypeOK /\ DispatcherTypeOK' /\ ConnSound(c) /\ CountersSound /\ CountersSound'
        /\ conn[c] \in ConnType /\ conn'[c] \in ConnType
    BY DEF DispSound, DispatcherTypeOK
  <2>2. /\ conn[c].at = "open" /\ conn[c].left = "gone" /\ conn'[c].left = "untracking" /\ conn'[c].source = conn[c].source /\ conn'[c].tcp = conn[c].tcp
        /\ conn'[c].at = (IF conn[c].tcp THEN "dropping" ELSE "untracking") /\ conn'[c].detached = conn[c].detached
        /\ \A d \in Conns \ {c} : conn'[d] = conn[d]
    BY <1>4, <2>1 DEF Close, ConnSound, Closing, Goto, DispatcherTypeOK, ConnType
  <2>3. /\ \A s : conn[c] \in HolderType(s) <=> conn'[c] \in HolderType(s)
        /\ \A s : conn[c] \in CountingType(s) <=> conn'[c] \in CountingType(s)
        /\ conn[c] \in LinkType <=> conn'[c] \in LinkType
    BY <2>1, <2>2 DEF HolderType, CountingType, LinkType, Holding, Closing, ConnSound, ConnType
  <2>4. LimitedExact'
    BY <1>4, <2>1, <2>2, <2>3, NumberMoves DEF DispCounts, LimitedExact, Close, userMaps
  <2>5. UnlimitedBounded'
    BY <1>4, <2>1, <2>2, <2>3, NumberMoves DEF DispCounts, UnlimitedBounded, IPs, Close, userMaps
  <2>6. LinksExact'
    BY <1>4, <2>1, <2>2, <2>3, NumberMoves DEF DispCounts, LinksExact, Close, userMaps
  <2>7. QED
    BY <2>4, <2>5, <2>6 DEF DispCounts
<1>5. ASSUME NEW c \in Conns, LoadCounter(c) PROVE DispCounts'
  <2>1. /\ DispatcherTypeOK /\ DispatcherTypeOK' /\ ConnSound(c) /\ CountersSound /\ CountersSound'
        /\ conn[c] \in ConnType /\ conn'[c] \in ConnType
    BY DEF DispSound, DispatcherTypeOK
  <2>2. /\ conn[c].at = "checking" /\ conn'[c].at = (IF conn[c].tcp THEN "loaded" ELSE "admitted") /\ conn'[c].source = conn[c].source /\ conn'[c].tcp = conn[c].tcp
        /\ conn'[c].detached = conn[c].detached /\ conn'[c].left = conn[c].left
        /\ \A d \in Conns \ {c} : conn'[d] = conn[d]
    BY <1>5, <2>1 DEF LoadCounter, Goto, DispatcherTypeOK, ConnType
  <2>3. /\ \A s : conn[c] \in HolderType(s) <=> conn'[c] \in HolderType(s)
        /\ \A s : conn[c] \in CountingType(s) <=> conn'[c] \in CountingType(s)
        /\ conn[c] \in LinkType <=> conn'[c] \in LinkType
    BY <2>1, <2>2 DEF HolderType, CountingType, LinkType, Holding, Closing, ConnSound, ConnType
  <2>4. /\ limited' = limited /\ connCount' = connCount /\ (mixed => mixed')
        /\ \A s \in Sources : unlimited'[s].n = unlimited[s].n
    BY <1>5, <2>1 DEF LoadCounter, DispatcherTypeOK
  <2>5. LimitedExact'
    BY <1>5, <2>1, <2>2, <2>3, <2>4, NumberMoves DEF DispCounts, LimitedExact
  <2>6. UnlimitedBounded'
    BY <2>1, <2>2, <2>3, <2>4, NumberMoves DEF DispCounts, UnlimitedBounded, IPs
  <2>7. LinksExact'
    BY <2>1, <2>2, <2>3, <2>4, NumberMoves DEF DispCounts, LinksExact
  <2>8. QED
    BY <2>5, <2>6, <2>7 DEF DispCounts
<1>6. ASSUME NEW c \in Conns, RaiseCounter(c) PROVE DispCounts'
  <2>1. /\ DispatcherTypeOK /\ DispatcherTypeOK' /\ ConnSound(c) /\ CountersSound /\ CountersSound'
        /\ conn[c] \in ConnType /\ conn'[c] \in ConnType
    BY DEF DispSound, DispatcherTypeOK
  <2>2. /\ conn[c].at = "loaded" /\ conn[c].tcp /\ mixed /\ conn'[c].at = "admitted" /\ conn'[c].source = conn[c].source /\ conn'[c].tcp = conn[c].tcp
        /\ ~conn'[c].detached /\ conn[c].source \in Sources /\ conn[c].left = "gone" /\ conn'[c].left = conn[c].left
        /\ \A d \in Conns \ {c} : conn'[d] = conn[d]
    BY <1>6, <2>1 DEF RaiseCounter, ConnSound, Closing, Goto, DispatcherTypeOK, ConnType
  <2>3. /\ TRUE
        /\ \A s : conn'[c] \in CountingType(s) <=> s = conn[c].source
        /\ \A s : conn[c] \notin CountingType(s)
        /\ conn[c] \in LinkType <=> conn'[c] \in LinkType
    BY <2>1, <2>2 DEF HolderType, CountingType, LinkType, Holding, Closing, ConnSound, ConnType
  <2>4. LimitedExact'
    BY <1>6, <2>2 DEF LimitedExact, RaiseCounter
  <2>5. UnlimitedBounded'
    <3>1. limited' = limited /\ \A s \in Sources : unlimited'[s].n <= unlimited[s].n + IF s = conn[c].source THEN 1 ELSE 0
      BY <1>6, <2>1, <2>2 DEF RaiseCounter, DispatcherTypeOK
    <3>2. SUFFICES ASSUME IPs = {}, NEW s \in Sources PROVE unlimited'[s].n <= Number(Conns, conn', CountingType(s))
      BY <3>1 DEF UnlimitedBounded, IPs
    <3>3. unlimited[s].n <= Number(Conns, conn, CountingType(s)) /\ unlimited[s].n \in Int /\ unlimited'[s].n \in Int
      BY <2>1, <3>2 DEF DispCounts, UnlimitedBounded, DispatcherTypeOK
    <3>4. /\ Number(Conns, conn, CountingType(s)) \in Nat /\ Number(Conns, conn', CountingType(s)) \in Nat
          /\ Number(Conns, conn', CountingType(s)) = Number(Conns, conn, CountingType(s)) + IF s = conn[c].source THEN 1 ELSE 0
      BY <2>1, <2>2, <2>3, NumberMoves
    <3>5. unlimited'[s].n <= unlimited[s].n + IF s = conn[c].source THEN 1 ELSE 0
      BY <3>1
    <3>6. QED
      BY <3>3, <3>4, <3>5
  <2>6. LinksExact'
    BY <1>6, <2>1, <2>2, <2>3, NumberMoves DEF DispCounts, LinksExact, RaiseCounter
  <2>7. QED
    BY <2>4, <2>5, <2>6 DEF DispCounts
<1>7. ASSUME NEW c \in Conns, Look(c) PROVE DispCounts'
  <2>1. /\ DispatcherTypeOK /\ DispatcherTypeOK' /\ ConnSound(c) /\ CountersSound /\ CountersSound'
        /\ conn[c] \in ConnType /\ conn'[c] \in ConnType
    BY DEF DispSound, DispatcherTypeOK
  <2>2. /\ conn[c].at = "checking" /\ conn'[c].at \in {"full", "admitted", "bump", "create"} /\ conn'[c].source = conn[c].source /\ conn'[c].tcp = conn[c].tcp
        /\ conn'[c].detached = conn[c].detached /\ conn'[c].left = conn[c].left
        /\ conn'[c].at = "admitted" => ~conn[c].tcp
        /\ \A d \in Conns \ {c} : conn'[d] = conn[d]
    BY <1>7, <2>1 DEF Look, Goto, DispatcherTypeOK, ConnType
  <2>3. /\ \A s : conn[c] \in HolderType(s) <=> conn'[c] \in HolderType(s)
        /\ \A s : conn[c] \in CountingType(s) <=> conn'[c] \in CountingType(s)
        /\ conn[c] \in LinkType <=> conn'[c] \in LinkType
    BY <2>1, <2>2 DEF HolderType, CountingType, LinkType, Holding, Closing, ConnSound, ConnType
  <2>4. LimitedExact'
    BY <1>7, <2>1, <2>2, <2>3, NumberMoves DEF DispCounts, LimitedExact, Look, userMaps
  <2>5. UnlimitedBounded'
    BY <1>7, <2>1, <2>2, <2>3, NumberMoves DEF DispCounts, UnlimitedBounded, IPs, Look, userMaps
  <2>6. LinksExact'
    BY <1>7, <2>1, <2>2, <2>3, NumberMoves DEF DispCounts, LinksExact, Look, userMaps
  <2>7. QED
    BY <2>4, <2>5, <2>6 DEF DispCounts
<1>8. ASSUME NEW c \in Conns, Bump(c) PROVE DispCounts'
  <2>1. /\ DispatcherTypeOK /\ DispatcherTypeOK' /\ ConnSound(c) /\ CountersSound /\ CountersSound'
        /\ conn[c] \in ConnType /\ conn'[c] \in ConnType
    BY DEF DispSound, DispatcherTypeOK
  <2>2. CASE ~present
    BY <1>8, <2>2 DEF Bump, DispCounts, LimitedExact, UnlimitedBounded, LinksExact, IPs
  <2>3. ASSUME present PROVE DispCounts'
    <3>2. /\ conn[c].at = "bump" /\ conn[c].tcp /\ conn[c].left = "gone" /\ conn'[c].at = "admitted" /\ conn'[c].source = conn[c].source /\ conn'[c].tcp = conn[c].tcp
          /\ conn'[c].detached = conn[c].detached /\ conn'[c].left = conn[c].left
          /\ \A d \in Conns \ {c} : conn'[d] = conn[d]
      BY <1>8, <2>1, <2>3 DEF Bump, Goto, DispatcherTypeOK, ConnType, ConnSound, Closing
    <3>3. /\ \A s : conn'[c] \in HolderType(s) <=> s = conn[c].source
          /\ \A s : conn[c] \notin HolderType(s)
          /\ TRUE
          /\ conn[c] \in LinkType <=> conn'[c] \in LinkType
      BY <2>1, <3>2 DEF HolderType, CountingType, LinkType, Holding, Closing, ConnSound, ConnType
    <3>4. conn[c].source \in Sources /\ limited' = [limited EXCEPT ![conn[c].source] = @ + 1] /\ limited[conn[c].source] \in Nat
      BY <1>8, <2>3, <2>1, <3>2 DEF Bump, Count, ConnSound, DispatcherTypeOK
    <3>5. LimitedExact'
      BY <1>8, <2>3, <2>1, <3>2, <3>3, <3>4, NumberMoves DEF DispCounts, LimitedExact, Bump, DispatcherTypeOK
    <3>6. UnlimitedBounded'
      <4>1. limited'[conn[c].source] > 0
        BY <2>1, <3>4 DEF DispatcherTypeOK
      <4>2. QED
        BY <3>4, <4>1 DEF UnlimitedBounded, IPs
    <3>7. LinksExact'
      BY <1>8, <2>3, <2>1, <3>2, <3>3, NumberMoves DEF DispCounts, LinksExact, Bump
    <3>8. QED
      BY <3>5, <3>6, <3>7 DEF DispCounts
  <2>4. QED
    BY <2>2, <2>3
<1>9. ASSUME NEW c \in Conns, Create(c) PROVE DispCounts'
  <2>1. /\ DispatcherTypeOK /\ DispatcherTypeOK' /\ ConnSound(c) /\ CountersSound /\ CountersSound'
        /\ conn[c] \in ConnType /\ conn'[c] \in ConnType
    BY DEF DispSound, DispatcherTypeOK
  <2>2. /\ conn[c].at = "create" /\ conn[c].tcp /\ conn[c].left = "gone" /\ conn'[c].at = "admitted" /\ conn'[c].source = conn[c].source /\ conn'[c].tcp = conn[c].tcp
        /\ conn'[c].detached = conn[c].detached /\ conn'[c].left = conn[c].left
        /\ \A d \in Conns \ {c} : conn'[d] = conn[d]
    BY <1>9, <2>1 DEF Create, ConnSound, Closing, Goto, DispatcherTypeOK, ConnType
  <2>3. /\ \A s : conn'[c] \in HolderType(s) <=> s = conn[c].source
        /\ \A s : conn[c] \notin HolderType(s)
        /\ TRUE
        /\ conn[c] \in LinkType <=> conn'[c] \in LinkType
    BY <2>1, <2>2 DEF HolderType, CountingType, LinkType, Holding, Closing, ConnSound, ConnType
  <2>4. conn[c].source \in Sources /\ limited' = [limited EXCEPT ![conn[c].source] = @ + 1] /\ limited[conn[c].source] \in Nat
    BY <1>9, <2>1, <2>2 DEF Create, Count, ConnSound, DispatcherTypeOK
  <2>5. LimitedExact'
    BY <1>9, <2>1, <2>2, <2>3, <2>4, NumberMoves DEF DispCounts, LimitedExact, Create, DispatcherTypeOK
  <2>6. UnlimitedBounded'
    <3>1. limited'[conn[c].source] > 0
      BY <2>1, <2>4 DEF DispatcherTypeOK
    <3>2. QED
      BY <2>4, <3>1 DEF UnlimitedBounded, IPs
  <2>7. LinksExact'
    BY <1>9, <2>1, <2>2, <2>3, NumberMoves DEF DispCounts, LinksExact, Create
  <2>8. QED
    BY <2>5, <2>6, <2>7 DEF DispCounts
<1>10. ASSUME NEW c \in Conns, Recheck(c) PROVE DispCounts'
  <2>1. /\ DispatcherTypeOK /\ DispatcherTypeOK' /\ ConnSound(c) /\ CountersSound /\ CountersSound'
        /\ conn[c] \in ConnType /\ conn'[c] \in ConnType
    BY DEF DispSound, DispatcherTypeOK
  <2>2. /\ conn[c].at = "full" /\ conn[c].left = "gone" /\ conn'[c].at \in {"admitted", "gone"} /\ conn'[c].source = conn[c].source /\ conn'[c].tcp = conn[c].tcp
        /\ conn'[c].detached = conn[c].detached /\ conn'[c].left = conn[c].left
        /\ \A d \in Conns \ {c} : conn'[d] = conn[d]
    BY <1>10, <2>1 DEF Recheck, Goto, DispatcherTypeOK, ConnType, ConnSound, Closing
  <2>3. CASE conn[c].tcp /\ conn'[c].at = "admitted"
    <3>1. conn[c].source \in Sources /\ limited' = [limited EXCEPT ![conn[c].source] = @ + 1] /\ limited[conn[c].source] \in Nat
      BY <1>10, <2>1, <2>2, <2>3 DEF Recheck, Goto, Count, ConnSound, DispatcherTypeOK
    <3>2. /\ \A s : conn'[c] \in HolderType(s) <=> s = conn[c].source
          /\ \A s : conn[c] \notin HolderType(s)
          /\ conn[c] \in LinkType <=> conn'[c] \in LinkType
      BY <2>1, <2>2, <2>3 DEF HolderType, LinkType, Holding, Closing, ConnSound, ConnType
    <3>3. LimitedExact'
      BY <1>10, <2>1, <2>2, <3>1, <3>2, NumberMoves DEF DispCounts, LimitedExact, Recheck, DispatcherTypeOK
    <3>4. UnlimitedBounded'
      <4>1. limited'[conn[c].source] > 0
        BY <2>1, <3>1 DEF DispatcherTypeOK
      <4>2. QED
        BY <3>1, <4>1 DEF UnlimitedBounded, IPs
    <3>5. LinksExact'
      BY <1>10, <2>1, <2>2, <3>2, NumberMoves DEF DispCounts, LinksExact, Recheck
    <3>6. QED
      BY <3>3, <3>4, <3>5 DEF DispCounts
  <2>4. CASE ~(conn[c].tcp /\ conn'[c].at = "admitted")
    <3>1. limited' = limited /\ unlimited' = unlimited /\ mixed' = mixed /\ connCount' = connCount
      BY <1>10, <2>1, <2>2, <2>4 DEF Recheck, Goto, DispatcherTypeOK
    <3>2. /\ \A s : conn[c] \in HolderType(s) <=> conn'[c] \in HolderType(s)
          /\ \A s : conn[c] \in CountingType(s) <=> conn'[c] \in CountingType(s)
          /\ conn[c] \in LinkType <=> conn'[c] \in LinkType
      BY <2>1, <2>2, <2>4 DEF HolderType, CountingType, LinkType, Holding, Closing, ConnSound, ConnType
    <3>3. LimitedExact'
      BY <2>1, <2>2, <3>1, <3>2, NumberMoves DEF DispCounts, LimitedExact
    <3>4. UnlimitedBounded'
      BY <2>1, <2>2, <3>1, <3>2, NumberMoves DEF DispCounts, UnlimitedBounded, IPs
    <3>5. LinksExact'
      BY <2>1, <2>2, <3>1, <3>2, NumberMoves DEF DispCounts, LinksExact
    <3>6. QED
      BY <3>3, <3>4, <3>5 DEF DispCounts
  <2>5. QED
    BY <2>3, <2>4
<1>11. ASSUME NEW c \in Conns, TrackLink(c) PROVE DispCounts'
  <2>1. /\ DispatcherTypeOK /\ DispatcherTypeOK' /\ ConnSound(c) /\ CountersSound /\ CountersSound'
        /\ conn[c] \in ConnType /\ conn'[c] \in ConnType
    BY DEF DispSound, DispatcherTypeOK
  <2>2. /\ conn[c].at = "admitted" /\ conn'[c].at = "open" /\ conn'[c].source = conn[c].source /\ conn'[c].tcp = conn[c].tcp
        /\ conn'[c].detached = conn[c].detached /\ conn'[c].left = conn[c].left
        /\ \A d \in Conns \ {c} : conn'[d] = conn[d]
    BY <1>11, <2>1 DEF TrackLink, Goto, DispatcherTypeOK, ConnType
  <2>3. /\ \A s : conn[c] \in HolderType(s) <=> conn'[c] \in HolderType(s)
        /\ \A s : conn[c] \in CountingType(s) <=> conn'[c] \in CountingType(s)
        /\ conn[c] \notin LinkType /\ conn'[c] \in LinkType
    BY <2>1, <2>2 DEF HolderType, CountingType, LinkType, Holding, Closing, ConnSound, ConnType
  <2>4. LimitedExact'
    BY <1>11, <2>1, <2>2, <2>3, NumberMoves DEF DispCounts, LimitedExact, TrackLink, userMaps
  <2>5. UnlimitedBounded'
    BY <1>11, <2>1, <2>2, <2>3, NumberMoves DEF DispCounts, UnlimitedBounded, IPs, TrackLink, userMaps
  <2>6. LinksExact'
    BY <1>11, <2>1, <2>2, <2>3, NumberMoves DEF DispCounts, LinksExact, TrackLink, userMaps
  <2>7. QED
    BY <2>4, <2>5, <2>6 DEF DispCounts
<1>12. ASSUME NEW c \in Conns, DispatchFails(c) PROVE DispCounts'
  <2>1. /\ DispatcherTypeOK /\ DispatcherTypeOK' /\ ConnSound(c) /\ CountersSound /\ CountersSound'
        /\ conn[c] \in ConnType /\ conn'[c] \in ConnType
    BY DEF DispSound, DispatcherTypeOK
  <2>2. /\ conn[c].at = "admitted" /\ conn[c].left = "gone" /\ conn'[c].at = (IF conn[c].tcp THEN "dropping" ELSE "gone") /\ conn'[c].source = conn[c].source /\ conn'[c].tcp = conn[c].tcp
        /\ conn'[c].detached = conn[c].detached /\ conn'[c].left = conn[c].left
        /\ \A d \in Conns \ {c} : conn'[d] = conn[d]
    BY <1>12, <2>1 DEF DispatchFails, ConnSound, Closing, Goto, DispatcherTypeOK, ConnType
  <2>3. /\ \A s : conn[c] \in HolderType(s) <=> conn'[c] \in HolderType(s)
        /\ \A s : conn[c] \in CountingType(s) <=> conn'[c] \in CountingType(s)
        /\ conn[c] \in LinkType <=> conn'[c] \in LinkType
    BY <2>1, <2>2 DEF HolderType, CountingType, LinkType, Holding, Closing, ConnSound, ConnType
  <2>4. LimitedExact'
    BY <1>12, <2>1, <2>2, <2>3, NumberMoves DEF DispCounts, LimitedExact, DispatchFails, userMaps
  <2>5. UnlimitedBounded'
    BY <1>12, <2>1, <2>2, <2>3, NumberMoves DEF DispCounts, UnlimitedBounded, IPs, DispatchFails, userMaps
  <2>6. LinksExact'
    BY <1>12, <2>1, <2>2, <2>3, NumberMoves DEF DispCounts, LinksExact, DispatchFails, userMaps
  <2>7. QED
    BY <2>4, <2>5, <2>6 DEF DispCounts
<1>13. ASSUME NEW c \in Conns, Fetch(c) PROVE DispCounts'
  <2>1. /\ DispatcherTypeOK /\ DispatcherTypeOK' /\ ConnSound(c) /\ CountersSound /\ CountersSound'
        /\ conn[c] \in ConnType /\ conn'[c] \in ConnType
    BY DEF DispSound, DispatcherTypeOK
  <2>2. /\ conn[c].at = "dropping" /\ ~conn[c].detached /\ conn[c].tcp /\ conn[c].source \in Sources /\ mixed
        /\ conn'[c].at \in Steps /\ conn'[c].source = conn[c].source /\ conn'[c].tcp = conn[c].tcp
        /\ conn'[c].detached = conn[c].detached /\ conn'[c].left = conn[c].left
        /\ \A d \in Conns \ {c} : conn'[d] = conn[d]
    BY <1>13, <2>1 DEF Fetch, Goto, DispatcherTypeOK, ConnType, ConnSound, Closing
  <2>3. /\ conn'[c].at = IF unlimited[conn[c].source].live THEN "lowering" ELSE conn[c].left
        /\ limited' = limited /\ unlimited' = unlimited /\ mixed' = mixed /\ connCount' = connCount
    BY <1>13, <2>1 DEF Fetch, Goto, userMaps, DispatcherTypeOK
  <2>4. /\ conn[c] \in LinkType <=> conn'[c] \in LinkType
        /\ \A s : s # conn[c].source \/ unlimited[conn[c].source].live => (conn[c] \in CountingType(s) <=> conn'[c] \in CountingType(s))
    BY <2>1, <2>2, <2>3 DEF HolderType, CountingType, LinkType, Holding, Closing, ConnType
  <2>5. LimitedExact'
    BY <2>2, <2>3 DEF LimitedExact
  <2>6. UnlimitedBounded'
    <3>1. SUFFICES ASSUME IPs = {}, NEW s \in Sources PROVE unlimited[s].n <= Number(Conns, conn', CountingType(s))
      BY <2>3 DEF UnlimitedBounded, IPs
    <3>2. CASE s # conn[c].source \/ unlimited[conn[c].source].live
      BY <2>1, <2>2, <2>4, <3>1, <3>2, NumberMoves DEF DispCounts, UnlimitedBounded
    <3>3. CASE s = conn[c].source /\ ~unlimited[conn[c].source].live
      <4>1. unlimited[s].n = 0 /\ Number(Conns, conn', CountingType(s)) \in Nat
        BY <2>1, <2>2, <3>3, NumberMoves DEF CountersSound
      <4>2. QED
        BY <4>1
    <3>4. QED
      BY <3>2, <3>3
  <2>7. LinksExact'
    BY <2>1, <2>2, <2>3, <2>4, NumberMoves DEF DispCounts, LinksExact
  <2>8. QED
    BY <2>5, <2>6, <2>7 DEF DispCounts
<1>14. ASSUME NEW c \in Conns, Lower(c) PROVE DispCounts'
  <2>1. /\ DispatcherTypeOK /\ DispatcherTypeOK' /\ ConnSound(c) /\ CountersSound /\ CountersSound'
        /\ conn[c] \in ConnType /\ conn'[c] \in ConnType
    BY DEF DispSound, DispatcherTypeOK
  <2>2. /\ conn[c].at = "lowering" /\ conn[c].tcp /\ conn[c].source \in Sources /\ mixed /\ mixed' = mixed /\ limited' = limited
        /\ connCount' = connCount /\ (conn'[c].at = "decremented" \/ conn'[c].at = conn[c].left)
        /\ conn'[c].at \in Steps /\ conn'[c].source = conn[c].source /\ conn'[c].tcp = conn[c].tcp
        /\ conn'[c].detached = conn[c].detached /\ conn'[c].left = conn[c].left
        /\ \A d \in Conns \ {c} : conn'[d] = conn[d]
    BY <1>14, <2>1 DEF Lower, Goto, DispatcherTypeOK, ConnType, ConnSound, Closing
  <2>3. /\ conn[c] \in LinkType <=> conn'[c] \in LinkType
        /\ \A s : conn'[c] \notin CountingType(s)
        /\ \A s : conn[c] \in CountingType(s) <=> s = conn[c].source /\ ~conn[c].detached
    BY <2>1, <2>2 DEF HolderType, CountingType, LinkType, Holding, Closing, ConnType
  <2>4. \A s \in Sources : unlimited'[s].n = unlimited[s].n - IF s = conn[c].source /\ ~conn[c].detached THEN 1 ELSE 0
    <3>1. CASE conn[c].detached
      BY <1>14, <2>1, <3>1 DEF Lower, DispatcherTypeOK
    <3>2. CASE ~conn[c].detached
      BY <1>14, <2>1, <2>2, <3>2 DEF Lower, DispatcherTypeOK
    <3>3. QED
      BY <3>1, <3>2
  <2>5. LimitedExact'
    BY <2>2 DEF LimitedExact
  <2>6. UnlimitedBounded'
    <3>1. SUFFICES ASSUME IPs = {}, NEW s \in Sources PROVE unlimited'[s].n <= Number(Conns, conn', CountingType(s))
      BY <2>2 DEF UnlimitedBounded, IPs
    <3>2. unlimited[s].n <= Number(Conns, conn, CountingType(s)) /\ unlimited[s].n \in Int
      BY <2>1, <3>1 DEF DispCounts, UnlimitedBounded, DispatcherTypeOK
    <3>3. /\ Number(Conns, conn, CountingType(s)) \in Nat
          /\ Number(Conns, conn', CountingType(s)) = Number(Conns, conn, CountingType(s)) - IF s = conn[c].source /\ ~conn[c].detached THEN 1 ELSE 0
      BY <2>1, <2>2, <2>3, NumberMoves
    <3>4. QED
      BY <2>4, <3>2, <3>3
  <2>7. LinksExact'
    BY <2>1, <2>2, <2>3, NumberMoves DEF DispCounts, LinksExact
  <2>8. QED
    BY <2>5, <2>6, <2>7 DEF DispCounts
<1>15. ASSUME NEW c \in Conns, Delete(c) PROVE DispCounts'
  <2>1. /\ DispatcherTypeOK /\ DispatcherTypeOK' /\ ConnSound(c) /\ CountersSound /\ CountersSound'
        /\ conn[c] \in ConnType /\ conn'[c] \in ConnType
    BY DEF DispSound, DispatcherTypeOK
  <2>2. /\ conn[c].at = "decremented" /\ conn[c].source \in Sources /\ mixed /\ mixed' = mixed /\ limited' = limited /\ connCount' = connCount
        /\ conn'[c].at = conn[c].left /\ conn'[c].left = conn[c].left
    BY <1>15, <2>1 DEF Delete, DispatcherTypeOK, ConnType, ConnSound
  <2>3. ASSUME NEW d \in Conns, d # c
        PROVE  /\ conn'[d].at = conn[d].at /\ conn'[d].left = conn[d].left
               /\ conn'[d].source = conn[d].source /\ conn'[d].tcp = conn[d].tcp
               /\ conn[d].source # conn[c].source => conn'[d].detached = conn[d].detached
    BY <1>15, <2>1, <2>3 DEF Delete, DispatcherTypeOK, ConnType
  <2>4. Number(Conns, conn', LinkType) = Number(Conns, conn, LinkType)
    <3>1. Having(Conns, conn', LinkType) = Having(Conns, conn, LinkType)
      <4>1. ASSUME NEW d \in Conns PROVE conn'[d] \in LinkType <=> conn[d] \in LinkType
        <5>1. conn[d] \in ConnType /\ conn'[d] \in ConnType
          BY <2>1 DEF DispatcherTypeOK
        <5>2. CASE d = c
          BY <2>1, <2>2, <5>1, <5>2 DEF LinkType, Closing, ConnType
        <5>3. CASE d # c
          <6>2. conn'[d].at = conn[d].at /\ conn'[d].left = conn[d].left
            BY <2>3, <5>3
          <6>3. QED
            BY <5>1, <6>2 DEF LinkType
        <5>4. QED
          BY <5>2, <5>3
      <4>2. QED
        BY <4>1 DEF Having
    <3>2. QED
      BY <3>1 DEF Number
  <2>5. \A s \in Sources \ {conn[c].source} : Number(Conns, conn', CountingType(s)) = Number(Conns, conn, CountingType(s))
    <3>1. TAKE s \in Sources \ {conn[c].source}
    <3>2. ASSUME NEW d \in Conns PROVE conn'[d] \in CountingType(s) <=> conn[d] \in CountingType(s)
      <4>1. conn[d] \in ConnType /\ conn'[d] \in ConnType
        BY <2>1 DEF DispatcherTypeOK
      <4>2. CASE d = c
        BY <2>1, <2>2, <4>1, <4>2 DEF CountingType, HolderType, Holding, ConnType
      <4>3. CASE d # c
        <5>2. /\ conn'[d].at = conn[d].at /\ conn'[d].source = conn[d].source /\ conn'[d].tcp = conn[d].tcp
              /\ conn[d].source # conn[c].source => conn'[d].detached = conn[d].detached
          BY <2>3, <4>3
        <5>3. QED
          BY <3>1, <4>1, <5>2 DEF CountingType, HolderType
      <4>4. QED
        BY <4>2, <4>3
    <3>3. Having(Conns, conn', CountingType(s)) = Having(Conns, conn, CountingType(s))
      BY <3>2 DEF Having
    <3>4. QED
      BY <3>3 DEF Number
  <2>6. Number(Conns, conn', CountingType(conn[c].source)) \in Nat
    <3>1. Having(Conns, conn', CountingType(conn[c].source)) \subseteq Conns
      BY DEF Having
    <3>2. QED
      BY <3>1, FS_Subset, FS_CardinalityType DEF Number
  <2>7. LimitedExact'
    BY <2>2 DEF LimitedExact
  <2>8. UnlimitedBounded'
    <3>1. SUFFICES ASSUME IPs = {}, NEW s \in Sources PROVE unlimited'[s].n <= Number(Conns, conn', CountingType(s))
      BY <2>2 DEF UnlimitedBounded, IPs
    <3>2. CASE s # conn[c].source
      <4>1. unlimited'[s] = unlimited[s]
        BY <1>15, <2>1, <3>2 DEF Delete, DispatcherTypeOK
      <4>2. QED
        BY <2>5, <3>1, <3>2, <4>1 DEF DispCounts, UnlimitedBounded
    <3>3. CASE s = conn[c].source
      <4>1. unlimited'[s].n = 0
        BY <1>15, <2>1, <3>3 DEF Delete, DispatcherTypeOK, NoCounter
      <4>2. QED
        BY <2>6, <3>3, <4>1
    <3>4. QED
      BY <3>2, <3>3
  <2>9. LinksExact'
    BY <2>2, <2>4 DEF DispCounts, LinksExact
  <2>10. QED
    BY <2>7, <2>8, <2>9 DEF DispCounts
<1>16. ASSUME NEW c \in Conns, Release(c) PROVE DispCounts'
  <2>1. /\ DispatcherTypeOK /\ DispatcherTypeOK' /\ ConnSound(c) /\ CountersSound /\ CountersSound'
        /\ conn[c] \in ConnType /\ conn'[c] \in ConnType
    BY DEF DispSound, DispatcherTypeOK
  <2>2. /\ conn[c].at = "dropping" /\ ~conn[c].detached /\ conn[c].tcp /\ conn[c].source \in Sources /\ ~mixed /\ mixed' = mixed
        /\ unlimited' = unlimited /\ connCount' = connCount
        /\ conn'[c].at = conn[c].left /\ conn'[c].source = conn[c].source /\ conn'[c].tcp = conn[c].tcp
        /\ conn'[c].detached = conn[c].detached /\ conn'[c].left = conn[c].left
        /\ \A d \in Conns \ {c} : conn'[d] = conn[d]
    BY <1>16, <2>1 DEF Release, Goto, DispatcherTypeOK, ConnType, ConnSound, Closing
  <2>3. /\ conn[c] \in LinkType <=> conn'[c] \in LinkType
        /\ \A s : conn'[c] \notin HolderType(s)
        /\ \A s : conn[c] \in HolderType(s) <=> s = conn[c].source
    BY <2>1, <2>2 DEF HolderType, LinkType, Holding, Closing, ConnType
  <2>4. LimitedExact'
    <3>1. SUFFICES ASSUME NEW s \in Sources PROVE limited'[s] = Number(Conns, conn', HolderType(s))
      BY DEF LimitedExact
    <3>2. limited[s] = Number(Conns, conn, HolderType(s)) /\ limited[s] \in Nat
      BY <2>1, <2>2 DEF DispCounts, LimitedExact, DispatcherTypeOK
    <3>3. /\ Number(Conns, conn, HolderType(s)) \in Nat /\ Number(Conns, conn', HolderType(s)) \in Nat
          /\ Number(Conns, conn', HolderType(s)) = Number(Conns, conn, HolderType(s)) - IF s = conn[c].source THEN 1 ELSE 0
      BY <2>1, <2>2, <2>3, NumberMoves
    <3>4. limited'[s] = IF s # conn[c].source THEN limited[s] ELSE IF limited[s] > 1 THEN limited[s] - 1 ELSE 0
      BY <1>16, <2>1 DEF Release, DispatcherTypeOK
    <3>5. QED
      BY <3>2, <3>3, <3>4
  <2>5. UnlimitedBounded'
    <3>1. SUFFICES ASSUME NEW s \in Sources PROVE unlimited[s].n <= Number(Conns, conn', CountingType(s))
      BY <2>2 DEF UnlimitedBounded
    <3>2. unlimited[s].n = 0
      BY <2>1, <2>2 DEF CountersSound, NoCounter
    <3>3. Number(Conns, conn', CountingType(s)) \in Nat
      BY <2>1, <2>2, NumberMoves
    <3>4. QED
      BY <3>2, <3>3
  <2>6. LinksExact'
    BY <2>1, <2>2, <2>3, NumberMoves DEF DispCounts, LinksExact
  <2>7. QED
    BY <2>4, <2>5, <2>6 DEF DispCounts
<1>17. ASSUME NEW c \in Conns, Untrack(c) PROVE DispCounts'
  <2>1. /\ DispatcherTypeOK /\ DispatcherTypeOK' /\ ConnSound(c) /\ CountersSound /\ CountersSound'
        /\ conn[c] \in ConnType /\ conn'[c] \in ConnType
    BY DEF DispSound, DispatcherTypeOK
  <2>2. /\ conn[c].at = "untracking" /\ conn'[c].at = "gone" /\ conn'[c].source = conn[c].source /\ conn'[c].tcp = conn[c].tcp
        /\ conn'[c].detached = conn[c].detached /\ conn'[c].left = conn[c].left
        /\ \A d \in Conns \ {c} : conn'[d] = conn[d]
    BY <1>17, <2>1 DEF Untrack, Goto, DispatcherTypeOK, ConnType
  <2>3. /\ \A s : conn[c] \in HolderType(s) <=> conn'[c] \in HolderType(s)
        /\ \A s : conn[c] \in CountingType(s) <=> conn'[c] \in CountingType(s)
        /\ conn[c] \in LinkType /\ conn'[c] \notin LinkType
    BY <2>1, <2>2 DEF HolderType, CountingType, LinkType, Holding, Closing, ConnSound, ConnType
  <2>4. LimitedExact'
    BY <1>17, <2>1, <2>2, <2>3, NumberMoves DEF DispCounts, LimitedExact, Untrack, userMaps
  <2>5. UnlimitedBounded'
    BY <1>17, <2>1, <2>2, <2>3, NumberMoves DEF DispCounts, UnlimitedBounded, IPs, Untrack, userMaps
  <2>6. LinksExact'
    BY <1>17, <2>1, <2>2, <2>3, NumberMoves DEF DispCounts, LinksExact, Untrack, userMaps
  <2>7. QED
    BY <2>4, <2>5, <2>6 DEF DispCounts
<1>18. QED
  BY <1>1, <1>2, <1>3, <1>4, <1>5, <1>6, <1>7, <1>8, <1>9, <1>10, <1>11, <1>12, <1>13, <1>14, <1>15, <1>16, <1>17 DEF DispatcherNext, Work

---------------------------------------------------------------------------
LEMMA CountsStart == DispatcherInit => DispCounts
<1> SUFFICES ASSUME DispatcherInit PROVE DispCounts
  OBVIOUS
<1>1. \A c \in Conns : conn[c] = Fresh
  BY DEF DispatcherInit
<1>2. \A s \in Sources : Having(Conns, conn, HolderType(s)) = {} /\ Having(Conns, conn, CountingType(s)) = {}
  BY <1>1 DEF Fresh, Having, HolderType, CountingType, Holding
<1>3. Having(Conns, conn, LinkType) = {}
  BY <1>1 DEF Fresh, Having, LinkType, Closing
<1>4. Cardinality({}) = 0
  BY FS_EmptySet
<1>5. \A s \in Sources : Number(Conns, conn, HolderType(s)) = 0 /\ Number(Conns, conn, CountingType(s)) = 0
  BY <1>2, <1>4 DEF Number
<1>6. Number(Conns, conn, LinkType) = 0
  BY <1>3, <1>4 DEF Number
<1>7. QED
  BY <1>5, <1>6 DEF DispatcherInit, DispCounts, LimitedExact, UnlimitedBounded, LinksExact, NoCounter

TrackedLinks == {c \in Conns : conn[c].at \in {"open", "untracking"}
                   \/ (conn[c].at \in {"dropping", "lowering", "decremented"} /\ conn[c].left = "untracking")}
LEMMA DispExact == DispSound /\ DispCounts => DispatcherTypeOK /\ SlotsExact
<1> SUFFICES ASSUME DispSound, DispCounts PROVE SlotsExact
  BY DEF DispSound
<1>1. /\ \A s : Holders(s) = Having(Conns, conn, HolderType(s))
      /\ TrackedLinks = Having(Conns, conn, LinkType)
  BY DEF DispSound, DispatcherTypeOK, Having, HolderType, LinkType, Holders, TrackedLinks, Holding, Closing
<1>2. ASSUME NEW s \in Sources
      PROVE  /\ IsFiniteSet(Holders(s)) /\ Cardinality(Holders(s)) = Number(Conns, conn, HolderType(s))
             /\ Number(Conns, conn, CountingType(s)) <= Cardinality(Holders(s)) /\ Number(Conns, conn, CountingType(s)) \in Nat
             /\ Cardinality(Holders(s)) \in Nat /\ (Cardinality(Holders(s)) = 0 <=> Holders(s) = {})
  <2>1. Holders(s) \subseteq Conns /\ Having(Conns, conn, CountingType(s)) \subseteq Holders(s)
    BY <1>1 DEF Having, CountingType, Holders
  <2>2. IsFiniteSet(Holders(s))
    BY <2>1, DispatcherConstants, FS_Subset
  <2>3. QED
    BY <1>1, <2>1, <2>2, FS_Subset, FS_CardinalityType, FS_EmptySet DEF Number
<1>3. ASSUME ~mixed
      PROVE  /\ \A s \in Sources : limited[s] = Cardinality(Holders(s))
             /\ OnlineIPs = {t \in Sources : Holders(t) # {}}
  <2>1. \A s \in Sources : limited[s] = Cardinality(Holders(s)) /\ unlimited[s].live = FALSE
    BY <1>2, <1>3 DEF DispCounts, LimitedExact, DispSound, CountersSound, NoCounter
  <2>2. OnlineIPs = {t \in Sources : limited[t] > 0}
    BY <2>1 DEF OnlineIPs, IPs
  <2>3. \A s \in Sources : limited[s] > 0 <=> Holders(s) # {}
    BY <1>2, <2>1
  <2>4. QED
    BY <2>1, <2>2, <2>3
<1>4. IPs = {} => \A s \in Sources : unlimited[s].n <= Cardinality(Holders(s))
  <2>1. SUFFICES ASSUME IPs = {}, NEW s \in Sources PROVE unlimited[s].n <= Cardinality(Holders(s))
    OBVIOUS
  <2>2. unlimited[s].n <= Number(Conns, conn, CountingType(s)) /\ unlimited[s].n \in Int
    BY <2>1 DEF DispCounts, UnlimitedBounded, DispSound, DispatcherTypeOK
  <2>3. QED
    BY <1>2, <2>2
<1>5. connCount = Cardinality(TrackedLinks)
  BY <1>1 DEF DispCounts, LinksExact, Number
<1>6. QED
  BY <1>3, <1>4, <1>5 DEF SlotsExact, TrackedLinks, Closing

---------------------------------------------------------------------------
(* The tracker *)

\* A connection past its first step has a source address and a tracker, and only TCP ones enter connMap.
FlowsSound ==
  \A f \in Flows : /\ flow[f].at \notin {"new", "gone"} => flow[f].address \in Addresses /\ flow[f].by \in Trackers
                   /\ flow[f].at = "register" => flow[f].tcp
TrackSound == TrackerTypeOK /\ FlowsSound

CountedSteps == {"register", "speed", "read", "store", "open"}
CountedType(t) == {r \in FlowType : r.us = t /\ r.at \in CountedSteps}
AddressType(t, a) == {r \in FlowType : r.us = t /\ r.at \in CountedSteps /\ r.address = a}

ReferredType(t) == {r \in FlowType : r.by = t /\ r.tcp /\ r.at \in {"speed", "read", "store", "open", "unref"}}

TrackCounts ==
     \A t \in Trackers : /\ stats[t].count = Number(Flows, flow, CountedType(t)) /\ stats[t].refs = Having(Flows, flow, ReferredType(t))
                         /\ \A a \in Addresses : stats[t].ips[a] = Number(Flows, flow, AddressType(t, a))

\* Every tracker that was ever in use counts into the kernel's totals, and these lack only what is owed.
Sharing == tracker \in sharing /\ \A f \in Flows : flow[f].us \in sharing \cup {0}
OwingType(k) == {K \in SUBSET Kinds : k \in K}
TotalsInv == Sharing /\ \A k \in Kinds : totals[k] + Number(Flows, owed, OwingType(k)) = carriedBy

\* No speed is newer than the limits, one that was read after their last update is the panel's, in a
\* bucket and on its way to one; only a bucket made since UpdateBuckets may be older; at most one was made.
SpeedInv ==
  /\ \A f \in Flows : flow[f].at = "store" => /\ flow[f].since <= updates
                                              /\ flow[f].since = updates => flow[f].speed = panelUser.speed
  /\ bucket # 0 => /\ rateOf[bucket].since <= updates
                   /\ rateOf[bucket].since = updates => rateOf[bucket].speed = panelUser.speed
  /\ update # "buckets" /\ bucket \in 1..made => rateOf[bucket].since = updates
  /\ Len(rateOf) - made <= IF bucket # 0 THEN 1 ELSE 0

LEMMA SpeedInvFollows == TrackerTypeOK /\ SpeedInv => SpeedFollows
<1> SUFFICES ASSUME TrackerTypeOK, SpeedInv PROVE SpeedFollows
  OBVIOUS
<1>1. made \in Nat /\ Len(rateOf) \in Nat
  BY LenProperties DEF TrackerTypeOK
<1>2. Len(rateOf) - made <= 1
  BY <1>1 DEF SpeedInv
<1>3. QED
  BY <1>2 DEF SpeedInv, SpeedFollows

\* Flow f becomes v and every other one stays.
LEMMA FlowPut ==
  ASSUME TrackSound, NEW f \in Flows, NEW v \in FlowType, PutFlow(f, v),
         v.at \notin {"new", "gone"} => v.address \in Addresses /\ v.by \in Trackers, v.at = "register" => v.tcp
  PROVE  /\ flow' \in [Flows -> FlowType] /\ FlowsSound' /\ flow'[f] = v
         /\ \A g \in Flows \ {f} : flow'[g] = flow[g]
BY DEF TrackSound, TrackerTypeOK, FlowsSound, PutFlow

LEMMA FlowMoves ==
  ASSUME NEW f \in Flows, \A g \in Flows \ {f} : flow'[g] = flow[g]
  PROVE  \A R : /\ Number(Flows, flow, R) \in Nat /\ Number(Flows, flow', R) \in Nat
                /\ (flow[f] \in R <=> flow'[f] \in R) => Number(Flows, flow', R) = Number(Flows, flow, R)
                /\ flow[f] \notin R /\ flow'[f] \in R => Number(Flows, flow', R) = Number(Flows, flow, R) + 1
                /\ flow[f] \in R /\ flow'[f] \notin R => Number(Flows, flow', R) = Number(Flows, flow, R) - 1
BY OneMoves, TrackerConstants

\* The step of a connection that changes nothing else.
LEMMA SilentFlow ==
  ASSUME TrackSound, Silent, NEW f \in Flows, NEW v \in FlowType, PutFlow(f, v),
         v.at \notin {"new", "gone"} => v.address \in Addresses /\ v.by \in Trackers, v.at = "register" => v.tcp
  PROVE  TrackSound'
BY FlowPut DEF Silent, limits, accounting, TrackSound, TrackerTypeOK

LEMMA GoneTyped == Gone \in FlowType /\ Gone.at = "gone" /\ Gone.us = 0
<1>1. 0 \in 0..MaxUpdates
  BY TrackerConstants
<1>2. QED
  BY <1>1 DEF FlowType, FlowSteps, Gone, NewFlow

LEMMA TrackSoundStart == TrackerInit => TrackSound
<1> SUFFICES ASSUME TrackerInit PROVE TrackSound
  OBVIOUS
<1> USE TrackerConstants
<1>1. NewFlow \in FlowType /\ flow = [f \in Flows |-> NewFlow]
  BY DEF TrackerInit, NewFlow, FlowType, FlowSteps
<1>2. FlowsSound
  BY <1>1 DEF FlowsSound, NewFlow
<1>3. stats \in [Trackers -> [ips : [Addresses -> Nat], count : Nat, refs : SUBSET Flows]]
  BY DEF TrackerInit
<1>4. rateOf = <<>> /\ rateOf \in Seq(BucketType) /\ Len(rateOf) = 0
      /\ totals \in [Kinds -> Nat] /\ sharing \in SUBSET Trackers /\ owed \in [Flows -> SUBSET Kinds]
  <2>1. rateOf = <<>> /\ rateOf \in Seq(BucketType)
    BY DEF TrackerInit
  <2>2. Len(rateOf) = 0
    BY <2>1, LenProperties
  <2>3. totals \in [Kinds -> Nat] /\ owed \in [Flows -> SUBSET Kinds]
    BY DEF TrackerInit
  <2>4. sharing = {1} /\ 1 \in Trackers
    BY DEF TrackerInit, Trackers
  <2>5. QED
    BY <2>1, <2>2, <2>3, <2>4
<1>5. 1 \in Trackers /\ 0 \in 0..MaxUpdates /\ 0 \in 0..MaxCarried
  BY DEF Trackers
<1>6. panelUser \in [known : BOOLEAN, speed : Speeds \cup {0}, devices : DeviceLimits \cup {0}]
      /\ global \in [ips : SUBSET Addresses, fresh : BOOLEAN]
  BY DEF TrackerInit
<1>7. flow \in [Flows -> FlowType]
  BY <1>1
<1>8. named \in BOOLEAN /\ mapped \in BOOLEAN /\ update \in {"idle", "buckets", "map"}
  BY DEF TrackerInit
<1>9. tracker \in Trackers /\ updates \in 0..MaxUpdates /\ carriedBy \in 0..MaxCarried /\ bucket = 0 /\ made = 0
  BY <1>5 DEF TrackerInit
<1>10. QED
  BY <1>2, <1>3, <1>4, <1>6, <1>7, <1>8, <1>9 DEF TrackSound, TrackerTypeOK

StatsType == [ips : [Addresses -> Nat], count : Nat, refs : SUBSET Flows]

\* The books of tracker u after it counts a connection of address a, or uncounts it.
LEMMA StatsPut ==
  ASSUME stats \in [Trackers -> StatsType], NEW u \in Trackers, NEW a \in Addresses, NEW m \in Nat, NEW i \in Nat,
         stats' = [stats EXCEPT ![u].count = m, ![u].ips[a] = i]
  PROVE  /\ stats' \in [Trackers -> StatsType]
         /\ stats'[u].count = m /\ stats'[u].refs = stats[u].refs /\ stats'[u].ips[a] = i
         /\ \A b \in Addresses \ {a} : stats'[u].ips[b] = stats[u].ips[b]
         /\ \A t \in Trackers \ {u} : stats'[t] = stats[t]
<1> DEFINE r == [stats[u] EXCEPT !.count = m, !.ips[a] = i]
<1>1. stats[u] \in StatsType
  OBVIOUS
<1>2. r \in StatsType /\ r.count = m /\ r.refs = stats[u].refs /\ r.ips[a] = i /\ \A b \in Addresses \ {a} : r.ips[b] = stats[u].ips[b]
  BY <1>1 DEF StatsType
<1>3. stats' = [stats EXCEPT ![u] = r]
  BY <1>1 DEF StatsType
<1> HIDE DEF r
<1>4. QED
  BY <1>2, <1>3

LEMMA RefsPut ==
  ASSUME stats \in [Trackers -> StatsType], NEW u \in Trackers, NEW R \in SUBSET Flows,
         stats' = [stats EXCEPT ![u].refs = R]
  PROVE  /\ stats' \in [Trackers -> StatsType]
         /\ stats'[u].count = stats[u].count /\ stats'[u].refs = R /\ stats'[u].ips = stats[u].ips
         /\ \A t \in Trackers \ {u} : stats'[t] = stats[t]
BY DEF StatsType

LEMMA SpeedNat == ASSUME NEW x \in Speeds \cup {0} PROVE x \in Nat
BY TrackerConstants

LEMMA TrackSoundStep == ASSUME TrackSound, TrackCounts, [TrackerNext]_tvars PROVE TrackSound'
<1>1. CASE SetUser
  BY TrackerConstants, <1>1 DEF SetUser, accounting, TrackSound, TrackerTypeOK, FlowsSound
<1>2. CASE UpdateBuckets
  <2>1. rateOf' \in Seq(BucketType) /\ Len(rateOf') = Len(rateOf) /\ bucket' \in 0..Len(rateOf')
    <3>1. panelUser.speed \in Nat /\ rateOf \in Seq(BucketType) /\ bucket \in 0..Len(rateOf) /\ Len(rateOf) \in Nat
      <4>1. panelUser.speed \in Speeds \cup {0} /\ rateOf \in Seq(BucketType) /\ bucket \in 0..Len(rateOf)
        BY DEF TrackSound, TrackerTypeOK
      <4>2. panelUser.speed \in Nat
        BY <4>1, SpeedNat
      <4>3. QED
        BY <4>1, <4>2, LenProperties
    <3>2. CASE bucket # 0 /\ panelUser.speed > 0
      <4>1. rateOf' = [rateOf EXCEPT ![bucket] = [speed |-> panelUser.speed, since |-> updates]] /\ bucket' = bucket
        BY <1>2, <3>2 DEF UpdateBuckets
      <4>2. QED
        <5>1. updates \in 0..MaxUpdates /\ bucket \in 1..Len(rateOf)
          BY <3>1, <3>2 DEF TrackSound, TrackerTypeOK
        <5>2. [speed |-> panelUser.speed, since |-> updates] \in BucketType
          BY <3>1, <5>1 DEF BucketType
        <5>3. QED
          BY <3>1, <4>1, <5>1, <5>2, ExceptSeq
    <3>3. CASE ~(bucket # 0 /\ panelUser.speed > 0)
      BY <1>2, <3>1, <3>3 DEF UpdateBuckets
    <3>4. QED
      BY <3>2, <3>3
  <2>2. named' \in BOOLEAN
    BY <1>2, Zenon DEF UpdateBuckets, TrackSound, TrackerTypeOK
  <2>3. QED
    BY <1>2, <2>1, <2>2 DEF UpdateBuckets, accounting, TrackSound, TrackerTypeOK, FlowsSound
<1>3. CASE SetUserMap
  BY <1>3 DEF SetUserMap, accounting, TrackSound, TrackerTypeOK, FlowsSound
<1>4. CASE Rebuild
  BY TrackerConstants, <1>4 DEF Rebuild, TrackSound, TrackerTypeOK, FlowsSound, Trackers
<1>5. CASE UpdateGlobalDevices
  BY TrackerConstants, <1>5 DEF UpdateGlobalDevices, limits, accounting, TrackSound, TrackerTypeOK, FlowsSound
<1>6. CASE GlobalGone
  BY <1>6 DEF GlobalGone, limits, accounting, TrackSound, TrackerTypeOK, FlowsSound
<1>7. CASE UNCHANGED tvars
  BY <1>7 DEF tvars, accounting, TrackSound, TrackerTypeOK, FlowsSound
<1>8. ASSUME NEW f \in Flows, FlowStep(f) PROVE TrackSound'
  <2> DEFINE r == flow[f]
  <2>1. TrackerTypeOK /\ r \in FlowType /\ (r.at \notin {"new", "gone"} => r.address \in Addresses /\ r.by \in Trackers)
    <3>1. flow \in [Flows -> FlowType] /\ TrackerTypeOK
      BY DEF TrackSound, TrackerTypeOK
    <3>2. FlowsSound
      BY DEF TrackSound
    <3>3. (r.at \notin {"new", "gone"} => r.address \in Addresses /\ r.by \in Trackers) /\ (r.at = "register" => r.tcp)
      BY <3>2 DEF FlowsSound
    <3>4. QED
      BY <3>1, <3>3
  <2>2. CASE Resolve(f)
    <3>1. PICK a \in Addresses, tcp \in BOOLEAN :
            PutFlow(f, [NewFlow EXCEPT !.at = "limit", !.address = a, !.tcp = tcp, !.by = tracker, !.us = IF mapped THEN tracker ELSE 0])
      BY <2>2 DEF Resolve
    <3>2. [NewFlow EXCEPT !.at = "limit", !.address = a, !.tcp = tcp, !.by = tracker, !.us = IF mapped THEN tracker ELSE 0] \in FlowType
      <4>1. tracker \in Trackers /\ 0 \in 0..MaxUpdates /\ {0, tracker} \subseteq Trackers \cup {0}
        BY <2>1, TrackerConstants DEF TrackerTypeOK
      <4>2. QED
        BY <4>1 DEF NewFlow, FlowType, FlowSteps
    <3>3. Silent /\ tracker \in Trackers
      BY <2>1, <2>2 DEF Resolve, TrackerTypeOK
    <3> DEFINE v == [NewFlow EXCEPT !.at = "limit", !.address = a, !.tcp = tcp, !.by = tracker, !.us = IF mapped THEN tracker ELSE 0]
    <3>4. v.at = "limit" /\ v.address = a /\ v.by = tracker
      BY DEF NewFlow
    <3> HIDE DEF v
    <3>5. QED
      BY <3>1, <3>2, <3>3, <3>4, SilentFlow DEF v
  <2>3. CASE ReadLimit(f)
    <3> DEFINE v == [r EXCEPT !.at = IF r.us # 0 /\ panelUser.devices > 0 THEN "local" ELSE "add", !.limit = panelUser.devices]
    <3>1. v \in FlowType /\ v.address = r.address /\ v.by = r.by /\ (v.at = "register" => v.tcp)
      BY <2>1 DEF FlowType, FlowSteps, TrackerTypeOK
    <3>2. r.at = "limit" /\ PutFlow(f, v) /\ Silent
      BY <2>3 DEF ReadLimit
    <3>3. QED
      BY <2>1, <3>1, <3>2, SilentFlow
  <2>4. CASE ReadLocal(f)
    <3> DEFINE ips == AliveIPs(r.us)
               v == [r EXCEPT !.at = IF r.address \in ips THEN "add" ELSE "global", !.local = ips]
    <3>1. ips \in SUBSET Addresses
      BY DEF AliveIPs
    <3>2. r.at = "local" /\ PutFlow(f, v) /\ Silent
      BY <2>4 DEF ReadLocal
    <3> HIDE DEF ips
    <3>3. v \in FlowType /\ v.address = r.address /\ v.by = r.by /\ (v.at = "register" => v.tcp)
      BY <2>1, <3>1 DEF FlowType, FlowSteps
    <3>4. QED
      BY <2>1, <3>2, <3>3, SilentFlow
  <2>5. CASE Gate(f)
    <3>1. [r EXCEPT !.at = "add"] \in FlowType /\ Gone \in FlowType /\ Gone.at = "gone"
      BY <2>1, GoneTyped DEF FlowType, FlowSteps
    <3>2. r.at = "global" /\ (PutFlow(f, [r EXCEPT !.at = "add"]) \/ PutFlow(f, Gone)) /\ Silent
      BY <2>5 DEF Gate
    <3>3. QED
      BY <2>1, <3>1, <3>2, SilentFlow DEF FlowType
  <2>6. CASE AddConn(f)
    <3> DEFINE v == [r EXCEPT !.at = IF r.tcp THEN "register" ELSE "speed", !.limit = 0, !.local = {}]
    <3>1. v \in FlowType /\ v.address = r.address /\ v.by = r.by /\ (v.at = "register" => v.tcp)
      BY <2>1 DEF FlowType, FlowSteps
    <3>2. r.at = "add" /\ PutFlow(f, v)
      BY <2>6 DEF AddConn
    <3>3. flow' \in [Flows -> FlowType] /\ FlowsSound'
      BY <2>1, <3>1, <3>2, FlowPut
    <3>4. stats' \in [Trackers -> [ips : [Addresses -> Nat], count : Nat, refs : SUBSET Flows]]
      <4>1. CASE r.us = 0
        BY <2>1, <2>6, <4>1 DEF AddConn, TrackerTypeOK
      <4>2. CASE r.us # 0
        <5>1. r.us \in Trackers /\ r.address \in Addresses /\ stats \in [Trackers -> StatsType]
          BY <2>1, <3>2, <4>2 DEF FlowType, TrackerTypeOK, StatsType
        <5>2. stats[r.us].count + 1 \in Nat /\ stats[r.us].ips[r.address] + 1 \in Nat
          <6>1. stats[r.us] \in StatsType
            BY <5>1
          <6>2. stats[r.us].count \in Nat /\ stats[r.us].ips \in [Addresses -> Nat]
            BY <6>1 DEF StatsType
          <6>3. stats[r.us].ips[r.address] \in Nat
            BY <5>1, <6>2
          <6>4. QED
            BY <6>2, <6>3
        <5>3. stats' = [stats EXCEPT ![r.us].count = stats[r.us].count + 1, ![r.us].ips[r.address] = stats[r.us].ips[r.address] + 1]
          BY <2>6, <4>2, <5>1 DEF AddConn, StatsType
        <5>4. QED
          BY <5>1, <5>2, <5>3, StatsPut DEF StatsType
      <4>3. QED
        BY <4>1, <4>2
    <3>5. QED
      BY <2>1, <2>6, <3>3, <3>4 DEF AddConn, limits, accounting, TrackSound, TrackerTypeOK
  <2>7. CASE Register(f)
    <3> DEFINE v == [r EXCEPT !.at = "speed"]
    <3>1. v \in FlowType /\ v.address = r.address /\ v.by = r.by /\ (v.at = "register" => v.tcp)
      BY <2>1 DEF FlowType, FlowSteps
    <3>2. r.at = "register" /\ PutFlow(f, v)
      BY <2>7 DEF Register, Go
    <3>3. flow' \in [Flows -> FlowType] /\ FlowsSound'
      BY <2>1, <3>1, <3>2, FlowPut
    <3>4. stats' \in [Trackers -> [ips : [Addresses -> Nat], count : Nat, refs : SUBSET Flows]]
      <4>1. r.by \in Trackers /\ stats \in [Trackers -> StatsType]
        BY <2>1, <3>2 DEF TrackerTypeOK, StatsType
      <4>2. stats' = [stats EXCEPT ![r.by].refs = stats[r.by].refs \cup {f}]
        BY <2>7 DEF Register
      <4>3. stats[r.by].refs \cup {f} \in SUBSET Flows
        BY <4>1 DEF StatsType
      <4>4. QED
        BY <4>1, <4>2, <4>3, RefsPut DEF StatsType
    <3>5. QED
      BY <2>1, <2>7, <3>3, <3>4 DEF Register, limits, accounting, TrackSound, TrackerTypeOK
  <2>8. CASE LookBucket(f)
    <3> DEFINE v == [r EXCEPT !.at = IF named /\ bucket = 0 THEN "read" ELSE "open"]
    <3>1. v \in FlowType /\ v.address = r.address /\ v.by = r.by /\ (v.at = "register" => v.tcp)
      BY <2>1 DEF FlowType, FlowSteps
    <3>2. r.at = "speed" /\ PutFlow(f, v) /\ Silent
      BY <2>8 DEF LookBucket, Go
    <3>3. QED
      BY <2>1, <3>1, <3>2, SilentFlow
  <2>9. CASE ReadSpeed(f)
    <3> DEFINE v == [r EXCEPT !.at = IF panelUser.speed > 0 THEN "store" ELSE "open", !.speed = panelUser.speed, !.since = updates]
    <3>1. v \in FlowType /\ v.address = r.address /\ v.by = r.by /\ (v.at = "register" => v.tcp)
      <4>1. panelUser.speed \in Speeds \cup {0} /\ updates \in 0..MaxUpdates
        BY <2>1 DEF TrackerTypeOK
      <4>2. QED
        BY <2>1, <4>1 DEF FlowType, FlowSteps
    <3>2. r.at = "read" /\ PutFlow(f, v) /\ Silent
      BY <2>9 DEF ReadSpeed
    <3>3. QED
      BY <2>1, <3>1, <3>2, SilentFlow
  <2>10. CASE StoreBucket(f)
    <3>0. r.speed \in Nat
      <4>1. r.speed \in Speeds \cup {0}
        BY <2>1 DEF FlowType
      <4>2. QED
        BY <4>1, SpeedNat
    <3> DEFINE v == [r EXCEPT !.at = "open", !.speed = 0, !.since = 0]
    <3>1. v \in FlowType /\ v.address = r.address /\ v.by = r.by /\ (v.at = "register" => v.tcp) /\ [speed |-> r.speed, since |-> r.since] \in BucketType
      <4>1. r.speed \in Speeds \cup {0} /\ r.since \in 0..MaxUpdates /\ 0 \in 0..MaxUpdates /\ "open" \in FlowSteps
        BY <2>1, TrackerConstants DEF FlowType, FlowSteps
      <4>3. v \in FlowType /\ v.address = r.address /\ v.by = r.by /\ (v.at = "register" => v.tcp)
        BY <2>1, <4>1 DEF FlowType
      <4>4. QED
        BY <3>0, <4>1, <4>3 DEF BucketType
    <3>2. r.at = "store" /\ PutFlow(f, v)
      BY <2>10 DEF StoreBucket
    <3>3. flow' \in [Flows -> FlowType] /\ FlowsSound'
      BY <2>1, <3>1, <3>2, FlowPut
    <3>4. rateOf' \in Seq(BucketType) /\ bucket' \in 0..Len(rateOf') /\ made \in 0..Len(rateOf')
      <4>1. rateOf \in Seq(BucketType) /\ bucket \in 0..Len(rateOf) /\ made \in 0..Len(rateOf) /\ Len(rateOf) \in Nat
        BY <2>1 DEF TrackerTypeOK
      <4>2. CASE bucket # 0
        BY <2>10, <4>1, <4>2 DEF StoreBucket
      <4>3. CASE bucket = 0
        <5>1. rateOf' = Append(rateOf, [speed |-> r.speed, since |-> r.since]) /\ bucket' = Len(rateOf')
          BY <2>10, <4>3 DEF StoreBucket
        <5>2. rateOf' \in Seq(BucketType) /\ Len(rateOf') = Len(rateOf) + 1
          BY <3>1, <4>1, <5>1
        <5>3. QED
          BY <4>1, <5>1, <5>2
      <4>4. QED
        BY <4>2, <4>3
    <3>5. QED
      BY <2>1, <2>10, <3>3, <3>4 DEF StoreBucket, accounting, TrackSound, TrackerTypeOK
  <2>11. CASE CarryConn(f) \/ CarryPacket(f) \/ AddTraffic(f)
    <3>1. UNCHANGED <<limits, tracker, mapped, stats, global, flow, sharing>>
      BY <2>11 DEF CarryConn, CarryPacket, Account, AddTraffic
    <3>2. totals' \in [Kinds -> Nat] /\ owed' \in [Flows -> SUBSET Kinds] /\ carriedBy' \in 0..MaxCarried
      <4>1. totals \in [Kinds -> Nat] /\ owed \in [Flows -> SUBSET Kinds] /\ carriedBy \in 0..MaxCarried
        BY <2>1 DEF TrackerTypeOK
      <4>2. CASE CarryConn(f) \/ CarryPacket(f)
        BY TrackerConstants, <4>1, <4>2 DEF CarryConn, CarryPacket, Account
      <4>3. CASE AddTraffic(f)
        BY <4>1, <4>3 DEF AddTraffic
      <4>4. QED
        BY <2>11, <4>2, <4>3
    <3>3. QED
      BY <2>1, <3>1, <3>2 DEF limits, TrackSound, TrackerTypeOK, FlowsSound
  <2>12. CASE RemoveConn(f)
    <3> DEFINE v == [r EXCEPT !.at = "unref"]
    <3>1. v \in FlowType /\ v.address = r.address /\ v.by = r.by /\ (v.at = "register" => v.tcp)
      BY <2>1 DEF FlowType, FlowSteps
    <3>2. r.at = "open" /\ PutFlow(f, v)
      BY <2>12 DEF RemoveConn, Go
    <3>3. flow' \in [Flows -> FlowType] /\ FlowsSound'
      BY <2>1, <3>1, <3>2, FlowPut
    <3>4. stats' \in [Trackers -> [ips : [Addresses -> Nat], count : Nat, refs : SUBSET Flows]]
      <4>1. CASE r.us = 0
        BY <2>1, <2>12, <4>1 DEF RemoveConn, TrackerTypeOK
      <4>2. CASE r.us # 0
        <5>1. r.us \in Trackers /\ r.address \in Addresses /\ stats \in [Trackers -> StatsType]
          BY <2>1, <3>2, <4>2 DEF FlowType, TrackerTypeOK, StatsType
        <5>2. flow[f] \in CountedType(r.us) /\ flow'[f] \notin CountedType(r.us)
          <6>1. flow'[f] = v /\ v.at = "unref"
            BY <2>1, <3>1, <3>2, FlowPut DEF FlowType
          <6>2. QED
            BY <2>1, <3>2, <6>1 DEF CountedType, CountedSteps
        <5>3. Number(Flows, flow', CountedType(r.us)) \in Nat
              /\ Number(Flows, flow, CountedType(r.us)) - 1 = Number(Flows, flow', CountedType(r.us))
          <6>1. \A g \in Flows \ {f} : flow'[g] = flow[g]
            BY <2>1, <3>1, <3>2, FlowPut
          <6>2. QED
            BY <5>2, <6>1, FlowMoves
        <5>4. stats[r.us].count - 1 \in Nat /\ (IF stats[r.us].ips[r.address] > 1 THEN stats[r.us].ips[r.address] - 1 ELSE 0) \in Nat
          <6>1. stats[r.us] \in StatsType
            BY <5>1
          <6>2. stats[r.us].count \in Nat /\ stats[r.us].ips \in [Addresses -> Nat]
            BY <6>1 DEF StatsType
          <6>3. stats[r.us].ips[r.address] \in Nat
            BY <5>1, <6>2
          <6>4. stats[r.us].count - 1 \in Nat
            BY <5>1, <5>3, <6>2 DEF TrackCounts
          <6>5. QED
            BY <6>3, <6>4
        <5>5. stats' = [stats EXCEPT ![r.us].count = stats[r.us].count - 1,
                                     ![r.us].ips[r.address] = IF stats[r.us].ips[r.address] > 1 THEN stats[r.us].ips[r.address] - 1 ELSE 0]
          BY <2>12, <4>2, <5>1 DEF RemoveConn, StatsType
        <5>6. QED
          BY <5>1, <5>4, <5>5, StatsPut DEF StatsType
      <4>3. QED
        BY <4>1, <4>2
    <3>5. QED
      BY <2>1, <2>12, <3>3, <3>4 DEF RemoveConn, limits, accounting, TrackSound, TrackerTypeOK
  <2>13. CASE RemoveConnRef(f)
    <3>1. Gone \in FlowType /\ Gone.at = "gone"
      BY GoneTyped
    <3>2. r.at = "unref" /\ PutFlow(f, Gone)
      BY <2>13 DEF RemoveConnRef
    <3>3. flow' \in [Flows -> FlowType] /\ FlowsSound'
      BY <3>1, <3>2, FlowPut
    <3>4. stats' \in [Trackers -> [ips : [Addresses -> Nat], count : Nat, refs : SUBSET Flows]]
      <4>1. r.by \in Trackers /\ stats \in [Trackers -> StatsType]
        BY <2>1, <3>2 DEF TrackerTypeOK, StatsType
      <4>2. stats' = [stats EXCEPT ![r.by].refs = stats[r.by].refs \ {f}]
        BY <2>13 DEF RemoveConnRef
      <4>3. stats[r.by].refs \ {f} \in SUBSET Flows
        BY <4>1 DEF StatsType
      <4>4. QED
        BY <4>1, <4>2, <4>3, RefsPut DEF StatsType
    <3>5. QED
      BY <2>1, <2>13, <3>3, <3>4 DEF RemoveConnRef, limits, accounting, TrackSound, TrackerTypeOK
  <2>14. QED
    BY <1>8, <2>2, <2>3, <2>4, <2>5, <2>6, <2>7, <2>8, <2>9, <2>10, <2>11, <2>12, <2>13 DEF FlowStep
<1>9. QED
  BY <1>1, <1>2, <1>3, <1>4, <1>5, <1>6, <1>7, <1>8 DEF TrackerNext

---------------------------------------------------------------------------
LEMMA SpeedStart == TrackerInit => SpeedInv
BY DEF TrackerInit, SpeedInv, NewFlow

\* A connection that neither stores a bucket nor reads the speed leaves the buckets alone.
LEMMA SpeedKept ==
  ASSUME SpeedInv, UNCHANGED <<panelUser, bucket, rateOf, updates, made>>, update' = update, NEW f \in Flows,
         \A g \in Flows \ {f} : flow'[g] = flow[g], flow'[f].at = "store" => flow'[f].speed = panelUser.speed /\ flow'[f].since = updates /\ updates \in Nat
  PROVE  SpeedInv'
BY DEF SpeedInv

LEMMA SpeedStep == ASSUME TrackSound, SpeedInv, [TrackerNext]_tvars PROVE SpeedInv'
<1>0. /\ TrackerTypeOK /\ rateOf \in Seq(BucketType) /\ bucket \in 0..Len(rateOf) /\ made \in 0..Len(rateOf) /\ Len(rateOf) \in Nat
  <2>1. TrackerTypeOK /\ rateOf \in Seq(BucketType) /\ bucket \in 0..Len(rateOf) /\ made \in 0..Len(rateOf)
    BY DEF TrackSound, TrackerTypeOK
  <2>2. QED
    BY <2>1, LenProperties
<1>00. updates \in Nat /\ MaxUpdates \in Nat
  BY <1>0, TrackerConstants DEF TrackerTypeOK
<1>1. CASE SetUser
  <2>1. /\ updates' = updates + 1 /\ update' = "buckets" /\ UNCHANGED <<flow, bucket, rateOf, made>>
    BY <1>1 DEF SetUser
  <2>2. \A f \in Flows : flow[f].since \in Nat
    BY <1>0, <1>00 DEF TrackerTypeOK, FlowType
  <2>3. bucket # 0 => rateOf[bucket].since \in Nat
    <3>1. bucket # 0 => rateOf[bucket] \in BucketType
      BY <1>0, ElementOfSeq
    <3>2. QED
      BY <1>00, <3>1 DEF BucketType
  <2>4. QED
    BY <1>00, <2>1, <2>2, <2>3 DEF SpeedInv
<1>2. CASE UpdateBuckets
  <2>1. flow' = flow /\ panelUser' = panelUser /\ made' = Len(rateOf) /\ updates' = updates
    BY <1>2 DEF UpdateBuckets
  <2>2. panelUser.speed \in Nat
    BY SpeedNat, <1>0 DEF TrackerTypeOK
  <2>3. Len(rateOf') = Len(rateOf) /\ (bucket' # 0 => rateOf'[bucket'] = [speed |-> panelUser.speed, since |-> updates])
    <3>1. CASE bucket # 0 /\ panelUser.speed > 0
      <4>1. rateOf' = [rateOf EXCEPT ![bucket] = [speed |-> panelUser.speed, since |-> updates]] /\ bucket' = bucket
        BY <1>2, <3>1 DEF UpdateBuckets
      <4>2. bucket \in 1..Len(rateOf)
        BY <1>0, <3>1
      <4>3. [speed |-> panelUser.speed, since |-> updates] \in BucketType
        BY <1>0, <2>2 DEF BucketType, TrackerTypeOK
      <4>4. QED
        BY <1>0, <4>1, <4>2, <4>3, ExceptSeq
    <3>2. CASE ~(bucket # 0 /\ panelUser.speed > 0)
      BY <1>2, <3>2 DEF UpdateBuckets
    <3>3. QED
      BY <3>1, <3>2
  <2>4. Len(rateOf') - made' = 0
    BY <1>0, <2>1, <2>3
  <2>5. bucket' # 0 => rateOf'[bucket'].speed = panelUser'.speed /\ rateOf'[bucket'].since = updates'
    BY <2>1, <2>3
  <2>6. \A f \in Flows : flow'[f].at = "store" => (flow'[f].since <= updates' /\ (flow'[f].since = updates' => flow'[f].speed = panelUser'.speed))
    BY <2>1 DEF SpeedInv
  <2>7. QED
    BY <1>00, <2>1, <2>4, <2>5, <2>6 DEF SpeedInv
<1>3. CASE SetUserMap
  BY <1>3 DEF SetUserMap, SpeedInv
<1>4. CASE Rebuild
  BY <1>4 DEF Rebuild, SpeedInv
<1>5. CASE UpdateGlobalDevices
  BY <1>5 DEF UpdateGlobalDevices, limits, SpeedInv
<1>6. CASE GlobalGone
  BY <1>6 DEF GlobalGone, limits, SpeedInv
<1>7. CASE UNCHANGED tvars
  BY <1>7 DEF tvars, SpeedInv
<1>8. ASSUME NEW f \in Flows, FlowStep(f) PROVE SpeedInv'
  <2> DEFINE r == flow[f]
  <2>1. r \in FlowType /\ flow \in [Flows -> FlowType]
    BY DEF TrackSound, TrackerTypeOK
  <2>2. ASSUME StoreBucket(f) PROVE SpeedInv'
    <3>1. r.at = "store" /\ flow' = [flow EXCEPT ![f] = [r EXCEPT !.at = "open", !.speed = 0, !.since = 0]]
      BY <2>2 DEF StoreBucket, PutFlow
    <3>2. flow'[f].at = "open" /\ \A g \in Flows \ {f} : flow'[g] = flow[g]
      BY <2>1, <3>1 DEF FlowType
    <3>3. panelUser' = panelUser /\ update' = update /\ updates' = updates /\ made' = made
      BY <2>2 DEF StoreBucket
    <3>4. CASE bucket # 0
      BY <2>2, <3>2, <3>3, <3>4, SpeedKept DEF StoreBucket
    <3>5. CASE bucket = 0
      <4>1. rateOf' = Append(rateOf, [speed |-> r.speed, since |-> r.since]) /\ bucket' = Len(rateOf')
        BY <2>2, <3>5 DEF StoreBucket
      <4>2. [speed |-> r.speed, since |-> r.since] \in BucketType
        BY <2>1, SpeedNat DEF FlowType, BucketType
      <4>3. Len(rateOf') = Len(rateOf) + 1 /\ rateOf'[Len(rateOf) + 1] = [speed |-> r.speed, since |-> r.since]
        BY <1>0, <4>1, <4>2
      <4>4. r.since <= updates /\ (r.since = updates => r.speed = panelUser.speed)
        BY <3>1 DEF SpeedInv
      <4>8. \A g \in Flows : flow'[g].at = "store" => (flow'[g].since <= updates' /\ (flow'[g].since = updates' => flow'[g].speed = panelUser'.speed))
        BY <3>2, <3>3 DEF SpeedInv
      <4>9. bucket' \notin 1..made'
        BY <1>0, <3>3, <4>1, <4>3
      <4>5. Len(rateOf') - made' <= 1
        BY <1>0, <3>3, <3>5, <4>3 DEF SpeedInv
      <4>6. bucket' # 0
        BY <1>0, <4>1, <4>3
      <4>7. QED
        BY <3>3, <4>1, <4>3, <4>4, <4>5, <4>6, <4>8, <4>9 DEF SpeedInv
    <3>6. QED
      BY <3>4, <3>5
  <2>3. ASSUME ReadSpeed(f) PROVE SpeedInv'
    <3>1. flow' = [flow EXCEPT ![f] = [r EXCEPT !.at = IF panelUser.speed > 0 THEN "store" ELSE "open", !.speed = panelUser.speed, !.since = updates]]
      BY <2>3 DEF ReadSpeed, PutFlow
    <3>2. flow'[f].speed = panelUser.speed /\ flow'[f].since = updates /\ \A g \in Flows \ {f} : flow'[g] = flow[g]
      BY <2>1, <3>1 DEF FlowType
    <3>3. QED
      BY <1>00, <2>3, <3>2, SpeedKept DEF ReadSpeed, Silent, limits
  <2>4. ASSUME Resolve(f) PROVE SpeedInv'
    <3>1. flow'[f].at # "store" /\ \A g \in Flows \ {f} : flow'[g] = flow[g]
      BY <2>1, <2>4 DEF Resolve, PutFlow, FlowType, Silent, limits, NewFlow
    <3>2. QED
      BY <2>4, <3>1, SpeedKept DEF Resolve, Silent, limits
  <2>5. ASSUME ReadLimit(f) PROVE SpeedInv'
    <3>1. flow'[f].at # "store" /\ \A g \in Flows \ {f} : flow'[g] = flow[g]
      BY <2>1, <2>5 DEF ReadLimit, PutFlow, FlowType, Silent, limits
    <3>2. QED
      BY <2>5, <3>1, SpeedKept DEF ReadLimit, Silent, limits
  <2>6. ASSUME ReadLocal(f) PROVE SpeedInv'
    <3>1. flow'[f].at # "store" /\ \A g \in Flows \ {f} : flow'[g] = flow[g]
      BY <2>1, <2>6 DEF ReadLocal, PutFlow, FlowType, Silent, limits
    <3>2. QED
      BY <2>6, <3>1, SpeedKept DEF ReadLocal, Silent, limits
  <2>7. ASSUME Gate(f) PROVE SpeedInv'
    <3>1. flow'[f].at # "store" /\ \A g \in Flows \ {f} : flow'[g] = flow[g]
      BY <2>1, <2>7 DEF Gate, PutFlow, FlowType, Silent, limits, Gone, NewFlow
    <3>2. QED
      BY <2>7, <3>1, SpeedKept DEF Gate, Silent, limits
  <2>8. ASSUME AddConn(f) PROVE SpeedInv'
    <3>1. flow'[f].at # "store" /\ \A g \in Flows \ {f} : flow'[g] = flow[g]
      BY <2>1, <2>8 DEF AddConn, PutFlow, FlowType, limits
    <3>2. QED
      BY <2>8, <3>1, SpeedKept DEF AddConn, limits
  <2>9. ASSUME Register(f) PROVE SpeedInv'
    <3>1. flow'[f].at # "store" /\ \A g \in Flows \ {f} : flow'[g] = flow[g]
      BY <2>1, <2>9 DEF Register, PutFlow, FlowType, limits, Go
    <3>2. QED
      BY <2>9, <3>1, SpeedKept DEF Register, limits
  <2>10. ASSUME LookBucket(f) PROVE SpeedInv'
    <3>1. flow'[f].at # "store" /\ \A g \in Flows \ {f} : flow'[g] = flow[g]
      BY <2>1, <2>10 DEF LookBucket, PutFlow, FlowType, Silent, limits, Go
    <3>2. QED
      BY <2>10, <3>1, SpeedKept DEF LookBucket, Silent, limits
  <2>11. ASSUME RemoveConn(f) PROVE SpeedInv'
    <3>1. flow'[f].at # "store" /\ \A g \in Flows \ {f} : flow'[g] = flow[g]
      BY <2>1, <2>11 DEF RemoveConn, PutFlow, FlowType, limits, Go
    <3>2. QED
      BY <2>11, <3>1, SpeedKept DEF RemoveConn, limits
  <2>12. ASSUME RemoveConnRef(f) PROVE SpeedInv'
    <3>1. flow'[f].at # "store" /\ \A g \in Flows \ {f} : flow'[g] = flow[g]
      BY <2>1, <2>12 DEF RemoveConnRef, PutFlow, FlowType, limits, Gone, NewFlow
    <3>2. QED
      BY <2>12, <3>1, SpeedKept DEF RemoveConnRef, limits
  <2>13. ASSUME CarryConn(f) \/ CarryPacket(f) \/ AddTraffic(f) PROVE SpeedInv'
    BY <2>13 DEF CarryConn, CarryPacket, Account, AddTraffic, limits, SpeedInv
  <2>14. QED
    BY <1>8, <2>2, <2>3, <2>4, <2>5, <2>6, <2>7, <2>8, <2>9, <2>10, <2>11, <2>12, <2>13 DEF FlowStep
<1>9. QED
  BY <1>1, <1>2, <1>3, <1>4, <1>5, <1>6, <1>7, <1>8 DEF TrackerNext

---------------------------------------------------------------------------
LEMMA TrackCountsStart == TrackerInit => TrackCounts
<1> SUFFICES ASSUME TrackerInit PROVE TrackCounts
  OBVIOUS
<1>1. \A f \in Flows : flow[f] = NewFlow
  BY DEF TrackerInit
<1>2. ASSUME NEW t \in Trackers
      PROVE  /\ Having(Flows, flow, CountedType(t)) = {} /\ Having(Flows, flow, ReferredType(t)) = {}
             /\ \A a \in Addresses : Having(Flows, flow, AddressType(t, a)) = {}
  BY <1>1 DEF NewFlow, Having, CountedType, ReferredType, AddressType, CountedSteps
<1>3. Cardinality({}) = 0
  BY FS_EmptySet
<1>4. \A t \in Trackers : /\ Number(Flows, flow, CountedType(t)) = 0
                          /\ \A a \in Addresses : Number(Flows, flow, AddressType(t, a)) = 0
  BY <1>2, <1>3 DEF Number
<1>5. \A t \in Trackers : stats[t].count = 0 /\ stats[t].refs = {} /\ \A a \in Addresses : stats[t].ips[a] = 0
  BY DEF TrackerInit
<1>6. QED
  BY <1>2, <1>4, <1>5 DEF TrackCounts

\* The books that name one connection: who is added to the sets, and who leaves.
LEMMA ReferredMoves ==
  ASSUME NEW f \in Flows, \A g \in Flows \ {f} : flow'[g] = flow[g], NEW R
  PROVE  /\ (flow[f] \in R <=> flow'[f] \in R) => Having(Flows, flow', R) = Having(Flows, flow, R)
         /\ flow'[f] \in R => Having(Flows, flow', R) = Having(Flows, flow, R) \cup {f}
         /\ flow'[f] \notin R => Having(Flows, flow', R) = Having(Flows, flow, R) \ {f}
BY DEF Having

\* A step that leaves a connection as counted and as referred as it was.
LEMMA CountsKept ==
  ASSUME TrackCounts, UNCHANGED stats, NEW f \in Flows, \A g \in Flows \ {f} : flow'[g] = flow[g],
         \A t \in Trackers : /\ flow[f] \in CountedType(t) <=> flow'[f] \in CountedType(t)
                             /\ flow[f] \in ReferredType(t) <=> flow'[f] \in ReferredType(t)
                             /\ \A a \in Addresses : flow[f] \in AddressType(t, a) <=> flow'[f] \in AddressType(t, a)
  PROVE  TrackCounts'
<1>1. ASSUME NEW t \in Trackers
      PROVE  /\ stats'[t].count = Number(Flows, flow', CountedType(t)) /\ stats'[t].refs = Having(Flows, flow', ReferredType(t))
             /\ \A a \in Addresses : stats'[t].ips[a] = Number(Flows, flow', AddressType(t, a))
  <2>1. stats'[t].refs = Having(Flows, flow', ReferredType(t))
    BY ReferredMoves DEF TrackCounts
  <2>2. stats'[t].count = Number(Flows, flow', CountedType(t))
    BY FlowMoves DEF TrackCounts
  <2>3. \A a \in Addresses : stats'[t].ips[a] = Number(Flows, flow', AddressType(t, a))
    BY FlowMoves DEF TrackCounts
  <2>4. QED
    BY <2>1, <2>2, <2>3
<1>2. QED
  BY <1>1 DEF TrackCounts

LEMMA CountsKeptAll ==
  ASSUME TrackCounts, UNCHANGED <<stats, flow>> PROVE TrackCounts'
BY DEF TrackCounts

LEMMA IpsNat ==
  ASSUME stats \in [Trackers -> StatsType], NEW t \in Trackers, NEW a \in Addresses PROVE stats[t].ips[a] \in Nat
<1>1. stats[t].ips \in [Addresses -> Nat]
  BY DEF StatsType
<1>2. QED
  BY <1>1

LEMMA TrackCountsStep == ASSUME TrackSound, TrackSound', TrackCounts, [TrackerNext]_tvars PROVE TrackCounts'
<1>1. CASE SetUser
  BY <1>1, CountsKeptAll DEF SetUser
<1>2. CASE UpdateBuckets
  BY <1>2, CountsKeptAll DEF UpdateBuckets
<1>3. CASE SetUserMap
  BY <1>3, CountsKeptAll DEF SetUserMap
<1>4. CASE Rebuild
  BY <1>4, CountsKeptAll DEF Rebuild
<1>5. CASE UpdateGlobalDevices
  BY <1>5, CountsKeptAll DEF UpdateGlobalDevices
<1>6. CASE GlobalGone
  BY <1>6, CountsKeptAll DEF GlobalGone
<1>7. CASE UNCHANGED tvars
  BY <1>7, CountsKeptAll DEF tvars
<1>8. ASSUME NEW f \in Flows, FlowStep(f) PROVE TrackCounts'
  <2> DEFINE r == flow[f]
             new == flow'[f]
  <2>1. /\ flow \in [Flows -> FlowType] /\ r \in FlowType /\ new \in FlowType /\ stats \in [Trackers -> StatsType]
        /\ (r.at \notin {"new", "gone"} => r.address \in Addresses /\ r.by \in Trackers) /\ (r.at = "register" => r.tcp)
    <3>1. flow \in [Flows -> FlowType] /\ flow' \in [Flows -> FlowType] /\ stats \in [Trackers -> StatsType]
      BY DEF TrackSound, TrackerTypeOK, StatsType
    <3>2. FlowsSound
      BY DEF TrackSound
    <3>3. (r.at \notin {"new", "gone"} => r.address \in Addresses /\ r.by \in Trackers) /\ (r.at = "register" => r.tcp)
      BY <3>2 DEF FlowsSound
    <3>4. QED
      BY <3>1, <3>3
  <2>0. 0 \notin Trackers
    BY DEF Trackers
  <2>2. ASSUME Resolve(f) PROVE TrackCounts'
    <3>1. r.at = "new" /\ new.at = "limit" /\ \A g \in Flows \ {f} : flow'[g] = flow[g]
      BY <2>1, <2>2 DEF Resolve, PutFlow, FlowType, Silent, NewFlow
    <3>2. QED
      BY <2>1, <2>2, <3>1, CountsKept DEF Resolve, Silent, CountedType, ReferredType, AddressType, CountedSteps
  <2>3. ASSUME ReadLimit(f) PROVE TrackCounts'
    <3>1. r.at = "limit" /\ new.at \in {"local", "add"} /\ \A g \in Flows \ {f} : flow'[g] = flow[g]
      BY <2>1, <2>3 DEF ReadLimit, PutFlow, FlowType, Silent
    <3>2. QED
      BY <2>1, <2>3, <3>1, CountsKept DEF ReadLimit, Silent, CountedType, ReferredType, AddressType, CountedSteps
  <2>4. ASSUME ReadLocal(f) PROVE TrackCounts'
    <3>1. r.at = "local" /\ new.at \in {"add", "global"} /\ \A g \in Flows \ {f} : flow'[g] = flow[g]
      BY <2>1, <2>4 DEF ReadLocal, PutFlow, FlowType, Silent
    <3>2. QED
      BY <2>1, <2>4, <3>1, CountsKept DEF ReadLocal, Silent, CountedType, ReferredType, AddressType, CountedSteps
  <2>5. ASSUME Gate(f) PROVE TrackCounts'
    <3>1. r.at = "global" /\ new.at \in {"add", "gone"} /\ \A g \in Flows \ {f} : flow'[g] = flow[g]
      BY <2>1, <2>5 DEF Gate, PutFlow, FlowType, Silent, Gone, NewFlow
    <3>2. QED
      BY <2>1, <2>5, <3>1, CountsKept DEF Gate, Silent, CountedType, ReferredType, AddressType, CountedSteps
  <2>6. ASSUME LookBucket(f) PROVE TrackCounts'
    <3>1. /\ r.at = "speed" /\ new.at \in {"read", "open"} /\ new.us = r.us /\ new.by = r.by /\ new.tcp = r.tcp /\ new.address = r.address
          /\ \A g \in Flows \ {f} : flow'[g] = flow[g]
      BY <2>1, <2>6 DEF LookBucket, PutFlow, FlowType, Silent, Go
    <3>2. /\ \A t : r \in CountedType(t) <=> new \in CountedType(t)
          /\ \A t : r \in ReferredType(t) <=> new \in ReferredType(t)
          /\ \A t, a : r \in AddressType(t, a) <=> new \in AddressType(t, a)
      BY <2>1, <3>1 DEF CountedType, ReferredType, AddressType, CountedSteps
    <3>3. QED
      BY <2>6, <3>1, <3>2, CountsKept DEF LookBucket, Silent
  <2>7. ASSUME ReadSpeed(f) PROVE TrackCounts'
    <3>1. /\ r.at = "read" /\ new.at \in {"store", "open"} /\ new.us = r.us /\ new.by = r.by /\ new.tcp = r.tcp /\ new.address = r.address
          /\ \A g \in Flows \ {f} : flow'[g] = flow[g]
      BY <2>1, <2>7 DEF ReadSpeed, PutFlow, FlowType, Silent
    <3>2. /\ \A t : r \in CountedType(t) <=> new \in CountedType(t)
          /\ \A t : r \in ReferredType(t) <=> new \in ReferredType(t)
          /\ \A t, a : r \in AddressType(t, a) <=> new \in AddressType(t, a)
      BY <2>1, <3>1 DEF CountedType, ReferredType, AddressType, CountedSteps
    <3>3. QED
      BY <2>7, <3>1, <3>2, CountsKept DEF ReadSpeed, Silent
  <2>8. ASSUME StoreBucket(f) PROVE TrackCounts'
    <3>1. /\ r.at = "store" /\ new.at = "open" /\ new.us = r.us /\ new.by = r.by /\ new.tcp = r.tcp /\ new.address = r.address
          /\ \A g \in Flows \ {f} : flow'[g] = flow[g]
      BY <2>1, <2>8 DEF StoreBucket, PutFlow, FlowType, Go
    <3>2. /\ \A t : r \in CountedType(t) <=> new \in CountedType(t)
          /\ \A t : r \in ReferredType(t) <=> new \in ReferredType(t)
          /\ \A t, a : r \in AddressType(t, a) <=> new \in AddressType(t, a)
      BY <2>1, <3>1 DEF CountedType, ReferredType, AddressType, CountedSteps
    <3>3. QED
      BY <2>8, <3>1, <3>2, CountsKept DEF StoreBucket, Silent
  <2>9. ASSUME CarryConn(f) \/ CarryPacket(f) \/ AddTraffic(f) PROVE TrackCounts'
    BY <2>9, CountsKeptAll DEF CarryConn, CarryPacket, Account, AddTraffic
  <2>10. ASSUME AddConn(f) PROVE TrackCounts'
    <3>1. /\ r.at = "add" /\ new.at = (IF r.tcp THEN "register" ELSE "speed") /\ new.us = r.us /\ new.by = r.by /\ new.tcp = r.tcp /\ new.address = r.address
          /\ \A g \in Flows \ {f} : flow'[g] = flow[g]
      BY <2>1, <2>10 DEF AddConn, PutFlow, FlowType
    <3>2. /\ \A t : r \notin CountedType(t) /\ (new \in CountedType(t) <=> t = r.us)
          /\ \A t : r \notin ReferredType(t) /\ new \notin ReferredType(t)
          /\ \A t, a : r \notin AddressType(t, a) /\ (new \in AddressType(t, a) <=> t = r.us /\ a = r.address)
      BY <2>1, <3>1 DEF CountedType, ReferredType, AddressType, CountedSteps
    <3>4. CASE r.us = 0
      <4>1. stats' = stats
        BY <2>10, <3>4 DEF AddConn
      <4>2. QED
        BY <2>0, <3>1, <3>2, <3>4, <4>1, CountsKept
    <3>5. CASE r.us # 0
      <4>1. r.us \in Trackers /\ r.address \in Addresses
        BY <2>1, <3>1, <3>5 DEF FlowType
      <4>2. stats[r.us].count \in Nat /\ stats[r.us].ips[r.address] \in Nat
        <5>1. stats[r.us] \in StatsType
          BY <2>1, <4>1
        <5>2. QED
          BY <4>1, <5>1 DEF StatsType
      <4>3. stats' = [stats EXCEPT ![r.us].count = stats[r.us].count + 1, ![r.us].ips[r.address] = stats[r.us].ips[r.address] + 1]
        BY <2>1, <2>10, <3>5, <4>1 DEF AddConn, StatsType
      <4>4. /\ stats'[r.us].count = stats[r.us].count + 1 /\ stats'[r.us].refs = stats[r.us].refs
            /\ stats'[r.us].ips[r.address] = stats[r.us].ips[r.address] + 1
            /\ \A b \in Addresses \ {r.address} : stats'[r.us].ips[b] = stats[r.us].ips[b]
            /\ \A t \in Trackers \ {r.us} : stats'[t] = stats[t]
        <5> DEFINE u == r.us
                   a == r.address
                   m == stats[r.us].count + 1
                   i == stats[r.us].ips[r.address] + 1
        <5>1. u \in Trackers /\ a \in Addresses /\ m \in Nat /\ i \in Nat /\ stats \in [Trackers -> StatsType]
              /\ stats' = [stats EXCEPT ![u].count = m, ![u].ips[a] = i]
          BY <2>1, <4>1, <4>2, <4>3
        <5> HIDE DEF u, a, m, i
        <5>2. /\ stats'[u].count = m /\ stats'[u].refs = stats[u].refs /\ stats'[u].ips[a] = i
              /\ \A b \in Addresses \ {a} : stats'[u].ips[b] = stats[u].ips[b]
              /\ \A t \in Trackers \ {u} : stats'[t] = stats[t]
          BY <5>1 DEF StatsType
        <5>3. QED
          BY <5>2 DEF u, a, m, i
      <4> HIDE DEF r, new
      <4>5. ASSUME NEW t \in Trackers
            PROVE  /\ stats'[t].count = Number(Flows, flow', CountedType(t)) /\ stats'[t].refs = Having(Flows, flow', ReferredType(t))
                   /\ \A a \in Addresses : stats'[t].ips[a] = Number(Flows, flow', AddressType(t, a))
        <5>1. stats'[t].refs = Having(Flows, flow', ReferredType(t))
          BY <3>1, <3>2, <4>4, ReferredMoves DEF TrackCounts, r, new
        <5>2. stats'[t].count = Number(Flows, flow', CountedType(t))
          BY <3>1, <3>2, <4>4, FlowMoves DEF TrackCounts, r, new
        <5>3. ASSUME NEW a \in Addresses PROVE stats'[t].ips[a] = Number(Flows, flow', AddressType(t, a))
          <6>1. stats'[t].ips[a] = stats[t].ips[a] + IF t = r.us /\ a = r.address THEN 1 ELSE 0
            BY <2>1, <4>1, <4>4, IpsNat
          <6>2. stats[t].ips[a] = Number(Flows, flow, AddressType(t, a))
            BY DEF TrackCounts
          <6>3. Number(Flows, flow', AddressType(t, a)) = Number(Flows, flow, AddressType(t, a)) + IF t = r.us /\ a = r.address THEN 1 ELSE 0
            BY <3>1, <3>2, FlowMoves DEF r, new
          <6>4. QED
            BY <6>1, <6>2, <6>3
        <5>4. QED
          BY <5>1, <5>2, <5>3
      <4>6. QED
        BY <4>5 DEF TrackCounts
    <3>6. QED
      BY <3>4, <3>5
  <2>11. ASSUME RemoveConn(f) PROVE TrackCounts'
    <3>1. /\ r.at = "open" /\ new.at = "unref" /\ new.us = r.us /\ new.by = r.by /\ new.tcp = r.tcp /\ new.address = r.address
          /\ \A g \in Flows \ {f} : flow'[g] = flow[g]
      BY <2>1, <2>11 DEF RemoveConn, Go, PutFlow, FlowType
    <3>2. /\ \A t : new \notin CountedType(t) /\ (r \in CountedType(t) <=> t = r.us)
          /\ \A t : r \in ReferredType(t) <=> new \in ReferredType(t)
          /\ \A t, a : new \notin AddressType(t, a) /\ (r \in AddressType(t, a) <=> t = r.us /\ a = r.address)
      BY <2>1, <3>1 DEF CountedType, ReferredType, AddressType, CountedSteps
    <3>4. CASE r.us = 0
      <4>1. stats' = stats
        BY <2>11, <3>4 DEF RemoveConn
      <4>2. QED
        BY <2>0, <3>1, <3>2, <3>4, <4>1, CountsKept
    <3>5. CASE r.us # 0
      <4>1. r.us \in Trackers /\ r.address \in Addresses
        BY <2>1, <3>1, <3>5 DEF FlowType
      <4>2. stats[r.us].count \in Nat /\ stats[r.us].ips[r.address] \in Nat
        <5>1. stats[r.us] \in StatsType
          BY <2>1, <4>1
        <5>2. QED
          BY <4>1, <5>1 DEF StatsType
      <4>3. /\ Number(Flows, flow', CountedType(r.us)) \in Nat /\ Number(Flows, flow', AddressType(r.us, r.address)) \in Nat
            /\ stats[r.us].count = Number(Flows, flow', CountedType(r.us)) + 1
            /\ stats[r.us].ips[r.address] = Number(Flows, flow', AddressType(r.us, r.address)) + 1
        <5>1. /\ Number(Flows, flow', CountedType(r.us)) \in Nat /\ Number(Flows, flow, CountedType(r.us)) \in Nat
              /\ Number(Flows, flow', CountedType(r.us)) = Number(Flows, flow, CountedType(r.us)) - 1
          BY <3>1, <3>2, FlowMoves
        <5>2. /\ Number(Flows, flow', AddressType(r.us, r.address)) \in Nat /\ Number(Flows, flow, AddressType(r.us, r.address)) \in Nat
              /\ Number(Flows, flow', AddressType(r.us, r.address)) = Number(Flows, flow, AddressType(r.us, r.address)) - 1
          BY <3>1, <3>2, FlowMoves
        <5>3. /\ stats[r.us].count = Number(Flows, flow, CountedType(r.us))
              /\ stats[r.us].ips[r.address] = Number(Flows, flow, AddressType(r.us, r.address))
          BY <4>1 DEF TrackCounts
        <5>4. QED
          BY <5>1, <5>2, <5>3
      <4>4. stats' = [stats EXCEPT ![r.us].count = stats[r.us].count - 1,
                                   ![r.us].ips[r.address] = IF stats[r.us].ips[r.address] > 1 THEN stats[r.us].ips[r.address] - 1 ELSE 0]
        BY <2>1, <2>11, <3>5, <4>1 DEF RemoveConn, StatsType
      <4>5. (IF stats[r.us].ips[r.address] > 1 THEN stats[r.us].ips[r.address] - 1 ELSE 0) = stats[r.us].ips[r.address] - 1
        BY <4>2, <4>3
      <4>6. stats[r.us].count - 1 \in Nat /\ stats[r.us].ips[r.address] - 1 \in Nat
        BY <4>2, <4>3
      <4>7. stats' = [stats EXCEPT ![r.us].count = stats[r.us].count - 1, ![r.us].ips[r.address] = stats[r.us].ips[r.address] - 1]
        BY <4>4, <4>5
      <4>8. /\ stats'[r.us].count = stats[r.us].count - 1 /\ stats'[r.us].refs = stats[r.us].refs
            /\ stats'[r.us].ips[r.address] = stats[r.us].ips[r.address] - 1
            /\ \A b \in Addresses \ {r.address} : stats'[r.us].ips[b] = stats[r.us].ips[b]
            /\ \A t \in Trackers \ {r.us} : stats'[t] = stats[t]
        <5> DEFINE u == r.us
                   a == r.address
                   m == stats[r.us].count - 1
                   i == stats[r.us].ips[r.address] - 1
        <5>1. u \in Trackers /\ a \in Addresses /\ m \in Nat /\ i \in Nat /\ stats \in [Trackers -> StatsType]
              /\ stats' = [stats EXCEPT ![u].count = m, ![u].ips[a] = i]
          BY <2>1, <4>1, <4>6, <4>7
        <5> HIDE DEF u, a, m, i
        <5>2. /\ stats'[u].count = m /\ stats'[u].refs = stats[u].refs /\ stats'[u].ips[a] = i
              /\ \A b \in Addresses \ {a} : stats'[u].ips[b] = stats[u].ips[b]
              /\ \A t \in Trackers \ {u} : stats'[t] = stats[t]
          BY <5>1 DEF StatsType
        <5>3. QED
          BY <5>2 DEF u, a, m, i
      <4> HIDE DEF r, new
      <4>9. ASSUME NEW t \in Trackers
            PROVE  /\ stats'[t].count = Number(Flows, flow', CountedType(t)) /\ stats'[t].refs = Having(Flows, flow', ReferredType(t))
                   /\ \A a \in Addresses : stats'[t].ips[a] = Number(Flows, flow', AddressType(t, a))
        <5>1. stats'[t].refs = Having(Flows, flow', ReferredType(t))
          BY <3>1, <3>2, <4>8, ReferredMoves DEF TrackCounts, r, new
        <5>2. stats'[t].count = Number(Flows, flow', CountedType(t))
          BY <3>1, <3>2, <4>8, FlowMoves DEF TrackCounts, r, new
        <5>3. ASSUME NEW a \in Addresses PROVE stats'[t].ips[a] = Number(Flows, flow', AddressType(t, a))
          <6>1. stats'[t].ips[a] = stats[t].ips[a] - IF t = r.us /\ a = r.address THEN 1 ELSE 0
            BY <2>1, <4>1, <4>8, IpsNat
          <6>2. stats[t].ips[a] = Number(Flows, flow, AddressType(t, a))
            BY DEF TrackCounts
          <6>3. Number(Flows, flow', AddressType(t, a)) = Number(Flows, flow, AddressType(t, a)) - IF t = r.us /\ a = r.address THEN 1 ELSE 0
            BY <3>1, <3>2, FlowMoves DEF r, new
          <6>4. QED
            BY <6>1, <6>2, <6>3
        <5>4. QED
          BY <5>1, <5>2, <5>3
      <4>10. QED
        BY <4>9 DEF TrackCounts
    <3>6. QED
      BY <3>4, <3>5
  <2>12. ASSUME Register(f) PROVE TrackCounts'
    <3>1. /\ r.at = "register" /\ new.at = "speed" /\ new.us = r.us /\ new.by = r.by /\ new.tcp = r.tcp /\ new.address = r.address
          /\ \A g \in Flows \ {f} : flow'[g] = flow[g]
      BY <2>1, <2>12 DEF Register, Go, PutFlow, FlowType, Gone, NewFlow
    <3>2. /\ \A t : r \in CountedType(t) <=> new \in CountedType(t)
          /\ \A t, a : r \in AddressType(t, a) <=> new \in AddressType(t, a)
          /\ \A t \in Trackers : t # r.by => (r \in ReferredType(t) <=> new \in ReferredType(t))
          /\ new \in ReferredType(r.by)
      BY <2>0, <2>1, <3>1 DEF CountedType, ReferredType, AddressType, CountedSteps
    <3>3. r.by \in Trackers /\ stats' = [stats EXCEPT ![r.by].refs = stats[r.by].refs \cup {f}]
      BY <2>1, <2>12, <3>1 DEF Register
    <3>4. stats[r.by].refs \cup {f} \in SUBSET Flows
      BY <2>1, <3>3 DEF StatsType
    <3>5. /\ stats'[r.by].count = stats[r.by].count /\ stats'[r.by].refs = stats[r.by].refs \cup {f}
          /\ stats'[r.by].ips = stats[r.by].ips
          /\ \A t \in Trackers \ {r.by} : stats'[t] = stats[t]
      BY <2>1, <3>3, <3>4, RefsPut
    <3> HIDE DEF r, new
    <3>6. ASSUME NEW t \in Trackers
          PROVE  /\ stats'[t].count = Number(Flows, flow', CountedType(t)) /\ stats'[t].refs = Having(Flows, flow', ReferredType(t))
                 /\ \A a \in Addresses : stats'[t].ips[a] = Number(Flows, flow', AddressType(t, a))
      <4>1. stats'[t].refs = Having(Flows, flow', ReferredType(t))
        <5>1. stats[t].refs = Having(Flows, flow, ReferredType(t))
          BY DEF TrackCounts
        <5>2. CASE t = r.by
          BY <3>1, <3>2, <3>5, <5>1, <5>2, ReferredMoves DEF r, new
        <5>3. CASE t # r.by
          BY <3>1, <3>2, <3>5, <5>1, <5>3, ReferredMoves DEF r, new
        <5>4. QED
          BY <5>2, <5>3
      <4>2. stats'[t].count = stats[t].count /\ stats'[t].ips = stats[t].ips
        BY <3>5
      <4>3. stats'[t].count = Number(Flows, flow', CountedType(t))
        BY <3>1, <3>2, <4>2, FlowMoves DEF TrackCounts, r, new
      <4>4. \A a \in Addresses : stats'[t].ips[a] = Number(Flows, flow', AddressType(t, a))
        BY <3>1, <3>2, <4>2, FlowMoves DEF TrackCounts, r, new
      <4>5. QED
        BY <4>1, <4>3, <4>4
    <3>7. QED
      BY <3>6 DEF TrackCounts
  <2>13. ASSUME RemoveConnRef(f) PROVE TrackCounts'
    <3>1. /\ r.at = "unref" /\ new.at = "gone"
          /\ \A g \in Flows \ {f} : flow'[g] = flow[g]
      BY <2>1, <2>13 DEF RemoveConnRef, Go, PutFlow, FlowType, Gone, NewFlow
    <3>2. /\ \A t : r \in CountedType(t) <=> new \in CountedType(t)
          /\ \A t, a : r \in AddressType(t, a) <=> new \in AddressType(t, a)
          /\ \A t \in Trackers : t # r.by => (r \in ReferredType(t) <=> new \in ReferredType(t))
          /\ new \notin ReferredType(r.by)
      BY <2>0, <2>1, <3>1 DEF CountedType, ReferredType, AddressType, CountedSteps
    <3>3. r.by \in Trackers /\ stats' = [stats EXCEPT ![r.by].refs = stats[r.by].refs \ {f}]
      BY <2>1, <2>13, <3>1 DEF RemoveConnRef
    <3>4. stats[r.by].refs \ {f} \in SUBSET Flows
      BY <2>1, <3>3 DEF StatsType
    <3>5. /\ stats'[r.by].count = stats[r.by].count /\ stats'[r.by].refs = stats[r.by].refs \ {f}
          /\ stats'[r.by].ips = stats[r.by].ips
          /\ \A t \in Trackers \ {r.by} : stats'[t] = stats[t]
      BY <2>1, <3>3, <3>4, RefsPut
    <3> HIDE DEF r, new
    <3>6. ASSUME NEW t \in Trackers
          PROVE  /\ stats'[t].count = Number(Flows, flow', CountedType(t)) /\ stats'[t].refs = Having(Flows, flow', ReferredType(t))
                 /\ \A a \in Addresses : stats'[t].ips[a] = Number(Flows, flow', AddressType(t, a))
      <4>1. stats'[t].refs = Having(Flows, flow', ReferredType(t))
        <5>1. stats[t].refs = Having(Flows, flow, ReferredType(t))
          BY DEF TrackCounts
        <5>2. CASE t = r.by
          BY <3>1, <3>2, <3>5, <5>1, <5>2, ReferredMoves DEF r, new
        <5>3. CASE t # r.by
          BY <3>1, <3>2, <3>5, <5>1, <5>3, ReferredMoves DEF r, new
        <5>4. QED
          BY <5>2, <5>3
      <4>2. stats'[t].count = stats[t].count /\ stats'[t].ips = stats[t].ips
        BY <3>5
      <4>3. stats'[t].count = Number(Flows, flow', CountedType(t))
        BY <3>1, <3>2, <4>2, FlowMoves DEF TrackCounts, r, new
      <4>4. \A a \in Addresses : stats'[t].ips[a] = Number(Flows, flow', AddressType(t, a))
        BY <3>1, <3>2, <4>2, FlowMoves DEF TrackCounts, r, new
      <4>5. QED
        BY <4>1, <4>3, <4>4
    <3>7. QED
      BY <3>6 DEF TrackCounts
  <2>14. QED
    BY <1>8, <2>2, <2>3, <2>4, <2>5, <2>6, <2>7, <2>8, <2>9, <2>10, <2>11, <2>12, <2>13 DEF FlowStep
<1>9. QED
  BY <1>1, <1>2, <1>3, <1>4, <1>5, <1>6, <1>7, <1>8 DEF TrackerNext

---------------------------------------------------------------------------
\* What is owed of one kind, when one connection owes more or less of it.
LEMMA OwedMoves ==
  ASSUME NEW f \in Flows, \A g \in Flows \ {f} : owed'[g] = owed[g]
  PROVE  \A R : /\ Number(Flows, owed, R) \in Nat /\ Number(Flows, owed', R) \in Nat
                /\ (owed[f] \in R <=> owed'[f] \in R) => Number(Flows, owed', R) = Number(Flows, owed, R)
                /\ owed[f] \notin R /\ owed'[f] \in R => Number(Flows, owed', R) = Number(Flows, owed, R) + 1
                /\ owed[f] \in R /\ owed'[f] \notin R => Number(Flows, owed', R) = Number(Flows, owed, R) - 1
BY OneMoves, TrackerConstants

LEMMA TotalsStart == TrackerInit => TotalsInv
<1> SUFFICES ASSUME TrackerInit PROVE TotalsInv
  OBVIOUS
<1>1. \A k \in Kinds : Having(Flows, owed, OwingType(k)) = {}
  BY DEF TrackerInit, Having, OwingType
<1>2. Cardinality({}) = 0
  BY FS_EmptySet
<1>3. \A k \in Kinds : totals[k] + Number(Flows, owed, OwingType(k)) = carriedBy
  <2>1. \A k \in Kinds : totals[k] = 0 /\ carriedBy = 0
    BY DEF TrackerInit
  <2>2. \A k \in Kinds : Number(Flows, owed, OwingType(k)) = 0
    BY <1>1, <1>2 DEF Number
  <2>3. QED
    BY <2>1, <2>2
<1>4. Sharing
  BY DEF TrackerInit, Sharing, NewFlow
<1>5. QED
  BY <1>3, <1>4 DEF TotalsInv

LEMMA TotalsStep == ASSUME TrackSound, TotalsInv, [TrackerNext]_tvars PROVE TotalsInv'
<1>0. /\ flow \in [Flows -> FlowType] /\ owed \in [Flows -> SUBSET Kinds] /\ totals \in [Kinds -> Nat] /\ carriedBy \in Nat
      /\ sharing \in SUBSET Trackers
  BY DEF TrackSound, TrackerTypeOK
<1>1. CASE SetUser \/ UpdateBuckets \/ SetUserMap
  BY <1>1 DEF SetUser, UpdateBuckets, SetUserMap, accounting, TotalsInv, Sharing
<1>2. CASE UpdateGlobalDevices \/ GlobalGone
  BY <1>2 DEF UpdateGlobalDevices, GlobalGone, accounting, TotalsInv, Sharing
<1>3. CASE UNCHANGED tvars
  BY <1>3 DEF tvars, accounting, TotalsInv, Sharing
<1>4. CASE Rebuild
  BY <1>4 DEF Rebuild, TotalsInv, Sharing
<1>5. ASSUME NEW f \in Flows, FlowStep(f) PROVE TotalsInv'
  <2> DEFINE r == flow[f]
  <2>1. r \in FlowType /\ r.us \in sharing \cup {0} /\ tracker \in sharing
    BY <1>0 DEF TotalsInv, Sharing
  <2>2. CASE CarryConn(f) \/ CarryPacket(f)
    <3>1. /\ UNCHANGED <<tracker, flow, sharing, totals>> /\ r.us # 0 /\ owed[f] = {} /\ carriedBy' = carriedBy + 1
          /\ owed' = [owed EXCEPT ![f] = IF r.us \in sharing THEN Kinds ELSE {}]
      BY <2>2 DEF CarryConn, CarryPacket, Account
    <3>2. owed'[f] = Kinds /\ \A g \in Flows \ {f} : owed'[g] = owed[g]
      BY <1>0, <2>1, <3>1
    <3>3. ASSUME NEW k \in Kinds PROVE totals'[k] + Number(Flows, owed', OwingType(k)) = carriedBy'
      <4>1. owed[f] \notin OwingType(k) /\ owed'[f] \in OwingType(k)
        BY <3>1, <3>2 DEF OwingType
      <4>2. Number(Flows, owed', OwingType(k)) = Number(Flows, owed, OwingType(k)) + 1 /\ Number(Flows, owed, OwingType(k)) \in Nat
        BY <3>2, <4>1, OwedMoves
      <4>3. totals[k] + Number(Flows, owed, OwingType(k)) = carriedBy /\ totals[k] \in Nat
        BY <1>0 DEF TotalsInv
      <4>4. QED
        BY <1>0, <3>1, <4>2, <4>3
    <3>4. QED
      BY <3>1, <3>3 DEF TotalsInv, Sharing
  <2>3. CASE AddTraffic(f)
    <3>1. PICK k \in owed[f] : totals' = [totals EXCEPT ![k] = @ + 1] /\ owed' = [owed EXCEPT ![f] = @ \ {k}]
      BY <2>3 DEF AddTraffic
    <3>2. UNCHANGED <<tracker, flow, sharing, carriedBy>>
      BY <2>3 DEF AddTraffic
    <3>3. k \in Kinds /\ owed'[f] = owed[f] \ {k} /\ owed[f] \in SUBSET Kinds /\ \A g \in Flows \ {f} : owed'[g] = owed[g]
      BY <1>0, <3>1
    <3>4. ASSUME NEW j \in Kinds PROVE totals'[j] + Number(Flows, owed', OwingType(j)) = carriedBy'
      <4>1. totals[j] + Number(Flows, owed, OwingType(j)) = carriedBy /\ totals[j] \in Nat
        BY <1>0 DEF TotalsInv
      <4>2. CASE j = k
        <5>1. owed[f] \in OwingType(j) /\ owed'[f] \notin OwingType(j)
          BY <3>1, <3>3, <4>2 DEF OwingType
        <5>2. Number(Flows, owed', OwingType(j)) = Number(Flows, owed, OwingType(j)) - 1 /\ Number(Flows, owed, OwingType(j)) \in Nat
          BY <3>3, <5>1, OwedMoves
        <5>3. totals'[j] = totals[j] + 1
          BY <1>0, <3>1, <4>2
        <5>4. QED
          BY <3>2, <4>1, <5>2, <5>3
      <4>3. CASE j # k
        <5>1. owed[f] \in OwingType(j) <=> owed'[f] \in OwingType(j)
          BY <3>3, <4>3 DEF OwingType
        <5>2. Number(Flows, owed', OwingType(j)) = Number(Flows, owed, OwingType(j))
          BY <3>3, <5>1, OwedMoves
        <5>3. totals'[j] = totals[j]
          BY <1>0, <3>1, <4>3
        <5>4. QED
          BY <3>2, <4>1, <5>2, <5>3
      <4>4. QED
        BY <4>2, <4>3
    <3>5. QED
      BY <3>2, <3>4 DEF TotalsInv, Sharing
  <2>4. ASSUME UNCHANGED <<tracker, accounting>>, \A g \in Flows \ {f} : flow'[g] = flow[g], flow'[f].us \in sharing \cup {0}
        PROVE  TotalsInv'
    BY <2>4 DEF accounting, TotalsInv, Sharing
  <2>5. CASE Resolve(f)
    <3>1. UNCHANGED <<tracker, accounting>>
      BY <2>5 DEF Resolve, Silent
    <3>2. (\A g \in Flows \ {f} : flow'[g] = flow[g]) /\ flow'[f].us \in {tracker, 0}
      BY <1>0, <2>5 DEF Resolve, PutFlow, NewFlow
    <3>3. QED
      BY <2>1, <2>4, <3>1, <3>2
  <2>6. CASE Gate(f) \/ RemoveConnRef(f)
    <3>1. UNCHANGED <<tracker, accounting>>
      BY <2>6 DEF Gate, RemoveConnRef, Silent
    <3>2. (\A g \in Flows \ {f} : flow'[g] = flow[g]) /\ flow'[f].us \in {r.us, 0}
      BY <1>0, <2>1, <2>6 DEF Gate, RemoveConnRef, PutFlow, Gone, NewFlow, FlowType
    <3>3. QED
      BY <2>1, <2>4, <3>1, <3>2
  <2>7. CASE ReadLimit(f) \/ ReadLocal(f) \/ LookBucket(f) \/ ReadSpeed(f)
    <3>1. UNCHANGED <<tracker, accounting>>
      BY <2>7 DEF ReadLimit, ReadLocal, LookBucket, ReadSpeed, Silent
    <3>2. (\A g \in Flows \ {f} : flow'[g] = flow[g]) /\ flow'[f].us = r.us
      <4>1. CASE ReadLimit(f)
        BY <1>0, <2>1, <4>1 DEF ReadLimit, PutFlow, FlowType
      <4>2. CASE ReadLocal(f)
        BY <1>0, <2>1, <4>2 DEF ReadLocal, PutFlow, FlowType
      <4>3. CASE LookBucket(f)
        BY <1>0, <2>1, <4>3 DEF LookBucket, PutFlow, Go, FlowType
      <4>4. CASE ReadSpeed(f)
        BY <1>0, <2>1, <4>4 DEF ReadSpeed, PutFlow, FlowType
      <4>5. QED
        BY <2>7, <4>1, <4>2, <4>3, <4>4
    <3>3. QED
      BY <2>1, <2>4, <3>1, <3>2
  <2>8. CASE AddConn(f) \/ Register(f) \/ RemoveConn(f) \/ StoreBucket(f)
    <3>1. UNCHANGED <<tracker, accounting>>
      BY <2>8 DEF AddConn, Register, RemoveConn, StoreBucket
    <3>2. (\A g \in Flows \ {f} : flow'[g] = flow[g]) /\ flow'[f].us = r.us
      <4>1. CASE AddConn(f)
        BY <1>0, <2>1, <4>1 DEF AddConn, PutFlow, FlowType
      <4>2. CASE Register(f)
        BY <1>0, <2>1, <4>2 DEF Register, PutFlow, Go, FlowType
      <4>3. CASE RemoveConn(f)
        BY <1>0, <2>1, <4>3 DEF RemoveConn, PutFlow, Go, FlowType
      <4>4. CASE StoreBucket(f)
        BY <1>0, <2>1, <4>4 DEF StoreBucket, PutFlow, FlowType
      <4>5. QED
        BY <2>8, <4>1, <4>2, <4>3, <4>4
    <3>3. QED
      BY <2>1, <2>4, <3>1, <3>2
  <2>9. QED
    BY <1>5, <2>2, <2>3, <2>5, <2>6, <2>7, <2>8 DEF FlowStep
<1>6. QED
  BY <1>1, <1>2, <1>3, <1>4, <1>5 DEF TrackerNext

---------------------------------------------------------------------------
LEMMA TrackExact == TrackSound /\ TrackCounts /\ TotalsInv => BooksExact
<1> SUFFICES ASSUME TrackSound, TrackCounts, TotalsInv PROVE BooksExact
  OBVIOUS
<1>1. flow \in [Flows -> FlowType] /\ FlowsSound
  BY DEF TrackSound, TrackerTypeOK
<1>2. ASSUME NEW t \in Trackers
      PROVE  /\ Counted(t) = Having(Flows, flow, CountedType(t)) /\ Referred(t) = Having(Flows, flow, ReferredType(t))
             /\ \A a \in Addresses : {f \in Counted(t) : flow[f].address = a} = Having(Flows, flow, AddressType(t, a))
  BY <1>1 DEF Counted, Referred, Having, CountedType, ReferredType, AddressType, CountedSteps
<1>3. ASSUME NEW t \in Trackers
      PROVE  /\ stats[t].count = Cardinality(Counted(t)) /\ stats[t].refs = Referred(t)
             /\ \A a \in Addresses : stats[t].ips[a] = Cardinality({f \in Counted(t) : flow[f].address = a})
  BY <1>2 DEF TrackCounts, Number
<1>4. ASSUME NEW t \in Trackers PROVE ActiveCount(t) = Cardinality(Counted(t))
  BY <1>3 DEF ActiveCount
<1>5. ASSUME NEW t \in Trackers PROVE AliveIPs(t) = {flow[f].address : f \in Counted(t)}
  <2>1. ASSUME NEW a \in Addresses PROVE stats[t].ips[a] > 0 <=> \E f \in Counted(t) : flow[f].address = a
    <3> DEFINE F == {f \in Counted(t) : flow[f].address = a}
    <3>1. F \subseteq Flows
      BY DEF Counted
    <3>2. IsFiniteSet(F) /\ Cardinality(F) \in Nat /\ (Cardinality(F) = 0 <=> F = {})
      BY <3>1, TrackerConstants, FS_Subset, FS_CardinalityType, FS_EmptySet
    <3>3. stats[t].ips[a] = Cardinality(F)
      BY <1>3
    <3>4. Cardinality(F) > 0 <=> F # {}
      BY <3>2
    <3>5. QED
      BY <3>3, <3>4
  <2>2. \A f \in Counted(t) : flow[f].address \in Addresses
    BY <1>1 DEF Counted, FlowsSound
  <2>3. QED
    BY <2>1, <2>2 DEF AliveIPs
<1>6. \A k \in Kinds : totals[k] + Cardinality(Owing(k)) = carriedBy
  <2>1. \A k \in Kinds : Owing(k) = Having(Flows, owed, OwingType(k))
    BY DEF Owing, Having, OwingType, TrackSound, TrackerTypeOK
  <2>2. QED
    BY <2>1 DEF TotalsInv, Number
<1>7. QED
  BY <1>3, <1>4, <1>5, <1>6 DEF BooksExact

---------------------------------------------------------------------------
(* AnyTLS *)

\* A session that is not in the pool's books.
Unknown(s) ==
  /\ s \notin idle /\ OpenStreams(s) = {} /\ \A k \in Callers : caller[k].s # s
  /\ \A c \in closing : c.s # s
  /\ \A i \in StreamIds : <<s, i>> \notin hooked
Pending(s) == {c \in closing : c.s = s /\ c.at \in {"check", "insert"}}
\* The hands a live session may be in: the pool, a call, a stream whose hook is registered, a hook that runs.
Hands(s) ==
  /\ s \in idle => ~Busy(s) /\ Pending(s) = {}
  /\ \A k, l \in Callers : caller[k].s = s /\ caller[l].s = s => k = l
  /\ \A k \in Callers : caller[k].s = s => Pending(s) = {} /\ (caller[k].at = "open" => OpenStreams(s) = {})
  /\ \A c, d \in Pending(s) : c = d
  /\ Pending(s) # {} => OpenStreams(s) = {}
  /\ \A i \in OpenStreams(s) : <<s, i>> \in hooked \/ \E k \in Callers : caller[k].s = s
  /\ \A i \in StreamIds : <<s, i>> \in hooked => i \in OpenStreams(s) /\ \A k \in Callers : caller[k].s # s
  /\ \A k \in Callers : caller[k].s = s /\ caller[k].at \in {"map", "hook"} =>
       OpenStreams(s) \subseteq {caller[k].i} /\ cstream[s][caller[k].i].at # "none"
  /\ s \in idle \/ Busy(s) \/ Pending(s) # {}

Good(s) ==
  /\ \A i, j \in OpenStreams(s) : i = j
  /\ sess[s].client = "none" => Unknown(s)
  /\ Live(s) => Hands(s)
TlsInv == TlsTypeOK /\ \A s \in SessionIds : Good(s)

LEMMA GoodFollows == TlsInv => OneHand
<1> SUFFICES ASSUME TlsInv PROVE OneHand
  OBVIOUS
<1>1. ASSUME NEW s \in idle, Live(s) PROVE ~Busy(s)
  BY <1>1 DEF TlsInv, TlsTypeOK, Good, Hands
<1>2. ASSUME NEW s \in SessionIds PROVE Cardinality(OpenStreams(s)) <= 1
  <2>1. CASE OpenStreams(s) = {}
    BY <2>1, FS_EmptySet
  <2>2. CASE OpenStreams(s) # {}
    <3>1. PICK i \in OpenStreams(s) : TRUE
      BY <2>2
    <3>2. OpenStreams(s) = {i}
      BY <3>1 DEF TlsInv, Good
    <3>3. QED
      BY <3>2, FS_Singleton
  <2>3. QED
    BY <2>1, <2>2
<1>3. ASSUME NEW s \in SessionIds, Live(s)
      PROVE  s \in idle \/ Busy(s) \/ \E c \in closing : c.s = s /\ c.at \in {"check", "insert"}
  BY <1>3 DEF TlsInv, Good, Hands, Pending
<1>4. QED
  BY <1>1, <1>2, <1>3 DEF OneHand

LEMMA TlsStart == TlsInit => TlsInv
<1> SUFFICES ASSUME TlsInit PROVE TlsInv
  OBVIOUS
<1>1. TlsTypeOK
  <2>1. NoSession \in TlsSessions /\ NoStream \in ClientStreams /\ NoCall \in TlsCalls /\ <<>> \in Seq(TlsFrames)
    BY DEF TlsSessions, NoSession, ClientStreams, NoStream, TlsCalls, NoCall
  <2>2. 0 \in 0..MaxBreaks
    BY TlsConstants
  <2>3. QED
    BY <2>1, <2>2 DEF TlsInit, TlsTypeOK
<1>2. ASSUME NEW s \in SessionIds PROVE Good(s)
  BY TlsConstants DEF TlsInit, Good, OpenStreams, Unknown, NoSession, NoStream, NoCall, Live
<1>3. QED
  BY <1>1, <1>2 DEF TlsInv

---------------------------------------------------------------------------
(* Types *)

LEMMA FramesOf ==
  /\ \A cmd \in {"settings", "serversettings"} : Frame(cmd, 0) \in TlsFrames
  /\ \A cmd \in {"syn", "fin", "synack", "synerr"}, i \in StreamIds : Frame(cmd, i) \in TlsFrames
  BY DEF Frame, TlsFrames

LEMMA Sent ==
  ASSUME NEW wire \in [SessionIds -> Seq(TlsFrames)], NEW s \in SessionIds, NEW f \in TlsFrames
  PROVE  Send(wire, s, <<f>>) \in [SessionIds -> Seq(TlsFrames)]
<1>1. <<f>> \in Seq(TlsFrames) /\ wire[s] \in Seq(TlsFrames)
  OBVIOUS
<1>2. wire[s] \o <<f>> \in Seq(TlsFrames)
  BY <1>1, ConcatProperties
<1>3. QED
  BY <1>2 DEF Send

LEMMA Taken ==
  ASSUME NEW wire \in [SessionIds -> Seq(TlsFrames)], NEW s \in SessionIds, wire[s] # <<>>
  PROVE  /\ [wire EXCEPT ![s] = Tail(@)] \in [SessionIds -> Seq(TlsFrames)]
         /\ Head(wire[s]) \in TlsFrames
<1>1. wire[s] \in Seq(TlsFrames)
  OBVIOUS
<1>2. Tail(wire[s]) \in Seq(TlsFrames) /\ Head(wire[s]) \in TlsFrames
  BY <1>1, HeadTailProperties
<1>3. QED
  BY <1>2

LEMMA OneSession ==
  ASSUME NEW r \in TlsSessions
  PROVE  /\ [r EXCEPT !.client = "dead", !.cut = TRUE, !.watched = FALSE, !.next = 1, !.peer = FALSE] \in TlsSessions
         /\ [r EXCEPT !.client = "live", !.server = "live"] \in TlsSessions
         /\ [r EXCEPT !.client = "dead", !.cut = TRUE] \in TlsSessions
         /\ [r EXCEPT !.peer = TRUE] \in TlsSessions
         /\ [r EXCEPT !.watched = FALSE] \in TlsSessions
         /\ [r EXCEPT !.settings = TRUE] \in TlsSessions
         /\ [r EXCEPT !.cut = TRUE] \in TlsSessions
         /\ [r EXCEPT !.server = "dead"] \in TlsSessions
<1>1. [r EXCEPT !.client = "dead", !.cut = TRUE, !.watched = FALSE, !.next = 1, !.peer = FALSE] \in TlsSessions
  BY DEF TlsSessions
<1>2. [r EXCEPT !.client = "live", !.server = "live"] \in TlsSessions
  BY DEF TlsSessions
<1>4. [r EXCEPT !.client = "dead", !.cut = TRUE] \in TlsSessions
  BY DEF TlsSessions
<1>5. [r EXCEPT !.peer = TRUE] \in TlsSessions
  BY DEF TlsSessions
<1>6. [r EXCEPT !.watched = FALSE] \in TlsSessions
  BY DEF TlsSessions
<1>7. [r EXCEPT !.settings = TRUE] \in TlsSessions
  BY DEF TlsSessions
<1>8. [r EXCEPT !.cut = TRUE] \in TlsSessions
  BY DEF TlsSessions
<1>9. [r EXCEPT !.server = "dead"] \in TlsSessions
  BY DEF TlsSessions
<1>10. QED
  BY <1>1, <1>2, <1>4, <1>5, <1>6, <1>7, <1>8, <1>9

LEMMA SessionPuts ==
  ASSUME NEW f \in [SessionIds -> TlsSessions], NEW s \in SessionIds
  PROVE  /\ [f EXCEPT ![s].client = "dead", ![s].cut = TRUE, ![s].watched = FALSE, ![s].next = 1, ![s].peer = FALSE] \in [SessionIds -> TlsSessions]
         /\ [f EXCEPT ![s].client = "live", ![s].server = "live"] \in [SessionIds -> TlsSessions]
         /\ [f EXCEPT ![s].client = "dead", ![s].cut = TRUE] \in [SessionIds -> TlsSessions]
         /\ [f EXCEPT ![s].peer = TRUE] \in [SessionIds -> TlsSessions]
         /\ [f EXCEPT ![s].watched = FALSE] \in [SessionIds -> TlsSessions]
         /\ [f EXCEPT ![s].settings = TRUE] \in [SessionIds -> TlsSessions]
         /\ [f EXCEPT ![s].cut = TRUE] \in [SessionIds -> TlsSessions]
         /\ [f EXCEPT ![s].server = "dead"] \in [SessionIds -> TlsSessions]
<1>0. f[s] \in TlsSessions /\ f[s].next + 1 \in Nat
  BY DEF TlsSessions
<1>1. [f EXCEPT ![s].client = "dead", ![s].cut = TRUE, ![s].watched = FALSE, ![s].next = 1, ![s].peer = FALSE] \in [SessionIds -> TlsSessions]
  <2>1. [f EXCEPT ![s].client = "dead", ![s].cut = TRUE, ![s].watched = FALSE, ![s].next = 1, ![s].peer = FALSE] = [f EXCEPT ![s] = [f[s] EXCEPT !.client = "dead", !.cut = TRUE, !.watched = FALSE, !.next = 1, !.peer = FALSE]]
    BY Zenon
  <2>2. QED
    BY <1>0, <2>1, OneSession
<1>2. [f EXCEPT ![s].client = "live", ![s].server = "live"] \in [SessionIds -> TlsSessions]
  <2>1. [f EXCEPT ![s].client = "live", ![s].server = "live"] = [f EXCEPT ![s] = [f[s] EXCEPT !.client = "live", !.server = "live"]]
    BY Zenon
  <2>2. QED
    BY <1>0, <2>1, OneSession
<1>4. [f EXCEPT ![s].client = "dead", ![s].cut = TRUE] \in [SessionIds -> TlsSessions]
  <2>1. [f EXCEPT ![s].client = "dead", ![s].cut = TRUE] = [f EXCEPT ![s] = [f[s] EXCEPT !.client = "dead", !.cut = TRUE]]
    BY Zenon
  <2>2. QED
    BY <1>0, <2>1, OneSession
<1>5. [f EXCEPT ![s].peer = TRUE] \in [SessionIds -> TlsSessions]
  <2>1. [f EXCEPT ![s].peer = TRUE] = [f EXCEPT ![s] = [f[s] EXCEPT !.peer = TRUE]]
    BY Zenon
  <2>2. QED
    BY <1>0, <2>1, OneSession
<1>6. [f EXCEPT ![s].watched = FALSE] \in [SessionIds -> TlsSessions]
  <2>1. [f EXCEPT ![s].watched = FALSE] = [f EXCEPT ![s] = [f[s] EXCEPT !.watched = FALSE]]
    BY Zenon
  <2>2. QED
    BY <1>0, <2>1, OneSession
<1>7. [f EXCEPT ![s].settings = TRUE] \in [SessionIds -> TlsSessions]
  <2>1. [f EXCEPT ![s].settings = TRUE] = [f EXCEPT ![s] = [f[s] EXCEPT !.settings = TRUE]]
    BY Zenon
  <2>2. QED
    BY <1>0, <2>1, OneSession
<1>8. [f EXCEPT ![s].cut = TRUE] \in [SessionIds -> TlsSessions]
  <2>1. [f EXCEPT ![s].cut = TRUE] = [f EXCEPT ![s] = [f[s] EXCEPT !.cut = TRUE]]
    BY Zenon
  <2>2. QED
    BY <1>0, <2>1, OneSession
<1>9. [f EXCEPT ![s].server = "dead"] \in [SessionIds -> TlsSessions]
  <2>1. [f EXCEPT ![s].server = "dead"] = [f EXCEPT ![s] = [f[s] EXCEPT !.server = "dead"]]
    BY Zenon
  <2>2. QED
    BY <1>0, <2>1, OneSession
<1>10. QED
  BY <1>1, <1>2, <1>4, <1>5, <1>6, <1>7, <1>8, <1>9

LEMMA NextStream ==
  ASSUME NEW f \in [SessionIds -> TlsSessions], NEW s \in SessionIds, NEW b \in BOOLEAN
  PROVE  [f EXCEPT ![s].next = @ + 1, ![s].watched = b] \in [SessionIds -> TlsSessions]
<1>1. f[s] \in TlsSessions /\ f[s].next + 1 \in Nat
  BY DEF TlsSessions
<1>2. [f EXCEPT ![s].next = @ + 1, ![s].watched = b] = [f EXCEPT ![s] = [f[s] EXCEPT !.next = f[s].next + 1, !.watched = b]]
  BY Zenon
<1>3. ASSUME NEW r \in TlsSessions, NEW n \in Nat PROVE [r EXCEPT !.next = n, !.watched = b] \in TlsSessions
  BY DEF TlsSessions
<1>4. QED
  BY <1>1, <1>2, <1>3

LEMMA OneStream ==
  ASSUME NEW r \in ClientStreams
  PROVE  /\ [r EXCEPT !.at = "open"] \in ClientStreams
         /\ [r EXCEPT !.at = "closed"] \in ClientStreams
         /\ [r EXCEPT !.mapped = TRUE] \in ClientStreams
         /\ [r EXCEPT !.mapped = FALSE] \in ClientStreams
  BY DEF ClientStreams

LEMMA StreamPuts ==
  ASSUME NEW f \in [SessionIds -> [StreamIds -> ClientStreams]], NEW s \in SessionIds, NEW i \in StreamIds
  PROVE  /\ [f EXCEPT ![s][i].at = "open"] \in [SessionIds -> [StreamIds -> ClientStreams]]
         /\ [f EXCEPT ![s][i].at = "closed"] \in [SessionIds -> [StreamIds -> ClientStreams]]
         /\ [f EXCEPT ![s][i].mapped = TRUE] \in [SessionIds -> [StreamIds -> ClientStreams]]
         /\ [f EXCEPT ![s][i].mapped = FALSE] \in [SessionIds -> [StreamIds -> ClientStreams]]
<1>0. f[s] \in [StreamIds -> ClientStreams] /\ f[s][i] \in ClientStreams
  OBVIOUS
<1>1. [f EXCEPT ![s][i].at = "open"] \in [SessionIds -> [StreamIds -> ClientStreams]]
  <2>1. [f EXCEPT ![s][i].at = "open"] = [f EXCEPT ![s] = [f[s] EXCEPT ![i] = [f[s][i] EXCEPT !.at = "open"]]]
    BY Zenon
  <2>2. QED
    BY <1>0, <2>1, OneStream
<1>2. [f EXCEPT ![s][i].at = "closed"] \in [SessionIds -> [StreamIds -> ClientStreams]]
  <2>1. [f EXCEPT ![s][i].at = "closed"] = [f EXCEPT ![s] = [f[s] EXCEPT ![i] = [f[s][i] EXCEPT !.at = "closed"]]]
    BY Zenon
  <2>2. QED
    BY <1>0, <2>1, OneStream
<1>3. [f EXCEPT ![s][i].mapped = TRUE] \in [SessionIds -> [StreamIds -> ClientStreams]]
  <2>1. [f EXCEPT ![s][i].mapped = TRUE] = [f EXCEPT ![s] = [f[s] EXCEPT ![i] = [f[s][i] EXCEPT !.mapped = TRUE]]]
    BY Zenon
  <2>2. QED
    BY <1>0, <2>1, OneStream
<1>4. [f EXCEPT ![s][i].mapped = FALSE] \in [SessionIds -> [StreamIds -> ClientStreams]]
  <2>1. [f EXCEPT ![s][i].mapped = FALSE] = [f EXCEPT ![s] = [f[s] EXCEPT ![i] = [f[s][i] EXCEPT !.mapped = FALSE]]]
    BY Zenon
  <2>2. QED
    BY <1>0, <2>1, OneStream
<1>5. QED
  BY <1>1, <1>2, <1>3, <1>4

LEMMA StateClosed ==
  ASSUME TlsTypeOK, NEW s \in SessionIds, NEW streams \in SUBSET StreamIds, NEW fin \in BOOLEAN, CloseState(s, streams, fin)
  PROVE  /\ cstream' \in [SessionIds -> [StreamIds -> ClientStreams]]
         /\ closing' \subseteq Closers /\ hooked' \subseteq SessionIds \X StreamIds
<1>1. ASSUME NEW i \in StreamIds
      PROVE  (IF i \in streams THEN [at |-> "closed", mapped |-> cstream[s][i].mapped /\ fin] ELSE cstream[s][i]) \in ClientStreams
  BY DEF TlsTypeOK, ClientStreams
<1>2. [i \in StreamIds |-> IF i \in streams THEN [at |-> "closed", mapped |-> cstream[s][i].mapped /\ fin] ELSE cstream[s][i]]
      \in [StreamIds -> ClientStreams]
  BY <1>1
<1>3. cstream' \in [SessionIds -> [StreamIds -> ClientStreams]]
  BY <1>2 DEF CloseState, TlsTypeOK
<1>4. closing' \subseteq Closers /\ hooked' \subseteq SessionIds \X StreamIds
  <2>1. \A i \in streams : [s |-> s, i |-> i, fin |-> fin, at |-> IF <<s, i>> \in hooked THEN "check" ELSE "fin"] \in Closers
    BY DEF Closers
  <2>2. QED
    BY <2>1 DEF CloseState, TlsTypeOK
<1>5. QED
  BY <1>3, <1>4

LEMMA SomeStreams == \A s : MappedStreams(s) \in SUBSET StreamIds /\ OpenStreams(s) \in SUBSET StreamIds
  BY DEF MappedStreams, OpenStreams

LEMMA ClientClosed ==
  ASSUME TlsTypeOK, NEW s \in SessionIds, CloseClient(s)
  PROVE  /\ cstream' \in [SessionIds -> [StreamIds -> ClientStreams]]
         /\ closing' \subseteq Closers /\ hooked' \subseteq SessionIds \X StreamIds
         /\ sess' \in [SessionIds -> TlsSessions] /\ s2c' \in [SessionIds -> Seq(TlsFrames)] /\ idle' \subseteq SessionIds
<1>1. MappedStreams(s) \cap OpenStreams(s) \in SUBSET StreamIds
  BY SomeStreams
<1>2. CloseState(s, MappedStreams(s) \cap OpenStreams(s), FALSE)
  BY DEF CloseClient
<1>3. sess' \in [SessionIds -> TlsSessions]
  BY SessionPuts DEF CloseClient, TlsTypeOK
<1>4. s2c' \in [SessionIds -> Seq(TlsFrames)] /\ idle' \subseteq SessionIds
  BY DEF CloseClient, TlsTypeOK
<1>5. QED
  BY <1>1, <1>2, <1>3, <1>4, StateClosed


LEMMA CallTypes ==
  ASSUME TlsTypeOK, NEW k \in Callers,
         GetIdleSession(k) \/ CreateSession(k) \/ OpenStream(k) \/ MapStream(k) \/ SetDieHook(k)
  PROVE  TlsTypeOK'
<1> DEFINE s == caller[k].s
           i == caller[k].i
<1>0. caller[k] \in TlsCalls
  BY DEF TlsTypeOK
<1>1. CASE GetIdleSession(k)
  <2>1. PICK t \in idle : idle' = idle \ {t} /\ caller' = [caller EXCEPT ![k] = [at |-> "open", s |-> t, i |-> 0]]
    BY <1>1 DEF GetIdleSession, Call
  <2>2. [at |-> "open", s |-> t, i |-> 0] \in TlsCalls
    BY DEF TlsCalls, TlsTypeOK
  <2>3. QED
    BY <1>1, <2>1, <2>2 DEF GetIdleSession, SameWires, TlsTypeOK
<1>2. CASE CreateSession(k)
  <2>1. PICK t \in SessionIds : /\ sess' = [sess EXCEPT ![t].client = "live", ![t].server = "live"]
                                /\ c2s' = [c2s EXCEPT ![t] = <<Frame("settings", 0)>>]
                                /\ caller' = [caller EXCEPT ![k] = [at |-> "open", s |-> t, i |-> 0]]
    BY <1>2 DEF CreateSession, Call
  <2>2. [at |-> "open", s |-> t, i |-> 0] \in TlsCalls /\ <<Frame("settings", 0)>> \in Seq(TlsFrames)
    BY FramesOf DEF TlsCalls
  <2>3. sess' \in [SessionIds -> TlsSessions]
    BY <2>1, SessionPuts DEF TlsTypeOK
  <2>4. QED
    BY <1>2, <2>1, <2>2, <2>3 DEF CreateSession, TlsTypeOK
<1>3. CASE OpenStream(k)
  <2>1. s \in SessionIds
    BY <1>0, <1>3 DEF OpenStream, TlsCalls
  <2>2. CASE ~Live(s)
    <3>1. caller' = [caller EXCEPT ![k] = NoCall]
      BY <1>3, <2>2 DEF OpenStream, Call, NoCall
    <3>2. NoCall \in TlsCalls
      BY DEF NoCall, TlsCalls
    <3>3. QED
      BY <1>3, <2>2, <3>1, <3>2 DEF OpenStream, SameWires, TlsTypeOK
  <2>3. CASE Live(s)
    <3> DEFINE n == sess[s].next
    <3>1. /\ n \in StreamIds /\ c2s' = Send(c2s, s, <<Frame("syn", n)>>)
          /\ sess' = [sess EXCEPT ![s].next = @ + 1, ![s].watched = n >= 2 /\ sess[s].peer]
          /\ caller' = [caller EXCEPT ![k] = [at |-> "map", s |-> s, i |-> n]]
          /\ cstream' = [cstream EXCEPT ![s][n].at = "open"]
      BY <1>3, <2>3 DEF OpenStream, Call
    <3>2. [at |-> "map", s |-> s, i |-> n] \in TlsCalls
      BY <2>1, <3>1 DEF TlsCalls
    <3>3. c2s' \in [SessionIds -> Seq(TlsFrames)]
      BY <2>1, <3>1, Sent, FramesOf DEF TlsTypeOK
    <3>4. sess' \in [SessionIds -> TlsSessions]
      <4>1. sess \in [SessionIds -> TlsSessions] /\ (n >= 2 /\ sess[s].peer) \in BOOLEAN
        BY <2>1 DEF TlsTypeOK, TlsSessions
      <4>2. QED
        BY <2>1, <3>1, <4>1, NextStream
    <3>5. cstream' \in [SessionIds -> [StreamIds -> ClientStreams]]
      BY <2>1, <3>1, StreamPuts DEF TlsTypeOK
    <3>6. QED
      BY <1>3, <2>3, <3>1, <3>2, <3>3, <3>4, <3>5 DEF OpenStream, TlsTypeOK
  <2>4. QED
    BY <2>2, <2>3
<1>4. CASE MapStream(k)
  <2>1. s \in SessionIds /\ i \in StreamIds
    BY <1>0, <1>4 DEF MapStream, TlsCalls
  <2>2. NoCall \in TlsCalls /\ [at |-> "hook", s |-> s, i |-> i] \in TlsCalls
    BY <2>1 DEF NoCall, TlsCalls
  <2>3. caller' \in [Callers -> TlsCalls]
    BY <1>4, <2>2 DEF MapStream, Call, NoCall, TlsTypeOK
  <2>4. cstream' \in [SessionIds -> [StreamIds -> ClientStreams]]
    <3>1. cstream' = [cstream EXCEPT ![s][i].mapped = TRUE] \/ cstream' = [cstream EXCEPT ![s][i].at = "closed"]
      BY <1>4 DEF MapStream
    <3>2. cstream \in [SessionIds -> [StreamIds -> ClientStreams]]
      BY DEF TlsTypeOK
    <3>3. QED
      <4>1. /\ [cstream EXCEPT ![s][i].mapped = TRUE] \in [SessionIds -> [StreamIds -> ClientStreams]]
            /\ [cstream EXCEPT ![s][i].at = "closed"] \in [SessionIds -> [StreamIds -> ClientStreams]]
        BY <2>1, <3>2, StreamPuts, Zenon
      <4>2. QED
        BY <3>1, <4>1, Zenon
  <2>5. QED
    BY <1>4, <2>3, <2>4 DEF MapStream, SameWires, TlsTypeOK
<1>5. CASE SetDieHook(k)
  <2>1. s \in SessionIds /\ i \in StreamIds
    BY <1>0, <1>5 DEF SetDieHook, TlsCalls
  <2>2. NoCall \in TlsCalls /\ [s |-> s, i |-> i, fin |-> FALSE, at |-> "check"] \in Closers
    BY <2>1 DEF NoCall, TlsCalls, Closers
  <2>3. caller' \in [Callers -> TlsCalls]
    BY <1>5, <2>2 DEF SetDieHook, Call, NoCall, TlsTypeOK
  <2>4. closing' \subseteq Closers /\ hooked' \subseteq SessionIds \X StreamIds
    <3>1. \/ closing' = closing \cup {[s |-> s, i |-> i, fin |-> FALSE, at |-> "check"]} /\ hooked' = hooked
          \/ hooked' = hooked \cup {<<s, i>>} /\ closing' = closing
      BY <1>5 DEF SetDieHook
    <3>2. QED
      <4>1. closing \subseteq Closers /\ hooked \subseteq SessionIds \X StreamIds /\ <<s, i>> \in SessionIds \X StreamIds
        BY <2>1 DEF TlsTypeOK
      <4>2. QED
        BY <2>2, <3>1, <4>1
  <2>5. QED
    BY <1>5, <2>3, <2>4 DEF SetDieHook, SameWires, TlsTypeOK
<1>6. QED
  BY <1>1, <1>2, <1>3, <1>4, <1>5

LEMMA CloserTypes ==
  ASSUME TlsTypeOK, NEW c \in closing, RunHook(c) \/ StreamClosed(c)
  PROVE  TlsTypeOK'
<1>0. c \in Closers
  BY DEF TlsTypeOK
<1>1. c.s \in SessionIds /\ c.i \in StreamIds /\ [c EXCEPT !.at = "insert"] \in Closers /\ [c EXCEPT !.at = "fin"] \in Closers
  BY <1>0 DEF Closers
<1>2. CASE RunHook(c)
  <2>1. closing' \subseteq Closers
    BY <1>1, <1>2 DEF RunHook, TlsTypeOK
  <2>2. idle' \subseteq SessionIds /\ sess' \in [SessionIds -> TlsSessions]
    <3>1. idle' \subseteq SessionIds
      BY <1>1, <1>2 DEF RunHook, TlsTypeOK
    <3>2. sess' = sess \/ sess' = [sess EXCEPT ![c.s].client = "dead", ![c.s].cut = TRUE]
      BY <1>2 DEF RunHook
    <3>3. QED
      <4>1. sess \in [SessionIds -> TlsSessions]
        BY DEF TlsTypeOK
      <4>2. [sess EXCEPT ![c.s].client = "dead", ![c.s].cut = TRUE] \in [SessionIds -> TlsSessions]
        BY <1>1, <4>1, SessionPuts, Zenon
      <4>3. QED
        BY <3>1, <3>2, <4>1, <4>2, Zenon
  <2>3. QED
    BY <1>2, <2>1, <2>2 DEF RunHook, SameWires, TlsTypeOK
<1>3. CASE StreamClosed(c)
  <2>1. cstream' \in [SessionIds -> [StreamIds -> ClientStreams]]
    <3>1. cstream' = [cstream EXCEPT ![c.s][c.i].mapped = FALSE]
      BY <1>3 DEF StreamClosed
    <3>2. QED
      BY <1>1, <3>1, StreamPuts DEF TlsTypeOK
  <2>2. c2s' \in [SessionIds -> Seq(TlsFrames)]
    <3>1. c2s' = c2s \/ c2s' = Send(c2s, c.s, <<Frame("fin", c.i)>>)
      BY <1>3 DEF StreamClosed
    <3>2. QED
      <4>1. c2s \in [SessionIds -> Seq(TlsFrames)] /\ Frame("fin", c.i) \in TlsFrames
        BY <1>1, FramesOf DEF TlsTypeOK
      <4>2. QED
        BY <1>1, <3>1, <4>1, Sent
  <2>3. QED
    BY <1>3, <2>1, <2>2 DEF StreamClosed, TlsTypeOK
<1>4. QED
  BY <1>2, <1>3

LEMMA StreamTypes ==
  ASSUME TlsTypeOK, NEW s \in SessionIds, NEW i \in StreamIds, NEW ok \in BOOLEAN,
         CloseStream(s, i) \/ ServerCloses(s, i) \/ HandshakeReport(s, i, ok)
  PROVE  TlsTypeOK'
<1>1. CASE CloseStream(s, i)
  <2>1. CloseState(s, {i}, TRUE) /\ {i} \in SUBSET StreamIds
    BY <1>1 DEF CloseStream
  <2>2. /\ cstream' \in [SessionIds -> [StreamIds -> ClientStreams]]
        /\ closing' \subseteq Closers /\ hooked' \subseteq SessionIds \X StreamIds
    BY <2>1, StateClosed
  <2>3. QED
    BY <1>1, <2>2 DEF CloseStream, SameWires, TlsTypeOK
<1>2. CASE ServerCloses(s, i)
  <2>1. s2c' \in [SessionIds -> Seq(TlsFrames)]
    BY <1>2, Sent, FramesOf DEF ServerCloses, TlsTypeOK
  <2>2. sstream' \in [SessionIds -> [StreamIds -> {"none", "open", "reported", "closed"}]]
    BY <1>2 DEF ServerCloses, TlsTypeOK
  <2>3. QED
    BY <1>2, <2>1, <2>2 DEF ServerCloses, TlsTypeOK
<1>3. CASE HandshakeReport(s, i, ok)
  <2>1. Frame(IF ok THEN "synack" ELSE "synerr", i) \in TlsFrames
    BY FramesOf
  <2>2. s2c' \in [SessionIds -> Seq(TlsFrames)]
    BY <1>3, <2>1, Sent DEF HandshakeReport, TlsTypeOK
  <2>3. sstream' \in [SessionIds -> [StreamIds -> {"none", "open", "reported", "closed"}]]
    BY <1>3 DEF HandshakeReport, TlsTypeOK
  <2>4. QED
    BY <1>3, <2>2, <2>3 DEF HandshakeReport, TlsTypeOK
<1>4. QED
  BY <1>1, <1>2, <1>3

LEMMA ReceiveTypes ==
  ASSUME TlsTypeOK, NEW s \in SessionIds, ClientReceives(s) \/ ServerReceives(s)
  PROVE  TlsTypeOK'
<1>1. CASE ClientReceives(s)
  <2> DEFINE f == Head(s2c[s])
             streams == {f.sid} \cap MappedStreams(s) \cap OpenStreams(s)
  <2>1. s2c' \in [SessionIds -> Seq(TlsFrames)]
    BY <1>1, Taken DEF ClientReceives, TlsTypeOK
  <2>2. sess' \in [SessionIds -> TlsSessions]
    <3>1. sess' = sess \/ sess' = [sess EXCEPT ![s].peer = TRUE] \/ sess' = [sess EXCEPT ![s].watched = FALSE]
      BY <1>1 DEF ClientReceives
    <3>2. QED
      <4>1. sess \in [SessionIds -> TlsSessions]
        BY DEF TlsTypeOK
      <4>2. /\ [sess EXCEPT ![s].peer = TRUE] \in [SessionIds -> TlsSessions]
            /\ [sess EXCEPT ![s].watched = FALSE] \in [SessionIds -> TlsSessions]
        BY <4>1, SessionPuts, Zenon
      <4>3. QED
        BY <3>1, <4>1, <4>2, Zenon
  <2>3. /\ cstream' \in [SessionIds -> [StreamIds -> ClientStreams]]
        /\ closing' \subseteq Closers /\ hooked' \subseteq SessionIds \X StreamIds
    <3>1. UNCHANGED <<cstream, closing, hooked>> \/ CloseState(s, streams, TRUE) \/ CloseState(s, streams, FALSE)
      BY <1>1 DEF ClientReceives
    <3>2. streams \in SUBSET StreamIds
      BY SomeStreams
    <3>3. QED
      BY <3>1, <3>2, StateClosed DEF TlsTypeOK
  <2>4. QED
    BY <1>1, <2>1, <2>2, <2>3 DEF ClientReceives, TlsTypeOK
<1>2. CASE ServerReceives(s)
  <2> DEFINE f == Head(c2s[s])
  <2>1. c2s' \in [SessionIds -> Seq(TlsFrames)]
    BY <1>2, Taken DEF ServerReceives, TlsTypeOK
  <2>2. sess' \in [SessionIds -> TlsSessions]
    <3>1. sess' = sess \/ sess' = [sess EXCEPT ![s].settings = TRUE]
      BY <1>2 DEF ServerReceives
    <3>2. QED
      <4>1. sess \in [SessionIds -> TlsSessions]
        BY DEF TlsTypeOK
      <4>2. [sess EXCEPT ![s].settings = TRUE] \in [SessionIds -> TlsSessions]
        BY <4>1, SessionPuts, Zenon
      <4>3. QED
        BY <3>1, <4>1, <4>2, Zenon
  <2>3. s2c' \in [SessionIds -> Seq(TlsFrames)]
    <3>1. s2c' = s2c \/ s2c' = Send(s2c, s, <<Frame("serversettings", 0)>>)
      BY <1>2 DEF ServerReceives
    <3>2. QED
      <4>1. s2c \in [SessionIds -> Seq(TlsFrames)] /\ Frame("serversettings", 0) \in TlsFrames
        BY FramesOf DEF TlsTypeOK
      <4>2. QED
        BY <3>1, <4>1, Sent
  <2>4. sstream' \in [SessionIds -> [StreamIds -> {"none", "open", "reported", "closed"}]]
    <3>1. \/ sstream' = sstream
          \/ sstream' = [sstream EXCEPT ![s][f.sid] = IF @ = "none" THEN "open" ELSE @]
          \/ sstream' = [sstream EXCEPT ![s][f.sid] = IF @ = "none" THEN @ ELSE "closed"]
      BY <1>2 DEF ServerReceives
    <3> HIDE DEF f
    <3>2. QED
      <4>1. sstream \in [SessionIds -> [StreamIds -> {"none", "open", "reported", "closed"}]]
        BY DEF TlsTypeOK
      <4>2. sstream[s] \in [StreamIds -> {"none", "open", "reported", "closed"}]
        BY <4>1
      <4>3. /\ [sstream[s] EXCEPT ![f.sid] = IF @ = "none" THEN "open" ELSE @]
                  \in [StreamIds -> {"none", "open", "reported", "closed"}]
            /\ [sstream[s] EXCEPT ![f.sid] = IF @ = "none" THEN @ ELSE "closed"]
                  \in [StreamIds -> {"none", "open", "reported", "closed"}]
        BY <4>2
      <4>4. QED
        BY <3>1, <4>1, <4>3, Zenon
  <2>5. QED
    BY <1>2, <2>1, <2>2, <2>3, <2>4 DEF ServerReceives, TlsTypeOK
<1>3. QED
  BY <1>1, <1>2

LEMMA EndTypes ==
  ASSUME TlsTypeOK, NEW s \in SessionIds,
         SynTimeout(s) \/ Break(s) \/ ClientNotices(s) \/ ServerNotices(s) \/ IdleCleanup(s)
  PROVE  TlsTypeOK'
<1>1. breaks' \in 0..MaxBreaks
  BY TlsConstants DEF SynTimeout, Break, ClientNotices, ServerNotices, IdleCleanup, TlsTypeOK
<1>2. CASE SynTimeout(s)
  BY <1>1, <1>2, ClientClosed DEF SynTimeout, TlsTypeOK
<1>3. CASE Break(s)
  BY <1>1, <1>3, SessionPuts DEF Break, SameWires, TlsTypeOK
<1>4. CASE ClientNotices(s)
  BY <1>1, <1>4, ClientClosed DEF ClientNotices, TlsTypeOK
<1>5. CASE ServerNotices(s)
  <2>1. sess' \in [SessionIds -> TlsSessions]
    BY <1>5, SessionPuts DEF ServerNotices, TlsTypeOK
  <2>2. /\ sstream' \in [SessionIds -> [StreamIds -> {"none", "open", "reported", "closed"}]]
        /\ c2s' \in [SessionIds -> Seq(TlsFrames)]
    BY <1>5 DEF ServerNotices, TlsTypeOK
  <2>3. QED
    BY <1>1, <1>5, <2>1, <2>2 DEF ServerNotices, TlsTypeOK
<1>6. CASE IdleCleanup(s)
  <2>1. CASE Live(s)
    BY <1>1, <1>6, <2>1, ClientClosed DEF IdleCleanup, TlsTypeOK
  <2>2. CASE ~Live(s)
    BY <1>1, <1>6, <2>2 DEF IdleCleanup, TlsTypeOK
  <2>3. QED
    BY <2>1, <2>2
<1>7. QED
  BY <1>2, <1>3, <1>4, <1>5, <1>6

LEMMA PoolTypes == ASSUME TlsTypeOK, CloseClientPool PROVE TlsTypeOK'
<1>1. ASSUME NEW s \in SessionIds
      PROVE  (IF Live(s) THEN [sess[s] EXCEPT !.client = "dead", !.cut = TRUE] ELSE sess[s]) \in TlsSessions
  <2>1. sess[s] \in TlsSessions
    BY DEF TlsTypeOK
  <2>2. QED
    BY <2>1, OneSession
<1>2. ASSUME NEW s \in SessionIds, NEW i \in StreamIds
      PROVE  (IF i \in MappedStreams(s) \cap OpenStreams(s) THEN [at |-> "closed", mapped |-> FALSE] ELSE cstream[s][i])
             \in ClientStreams
  BY DEF TlsTypeOK, ClientStreams
<1>3. sess' \in [SessionIds -> TlsSessions]
  BY <1>1 DEF CloseClientPool
<1>4. cstream' \in [SessionIds -> [StreamIds -> ClientStreams]]
  BY <1>2 DEF CloseClientPool
<1>5. QED
  BY <1>3, <1>4 DEF CloseClientPool, SameWires, TlsTypeOK

LEMMA TypesStep == ASSUME TlsTypeOK, [TlsNext]_tlsVars PROVE TlsTypeOK'
<1>1. CASE UNCHANGED tlsVars
  BY <1>1 DEF tlsVars, TlsTypeOK
<1>2. CASE TlsNext
  BY <1>2, CallTypes, CloserTypes, StreamTypes, ReceiveTypes, EndTypes, PoolTypes, Zenon DEF TlsNext
<1>3. QED
  BY <1>1, <1>2

---------------------------------------------------------------------------
(* Hands *)

\* A step that leaves a session, its streams and whoever holds them as they are.
Same(t) ==
  /\ sess'[t].client = sess[t].client /\ (t \in idle' <=> t \in idle)
  /\ \A i \in StreamIds : cstream'[t][i].at = cstream[t][i].at
  /\ \A k \in Callers : caller'[k] = caller[k] \/ (caller'[k].s # t /\ caller[k].s # t)
  /\ Pending(t)' = Pending(t)
  /\ \A c \in closing' : c.s = t => \E d \in closing : d.s = t
  /\ \A i \in StreamIds : <<t, i>> \in hooked' <=> <<t, i>> \in hooked

LEMMA SameGood ==
  ASSUME TlsInv, TlsTypeOK', NEW t \in SessionIds, Same(t)
  PROVE  Good(t)'
<1>1. OpenStreams(t)' = OpenStreams(t) /\ (Live(t)' <=> Live(t)) /\ Good(t)
  BY DEF TlsInv, Same, OpenStreams, Live
<1>2. \A k \in Callers : (caller'[k].s = t <=> caller[k].s = t) /\ (caller[k].s = t => caller'[k] = caller[k])
  BY DEF Same
<1>3. Unknown(t) => Unknown(t)'
  BY <1>1, <1>2 DEF Unknown, Same
<1>4. Busy(t)' <=> Busy(t)
  BY <1>1, <1>2 DEF Busy
<1>5. ASSUME Hands(t) PROVE Hands(t)'
  <2>1. ASSUME NEW k \in Callers, caller'[k].s = t, caller'[k].at \in {"map", "hook"}
        PROVE  OpenStreams(t)' \subseteq {caller'[k].i} /\ cstream'[t][caller'[k].i].at # "none"
    <3>1. caller'[k] = caller[k] /\ caller[k] \in TlsCalls
      BY <1>2, <2>1 DEF TlsInv, TlsTypeOK
    <3>2. caller[k].i \in StreamIds
      BY <2>1, <3>1 DEF TlsCalls
    <3>3. QED
      BY <1>1, <1>5, <2>1, <3>1, <3>2 DEF Hands, Same
  <2>2. ASSUME NEW k \in Callers, caller'[k].s = t
        PROVE  Pending(t)' = {} /\ (caller'[k].at = "open" => OpenStreams(t)' = {})
    BY <1>1, <1>2, <1>5, <2>2 DEF Hands, Same
  <2>3. t \in idle' => ~Busy(t)' /\ Pending(t)' = {}
    BY <1>4, <1>5 DEF Hands, Same
  <2>4. /\ \A k, l \in Callers : caller'[k].s = t /\ caller'[l].s = t => k = l
        /\ \A c, d \in Pending(t)' : c = d
        /\ Pending(t)' # {} => OpenStreams(t)' = {}
    BY <1>1, <1>2, <1>5 DEF Hands, Same
  <2>5. /\ \A i \in OpenStreams(t)' : <<t, i>> \in hooked' \/ \E k \in Callers : caller'[k].s = t
        /\ \A i \in StreamIds : <<t, i>> \in hooked' => i \in OpenStreams(t)' /\ \A k \in Callers : caller'[k].s # t
    <3>1. OpenStreams(t) \subseteq StreamIds
      BY DEF OpenStreams
    <3>2. QED
      BY <1>1, <1>2, <1>5, <3>1 DEF Hands, Same
  <2>6. t \in idle' \/ Busy(t)' \/ Pending(t)' # {}
    BY <1>4, <1>5 DEF Hands, Same
  <2>7. QED
    BY <2>1, <2>2, <2>3, <2>4, <2>5, <2>6 DEF Hands
<1>6. QED
  BY <1>1, <1>3, <1>5 DEF Good, Same, Live

LEMMA DeadGood ==
  ASSUME TlsInv, NEW s \in SessionIds, sess'[s].client = "dead", OpenStreams(s)' \subseteq OpenStreams(s)
  PROVE  Good(s)'
  BY DEF TlsInv, Good, Live

\* What CloseState does to the streams, the hooks and the other sessions.
StateEnds(s, streams) ==
  /\ \A t \in SessionIds \ {s} : \A i \in StreamIds : cstream'[t][i] = cstream[t][i]
  /\ \A i \in StreamIds : cstream'[s][i].at = IF i \in streams THEN "closed" ELSE cstream[s][i].at
  /\ \A t \in SessionIds \ {s} : \A i \in StreamIds : <<t, i>> \in hooked' <=> <<t, i>> \in hooked
  /\ \A i \in StreamIds : <<s, i>> \in hooked' <=> <<s, i>> \in hooked /\ i \notin streams
  /\ \A t \in SessionIds \ {s} : Pending(t)' = Pending(t)
  /\ \A c \in closing' : c \in closing \/ c.s = s
  /\ streams = {} => closing' = closing
  /\ (\A i \in streams : <<s, i>> \notin hooked) => Pending(s)' = Pending(s)
  /\ \A i \in streams : streams = {i} /\ <<s, i>> \in hooked => \E c : c.s = s /\ Pending(s)' = Pending(s) \cup {c}

LEMMA StateHands ==
  ASSUME TlsTypeOK, NEW s \in SessionIds, NEW streams \in SUBSET StreamIds, NEW fin \in BOOLEAN, CloseState(s, streams, fin)
  PROVE  StateEnds(s, streams)
<1> DEFINE Rec(i) == [s |-> s, i |-> i, fin |-> fin, at |-> IF <<s, i>> \in hooked THEN "check" ELSE "fin"]
           New == {Rec(i) : i \in streams}
<1>1. closing' = closing \cup New /\ hooked' = hooked \ {<<s, i>> : i \in streams}
  BY DEF CloseState
<1>2. /\ \A t \in SessionIds \ {s} : \A i \in StreamIds : cstream'[t][i] = cstream[t][i]
      /\ \A i \in StreamIds : cstream'[s][i].at = IF i \in streams THEN "closed" ELSE cstream[s][i].at
  BY DEF CloseState, TlsTypeOK
<1>3. /\ \A t \in SessionIds \ {s} : \A i \in StreamIds : <<t, i>> \in hooked' <=> <<t, i>> \in hooked
      /\ \A i \in StreamIds : <<s, i>> \in hooked' <=> <<s, i>> \in hooked /\ i \notin streams
  BY <1>1
<1>4. \A i : Rec(i).s = s /\ Rec(i).at = IF <<s, i>> \in hooked THEN "check" ELSE "fin"
  OBVIOUS
<1> HIDE DEF Rec
<1>5. \A c \in New : c.s = s
  BY <1>4
<1>6. \A t \in SessionIds \ {s} : Pending(t)' = Pending(t)
  BY <1>1, <1>5 DEF Pending
<1>7. (\A c \in closing' : c \in closing \/ c.s = s) /\ (streams = {} => closing' = closing)
  BY <1>1, <1>5
<1>8. ASSUME \A i \in streams : <<s, i>> \notin hooked PROVE Pending(s)' = Pending(s)
  BY <1>1, <1>4, <1>8 DEF Pending
<1>9. ASSUME NEW i \in streams, streams = {i}, <<s, i>> \in hooked
      PROVE  \E c : c.s = s /\ Pending(s)' = Pending(s) \cup {c}
  <2>1. New = {Rec(i)}
    BY <1>9
  <2>2. Rec(i).s = s /\ Rec(i).at = "check"
    BY <1>4, <1>9
  <2> HIDE DEF New
  <2>3. Pending(s)' = Pending(s) \cup {Rec(i)}
    BY <1>1, <2>1, <2>2 DEF Pending
  <2>4. QED
    BY <2>2, <2>3
<1> HIDE DEF New
<1>10. QED
  BY <1>2, <1>3, <1>6, <1>7, <1>8, <1>9 DEF StateEnds

\* The end of the only stream of a live session hands it to the hook, or leaves it with the call.
LEMMA StreamEnds ==
  ASSUME TlsInv, TlsTypeOK', NEW s \in SessionIds, Live(s), NEW streams \in SUBSET OpenStreams(s), NEW fin \in BOOLEAN,
         CloseState(s, streams, fin), UNCHANGED <<idle, caller>>, \A t \in SessionIds : sess'[t].client = sess[t].client
  PROVE  \A t \in SessionIds : Good(t)'
<1>0. StateEnds(s, streams) /\ streams \in SUBSET StreamIds
  BY StateHands DEF OpenStreams, TlsInv
<1>1. ASSUME NEW t \in SessionIds, t # s PROVE Good(t)'
  <2>1. Same(t)
    BY <1>0, <1>1 DEF Same, StateEnds
  <2>2. QED
    BY <2>1, SameGood
<1>2. Good(s)'
  <2>1. CASE streams = {}
    <3>1. Same(s)
      BY <1>0, <2>1 DEF Same, StateEnds
    <3>2. QED
      BY <3>1, SameGood
  <2>2. CASE streams # {}
    <3>1. PICK i \in streams : TRUE
      BY <2>2
    <3>2. OpenStreams(s) = {i} /\ streams = {i} /\ i \in StreamIds /\ Good(s) /\ Hands(s)
      BY <1>0, <3>1 DEF TlsInv, Good
    <3>3. OpenStreams(s)' = {}
      BY <1>0, <3>2 DEF OpenStreams, StateEnds
    <3>4. s \notin idle /\ Pending(s) = {}
      BY <3>2 DEF Hands, Busy
    <3>5. Live(s)' /\ (sess[s].client # "none")'
      BY DEF Live
    <3>6. \A j \in StreamIds : <<s, j>> \notin hooked'
      BY <1>0, <3>2 DEF StateEnds, Hands
    <3>7. CASE <<s, i>> \in hooked
      <4>1. PICK c : Pending(s)' = {c}
        <5>1. PICK c : Pending(s)' = Pending(s) \cup {c}
          BY <1>0, <3>1, <3>2, <3>7 DEF StateEnds
        <5>2. Pending(s)' = {c}
          BY <3>4, <5>1
        <5>3. QED
          BY <5>2
      <4>2. \A k \in Callers : caller'[k].s # s
        BY <3>2, <3>7 DEF Hands
      <4>3. Hands(s)'
        BY <3>3, <3>4, <3>6, <4>1, <4>2 DEF Hands, Busy
      <4>4. QED
        BY <3>3, <3>5, <4>3 DEF Good
    <3>8. CASE <<s, i>> \notin hooked
      <4>1. Pending(s)' = {}
        BY <1>0, <3>2, <3>4, <3>8 DEF StateEnds
      <4>2. \E k \in Callers : caller[k].s = s
        BY <3>2, <3>8 DEF Hands
      <4>3. \A j \in StreamIds : cstream[s][j].at # "none" => cstream'[s][j].at # "none"
        BY <1>0 DEF StateEnds
      <4>4. \A k \in Callers : caller[k].s = s /\ caller[k].at \in {"map", "hook"} => caller[k].i \in StreamIds
        BY DEF TlsInv, TlsTypeOK, TlsCalls
      <4>5. Hands(s)'
        BY <3>2, <3>3, <3>4, <3>6, <4>1, <4>2, <4>3, <4>4 DEF Hands, Busy
      <4>6. QED
        BY <3>3, <3>5, <4>5 DEF Good
    <3>9. QED
      BY <3>7, <3>8
  <2>3. QED
    BY <2>1, <2>2
<1>3. QED
  BY <1>1, <1>2

LEMMA ClientKept ==
  ASSUME NEW f \in [SessionIds -> TlsSessions], NEW s \in SessionIds, NEW b \in BOOLEAN, NEW t \in SessionIds
  PROVE  [f EXCEPT ![s].next = @ + 1, ![s].watched = b][t].client = f[t].client
<1>1. [f EXCEPT ![s].next = @ + 1, ![s].watched = b] = [f EXCEPT ![s] = [f[s] EXCEPT !.next = f[s].next + 1, !.watched = b]]
  BY Zenon
<1>2. ASSUME NEW r \in TlsSessions, NEW n \in Nat PROVE [r EXCEPT !.next = n, !.watched = b].client = r.client
  BY DEF TlsSessions
<1>3. f[s] \in TlsSessions /\ f[s].next + 1 \in Nat
  BY DEF TlsSessions
<1>4. QED
  BY <1>1, <1>2, <1>3

\* What a step that sets a stream's state, or whether it is in the map, leaves of the streams.
LEMMA StreamAt ==
  ASSUME NEW f \in [SessionIds -> [StreamIds -> ClientStreams]], NEW s \in SessionIds, NEW i \in StreamIds,
         NEW e \in {"open", "closed"},
         NEW g, g = [f EXCEPT ![s][i].at = e]
  PROVE  g[s][i].at = e /\ \A t \in SessionIds, j \in StreamIds : t # s \/ j # i => g[t][j] = f[t][j]
<1>1. g = [f EXCEPT ![s] = [f[s] EXCEPT ![i] = [f[s][i] EXCEPT !.at = e]]]
  BY Zenon
<1>2. f[s] \in [StreamIds -> ClientStreams] /\ f[s][i] \in ClientStreams
  OBVIOUS
<1>3. g[s] = [f[s] EXCEPT ![i] = [f[s][i] EXCEPT !.at = e]] /\ \A t \in SessionIds : t # s => g[t] = f[t]
  BY <1>1
<1>4. g[s][i] = [f[s][i] EXCEPT !.at = e] /\ \A j \in StreamIds : j # i => g[s][j] = f[s][j]
  BY <1>2, <1>3
<1>5. \A r \in ClientStreams : [r EXCEPT !.at = e].at = e
  BY DEF ClientStreams
<1>6. QED
  BY <1>2, <1>3, <1>4, <1>5

LEMMA MappedAt ==
  ASSUME NEW f \in [SessionIds -> [StreamIds -> ClientStreams]], NEW s \in SessionIds, NEW i \in StreamIds, NEW b \in BOOLEAN,
         NEW g, g = [f EXCEPT ![s][i].mapped = b]
  PROVE  \A t \in SessionIds, j \in StreamIds : g[t][j].at = f[t][j].at
<1>1. g = [f EXCEPT ![s] = [f[s] EXCEPT ![i] = [f[s][i] EXCEPT !.mapped = b]]]
  BY Zenon
<1>2. f[s] \in [StreamIds -> ClientStreams] /\ f[s][i] \in ClientStreams
  OBVIOUS
<1>3. g[s] = [f[s] EXCEPT ![i] = [f[s][i] EXCEPT !.mapped = b]] /\ \A t \in SessionIds : t # s => g[t] = f[t]
  BY <1>1
<1>4. g[s][i] = [f[s][i] EXCEPT !.mapped = b] /\ \A j \in StreamIds : j # i => g[s][j] = f[s][j]
  BY <1>2, <1>3
<1>5. \A r \in ClientStreams : [r EXCEPT !.mapped = b].at = r.at
  BY DEF ClientStreams
<1>6. QED
  BY <1>2, <1>3, <1>4, <1>5

\* Closing the client's end of a session leaves nothing open that was not, and touches no other.
LEMMA ClientEnds ==
  ASSUME TlsInv, TlsTypeOK', NEW s \in SessionIds, CloseClient(s), UNCHANGED caller
  PROVE  \A t \in SessionIds : Good(t)'
<1> DEFINE streams == MappedStreams(s) \cap OpenStreams(s)
<1>1. StateEnds(s, streams)
  <2>1. CloseState(s, streams, FALSE) /\ streams \in SUBSET StreamIds
    BY SomeStreams DEF CloseClient
  <2> HIDE DEF streams
  <2>2. QED
    BY <2>1, StateHands DEF TlsInv
<1>2. sess'[s].client = "dead" /\ (\A t \in SessionIds \ {s} : sess'[t] = sess[t]) /\ idle' = idle \ {s}
  BY DEF CloseClient, TlsInv, TlsTypeOK, TlsSessions
<1> HIDE DEF streams
<1>3. ASSUME NEW t \in SessionIds, t # s PROVE Good(t)'
  <2>1. Same(t)
    BY <1>1, <1>2, <1>3 DEF Same, StateEnds
  <2>2. QED
    BY <2>1, SameGood
<1>4. OpenStreams(s)' \subseteq OpenStreams(s)
  BY <1>1 DEF OpenStreams, StateEnds
<1>5. QED
  BY <1>2, <1>3, <1>4, DeadGood

\* A session whose client end lives is in the hand of a call that has it.
LEMMA Called ==
  ASSUME TlsInv, NEW k \in Callers, caller[k].s \in SessionIds, Live(caller[k].s)
  PROVE  /\ caller[k].s \notin idle /\ Pending(caller[k].s) = {}
         /\ \A l \in Callers : caller[l].s = caller[k].s => l = k
         /\ \A i \in StreamIds : <<caller[k].s, i>> \notin hooked
         /\ caller[k].at = "open" => OpenStreams(caller[k].s) = {}
<1>1. Hands(caller[k].s)
  BY DEF TlsInv, Good
<1>2. QED
  BY <1>1 DEF Hands, Busy

LEMMA GetHands == ASSUME TlsInv, TlsTypeOK', NEW k \in Callers, GetIdleSession(k) PROVE \A t \in SessionIds : Good(t)'
<1>1. PICK s \in idle : idle' = idle \ {s} /\ caller' = [caller EXCEPT ![k] = [at |-> "open", s |-> s, i |-> 0]]
  BY DEF GetIdleSession, Call
<1>2. caller[k].s = 0 /\ s \in SessionIds /\ 0 \notin SessionIds /\ caller'[k] = [at |-> "open", s |-> s, i |-> 0]
      /\ \A l \in Callers : l # k => caller'[l] = caller[l]
  BY <1>1, TlsConstants DEF GetIdleSession, TlsInv, TlsTypeOK, TlsCalls
<1>3. UNCHANGED <<sess, cstream, hooked, closing>>
  BY DEF GetIdleSession
<1>4. ASSUME NEW t \in SessionIds, t # s PROVE Good(t)'
  <2>1. Same(t)
    BY <1>1, <1>2, <1>3, <1>4 DEF Same, Pending
  <2>2. QED
    BY <2>1, SameGood
<1>5. Good(s)'
  <2>1. Good(s) /\ sess[s].client # "none" /\ OpenStreams(s)' = OpenStreams(s) /\ Pending(s)' = Pending(s) /\ (Live(s)' <=> Live(s))
    BY <1>2, <1>3 DEF TlsInv, Good, Unknown, OpenStreams, Pending, Live
  <2>2. ASSUME Live(s) PROVE Hands(s)'
    <3>1. Hands(s)
      BY <2>1, <2>2 DEF Good
    <3>2. OpenStreams(s) = {} /\ Pending(s) = {} /\ \A l \in Callers : caller[l].s # s
      BY <3>1 DEF Hands, Busy
    <3>3. \A i \in StreamIds : <<s, i>> \notin hooked
      BY <3>1, <3>2 DEF Hands
    <3>4. \A l \in Callers : caller'[l].s = s => l = k
      BY <1>2, <3>2
    <3>5. s \notin idle' /\ Busy(s)'
      BY <1>1, <1>2 DEF Busy
    <3>6. QED
      BY <1>2, <1>3, <2>1, <3>2, <3>3, <3>4, <3>5 DEF Hands
  <2>3. QED
    BY <1>3, <2>1, <2>2 DEF Good
<1>6. QED
  BY <1>4, <1>5

LEMMA CreateHands == ASSUME TlsInv, TlsTypeOK', NEW k \in Callers, CreateSession(k) PROVE \A t \in SessionIds : Good(t)'
<1>1. PICK s \in SessionIds : /\ sess[s].client = "none"
                              /\ sess' = [sess EXCEPT ![s].client = "live", ![s].server = "live"]
                              /\ caller' = [caller EXCEPT ![k] = [at |-> "open", s |-> s, i |-> 0]]
  BY DEF CreateSession, Call
<1>2. caller[k].s = 0 /\ 0 \notin SessionIds /\ caller'[k] = [at |-> "open", s |-> s, i |-> 0]
      /\ \A l \in Callers : l # k => caller'[l] = caller[l]
  BY <1>1, TlsConstants DEF CreateSession, TlsInv, TlsTypeOK, TlsCalls
<1>3. UNCHANGED <<cstream, hooked, closing, idle>>
  BY DEF CreateSession
<1>4. sess'[s].client = "live" /\ \A t \in SessionIds : t # s => sess'[t] = sess[t]
  BY <1>1 DEF TlsInv, TlsTypeOK, TlsSessions
<1>5. ASSUME NEW t \in SessionIds, t # s PROVE Good(t)'
  <2>1. Same(t)
    BY <1>2, <1>3, <1>4, <1>5 DEF Same, Pending
  <2>2. QED
    BY <2>1, SameGood
<1>6. Good(s)'
  <2>1. Unknown(s)
    BY <1>1 DEF TlsInv, Good
  <2>2. OpenStreams(s)' = {} /\ Pending(s)' = {} /\ s \notin idle' /\ \A i \in StreamIds : <<s, i>> \notin hooked'
    BY <1>3, <2>1 DEF Unknown, OpenStreams, Pending
  <2>3. Busy(s)' /\ \A l \in Callers : caller'[l].s = s => l = k
    BY <1>2, <2>1 DEF Busy, Unknown
  <2>4. Hands(s)'
    BY <1>2, <2>2, <2>3 DEF Hands
  <2>5. QED
    BY <1>4, <2>2, <2>4 DEF Good
<1>7. QED
  BY <1>5, <1>6

LEMMA OpenHands == ASSUME TlsInv, TlsTypeOK', NEW k \in Callers, OpenStream(k) PROVE \A t \in SessionIds : Good(t)'
<1>1. PICK s \in SessionIds : s = caller[k].s /\ caller[k].at = "open" /\ 0 \notin SessionIds
  BY TlsConstants DEF OpenStream, TlsInv, TlsTypeOK, TlsCalls
<1>2. CASE ~Live(s)
  <2>1. caller' = [caller EXCEPT ![k] = [at |-> "idle", s |-> 0, i |-> 0]] /\ UNCHANGED <<sess, cstream, hooked, closing, idle>>
    BY <1>1, <1>2 DEF OpenStream, Call
  <2>2. caller'[k].s = 0 /\ \A l \in Callers : l # k => caller'[l] = caller[l]
    BY <2>1 DEF TlsInv, TlsTypeOK
  <2>3. ASSUME NEW t \in SessionIds, t # s PROVE Good(t)'
    <3>1. Same(t)
      BY <1>1, <2>1, <2>2, <2>3 DEF Same, Pending
    <3>2. QED
      BY <3>1, SameGood
  <2>4. sess[s].client # "none"
    BY <1>1 DEF TlsInv, Good, Unknown
  <2>5. Good(s)'
    <3>1. sess'[s].client = "dead"
      BY <1>1, <1>2, <2>1, <2>4 DEF Live, TlsInv, TlsTypeOK, TlsSessions
    <3>2. QED
      BY <1>1, <2>1, <3>1, DeadGood DEF OpenStreams
  <2>6. QED
    BY <2>3, <2>5
<1>3. CASE Live(s)
  <2>0. PICK n : n = sess[s].next
    OBVIOUS
  <2>1. /\ n \in StreamIds /\ sess' = [sess EXCEPT ![s].next = @ + 1, ![s].watched = n >= 2 /\ sess[s].peer]
        /\ caller' = [caller EXCEPT ![k] = [at |-> "map", s |-> s, i |-> n]]
        /\ cstream' = [cstream EXCEPT ![s][n].at = "open"] /\ UNCHANGED <<hooked, closing, idle>>
    BY <1>1, <1>3, <2>0 DEF OpenStream, Call
  <2>2. caller'[k] = [at |-> "map", s |-> s, i |-> n] /\ \A l \in Callers : l # k => caller'[l] = caller[l]
    BY <2>1 DEF TlsInv, TlsTypeOK
  <2>3. \A t \in SessionIds : sess'[t].client = sess[t].client
    <3>1. sess \in [SessionIds -> TlsSessions] /\ (n >= 2 /\ sess[s].peer) \in BOOLEAN
      BY DEF TlsInv, TlsTypeOK, TlsSessions
    <3>2. QED
      BY <2>1, <3>1, ClientKept
  <2>4. cstream'[s][n].at = "open" /\ \A t \in SessionIds, i \in StreamIds : t # s \/ i # n => cstream'[t][i] = cstream[t][i]
    BY <2>1, StreamAt DEF TlsInv, TlsTypeOK
  <2>5. ASSUME NEW t \in SessionIds, t # s PROVE Good(t)'
    <3>1. Same(t)
      <4>1. UNCHANGED <<hooked, closing, idle>> /\ Pending(t)' = Pending(t)
        BY <2>1 DEF Pending
      <4>2. \A l \in Callers : caller'[l] = caller[l] \/ (caller'[l].s # t /\ caller[l].s # t)
        BY <1>1, <2>2, <2>5
      <4>3. QED
        BY <2>3, <2>4, <2>5, <4>1, <4>2 DEF Same
    <3>2. QED
      BY <3>1, SameGood
  <2>6. Good(s)'
    <3>1. /\ s \notin idle /\ Pending(s) = {} /\ OpenStreams(s) = {}
          /\ \A l \in Callers : caller[l].s = s => l = k
          /\ \A i \in StreamIds : <<s, i>> \notin hooked
      BY <1>1, <1>3, Called
    <3>2. OpenStreams(s)' = {n}
      BY <2>1, <2>4, <3>1 DEF OpenStreams
    <3>3. Pending(s)' = {} /\ s \notin idle'
      BY <2>1, <3>1 DEF Pending
    <3>4. \A l \in Callers : caller'[l].s = s => l = k
      BY <2>2, <3>1
    <3>5. Busy(s)' /\ sess'[s].client = "live"
      BY <1>1, <1>3, <2>2, <2>3 DEF Busy, Live
    <3>6. caller'[k].s = s /\ caller'[k].at = "map" /\ caller'[k].i = n /\ cstream'[s][n].at # "none"
      BY <2>2, <2>4
    <3>7. Hands(s)'
      BY <2>1, <3>1, <3>2, <3>3, <3>4, <3>5, <3>6 DEF Hands
    <3>8. QED
      BY <3>2, <3>5, <3>7 DEF Good
  <2>7. QED
    BY <2>5, <2>6
<1>4. QED
  BY <1>2, <1>3

LEMMA MapHands == ASSUME TlsInv, TlsTypeOK', NEW k \in Callers, MapStream(k) PROVE \A t \in SessionIds : Good(t)'
<1>1. PICK s \in SessionIds, i \in StreamIds : s = caller[k].s /\ i = caller[k].i /\ caller[k].at = "map" /\ 0 \notin SessionIds
  BY TlsConstants DEF MapStream, TlsInv, TlsTypeOK, TlsCalls
<1>2. UNCHANGED <<sess, hooked, closing, idle>> /\ Pending(s)' = Pending(s) /\ Good(s)
  BY DEF MapStream, Pending, TlsInv
<1>3. cstream \in [SessionIds -> [StreamIds -> ClientStreams]] /\ caller \in [Callers -> TlsCalls]
  BY DEF TlsInv, TlsTypeOK
<1>4. sess[s].client # "none"
  BY <1>1, <1>2 DEF Good, Unknown
<1>5. \A t \in SessionIds, j \in StreamIds : t # s \/ j # i => cstream'[t][j].at = cstream[t][j].at
  <2>1. cstream' = [cstream EXCEPT ![s][i].mapped = TRUE] \/ cstream' = [cstream EXCEPT ![s][i].at = "closed"]
    BY <1>1 DEF MapStream
  <2>2. CASE cstream' = [cstream EXCEPT ![s][i].mapped = TRUE]
    BY <1>3, <2>2, MappedAt
  <2>3. CASE cstream' = [cstream EXCEPT ![s][i].at = "closed"]
    BY <1>3, <2>3, StreamAt
  <2>4. QED
    BY <2>1, <2>2, <2>3
<1>6. \A l \in Callers : l # k => caller'[l] = caller[l]
  BY <1>3 DEF MapStream, Call
<1>7. caller'[k].s \in {0, s}
  BY <1>1, <1>3 DEF MapStream, Call
<1>8. ASSUME NEW t \in SessionIds, t # s PROVE Good(t)'
  <2>1. Pending(t)' = Pending(t)
    BY <1>2 DEF Pending
  <2>2. \A l \in Callers : caller'[l] = caller[l] \/ (caller'[l].s # t /\ caller[l].s # t)
    BY <1>1, <1>6, <1>7, <1>8
  <2>3. Same(t)
    BY <1>2, <1>5, <1>8, <2>1, <2>2 DEF Same
  <2>4. QED
    BY <2>3, SameGood
<1>9. CASE Live(s)
  <2>1. caller'[k] = [at |-> "hook", s |-> s, i |-> i] /\ cstream' = [cstream EXCEPT ![s][i].mapped = TRUE]
    BY <1>1, <1>3, <1>9 DEF MapStream, Call
  <2>2. \A j \in StreamIds : cstream'[s][j].at = cstream[s][j].at
    BY <1>3, <2>1, MappedAt
  <2>3. OpenStreams(s)' = OpenStreams(s)
    BY <2>2 DEF OpenStreams
  <2>4. /\ s \notin idle /\ Pending(s) = {} /\ \A l \in Callers : caller[l].s = s => l = k
        /\ \A j \in StreamIds : <<s, j>> \notin hooked
    BY <1>1, <1>9, Called
  <2>5. OpenStreams(s) \subseteq {i} /\ cstream[s][i].at # "none"
    BY <1>1, <1>2, <1>9 DEF Good, Hands
  <2>6. \A l \in Callers : caller'[l].s = s => l = k
    BY <1>6, <2>4
  <2>7. caller'[k].s = s /\ caller'[k].at = "hook" /\ caller'[k].i = i /\ Busy(s)'
    BY <2>1 DEF Busy
  <2>8. Hands(s)'
    BY <1>2, <2>2, <2>3, <2>4, <2>5, <2>6, <2>7 DEF Hands
  <2>9. Good(s)'
    BY <1>2, <1>9, <2>3, <2>8 DEF Good, Live
  <2>10. QED
    BY <1>8, <2>9
<1>10. CASE ~Live(s)
  <2>1. cstream' = [cstream EXCEPT ![s][i].at = "closed"]
    BY <1>1, <1>10 DEF MapStream
  <2>2. OpenStreams(s)' \subseteq OpenStreams(s)
    BY <1>3, <1>5, <2>1, StreamAt DEF OpenStreams
  <2>3. sess'[s].client = "dead"
    BY <1>2, <1>4, <1>10 DEF Live, TlsInv, TlsTypeOK, TlsSessions
  <2>4. QED
    BY <1>8, <2>2, <2>3, DeadGood
<1>11. QED
  BY <1>9, <1>10

LEMMA HookHands == ASSUME TlsInv, TlsTypeOK', NEW k \in Callers, SetDieHook(k) PROVE \A t \in SessionIds : Good(t)'
<1>1. PICK s \in SessionIds, i \in StreamIds : s = caller[k].s /\ i = caller[k].i /\ caller[k].at = "hook" /\ 0 \notin SessionIds
  BY TlsConstants DEF SetDieHook, TlsInv, TlsTypeOK, TlsCalls
<1>2. UNCHANGED <<sess, cstream, idle>> /\ OpenStreams(s)' = OpenStreams(s) /\ Good(s)
  BY DEF SetDieHook, OpenStreams, TlsInv
<1>3. caller'[k].s = 0 /\ \A l \in Callers : l # k => caller'[l] = caller[l]
  BY DEF SetDieHook, Call, TlsInv, TlsTypeOK
<1> DEFINE rec == [s |-> s, i |-> i, fin |-> FALSE, at |-> "check"]
<1>4. \/ cstream[s][i].at = "closed" /\ closing' = closing \cup {rec} /\ hooked' = hooked
      \/ cstream[s][i].at # "closed" /\ hooked' = hooked \cup {<<s, i>>} /\ closing' = closing
  BY <1>1 DEF SetDieHook
<1>5. rec.s = s /\ rec.at = "check"
  OBVIOUS
<1> HIDE DEF rec
<1>6. ASSUME NEW t \in SessionIds, t # s PROVE Good(t)'
  <2>1. Pending(t)' = Pending(t)
    BY <1>4, <1>5, <1>6 DEF Pending
  <2>2. \A l \in Callers : caller'[l] = caller[l] \/ (caller'[l].s # t /\ caller[l].s # t)
    BY <1>1, <1>3, <1>6
  <2>3. \A j \in StreamIds : <<t, j>> \in hooked' <=> <<t, j>> \in hooked
    BY <1>4, <1>6
  <2>4. \A c \in closing' : c.s = t => \E d \in closing : d.s = t
    BY <1>4, <1>5, <1>6
  <2>5. Same(t)
    BY <1>2, <2>1, <2>2, <2>3, <2>4 DEF Same
  <2>6. QED
    BY <2>5, SameGood
<1>7. sess[s].client # "none"
  BY <1>1, <1>2 DEF Good, Unknown
<1>8. ASSUME Live(s) PROVE Hands(s)'
  <2>1. /\ s \notin idle /\ Pending(s) = {} /\ \A l \in Callers : caller[l].s = s => l = k
        /\ \A j \in StreamIds : <<s, j>> \notin hooked
    BY <1>1, <1>8, Called
  <2>2. OpenStreams(s) \subseteq {i} /\ cstream[s][i].at # "none"
    BY <1>1, <1>2, <1>8 DEF Good, Hands
  <2>3. \A l \in Callers : caller'[l].s # s
    BY <1>1, <1>3, <2>1
  <2>4. cstream[s][i].at \in {"open", "closed"}
    BY <2>2 DEF TlsInv, TlsTypeOK, ClientStreams
  <2>5. CASE cstream[s][i].at = "closed"
    <3>1. Pending(s)' = {rec} /\ hooked' = hooked
      BY <1>4, <1>5, <2>1, <2>5 DEF Pending
    <3>2. OpenStreams(s) = {}
      BY <2>2, <2>5 DEF OpenStreams
    <3>3. QED
      BY <1>2, <2>1, <2>3, <3>1, <3>2 DEF Hands, Busy
  <2>6. CASE cstream[s][i].at = "open"
    <3>1. Pending(s)' = {} /\ hooked' = hooked \cup {<<s, i>>}
      BY <1>4, <2>1, <2>6 DEF Pending
    <3>2. OpenStreams(s) = {i}
      BY <2>2, <2>6 DEF OpenStreams
    <3>3. QED
      BY <1>2, <2>1, <2>3, <3>1, <3>2 DEF Hands, Busy
  <2>7. QED
    BY <2>4, <2>5, <2>6
<1>9. Good(s)'
  BY <1>2, <1>7, <1>8 DEF Good, Live
<1>10. QED
  BY <1>6, <1>9

LEMMA RunHands == ASSUME TlsInv, TlsTypeOK', NEW c \in closing, RunHook(c) PROVE \A t \in SessionIds : Good(t)'
<1>1. PICK s \in SessionIds : s = c.s
  BY DEF TlsInv, TlsTypeOK, Closers
<1>2. c.at \in {"check", "insert"} /\ UNCHANGED <<cstream, hooked, caller>> /\ OpenStreams(s)' = OpenStreams(s) /\ Good(s) /\ c \in Pending(s)
  BY <1>1 DEF RunHook, OpenStreams, TlsInv, Pending
<1>3. sess[s].client # "none" /\ c \in Closers
  BY <1>1, <1>2 DEF Good, Unknown, TlsInv, TlsTypeOK
<1>4. PICK e : e.s = s /\ closing' = (closing \ {c}) \cup {e} /\ e.at \in {"insert", "fin"} /\ (e.at = "insert" => c.at = "check")
               /\ (c.at = "check" /\ Live(s) /\ ~clientDead <=> e.at = "insert")
  <2>1. [c EXCEPT !.at = "insert"].s = s /\ [c EXCEPT !.at = "insert"].at = "insert"
        /\ [c EXCEPT !.at = "fin"].s = s /\ [c EXCEPT !.at = "fin"].at = "fin"
    BY <1>1, <1>3 DEF Closers
  <2>2. \/ closing' = (closing \ {c}) \cup {[c EXCEPT !.at = "insert"]} /\ c.at = "check" /\ Live(s) /\ ~clientDead
        \/ closing' = (closing \ {c}) \cup {[c EXCEPT !.at = "fin"]} /\ ~(c.at = "check" /\ Live(s) /\ ~clientDead)
    BY <1>1 DEF RunHook
  <2>3. QED
    BY <2>1, <2>2
<1>5. /\ \A t \in SessionIds : t # s => sess'[t].client = sess[t].client /\ (t \in idle' <=> t \in idle)
      /\ sess'[s].client = "dead" \/ (sess' = sess /\ (e.at = "insert" => idle' = idle) /\ (e.at = "fin" /\ Live(s) => idle' = idle \cup {s}))
  <2>1. sess \in [SessionIds -> TlsSessions]
    BY DEF TlsInv, TlsTypeOK
  <2>2. CASE c.at = "check" /\ Live(s) /\ clientDead
    <3>1. sess' = [sess EXCEPT ![s].client = "dead", ![s].cut = TRUE] /\ idle' = idle \ {s}
      BY <1>1, <2>2 DEF RunHook
    <3>2. QED
      BY <2>1, <3>1 DEF TlsSessions
  <2>3. CASE ~(c.at = "check" /\ Live(s) /\ clientDead)
    BY <1>1, <1>4, <2>3 DEF RunHook
  <2>4. QED
    BY <2>2, <2>3
<1>6. ASSUME NEW t \in SessionIds, t # s PROVE Good(t)'
  <2>1. Pending(t)' = Pending(t) /\ \A d \in closing' : d.s = t => d \in closing
    BY <1>1, <1>4, <1>6 DEF Pending
  <2>2. Same(t)
    BY <1>2, <1>5, <1>6, <2>1 DEF Same
  <2>3. QED
    BY <2>2, SameGood
<1>7. CASE sess'[s].client = "dead"
  BY <1>2, <1>6, <1>7, DeadGood
<1>8. CASE sess' = sess
  <2>1. ASSUME Live(s) PROVE Hands(s)'
    <3>1. Hands(s)
      BY <1>2, <2>1 DEF Good
    <3>2. Pending(s) = {c} /\ OpenStreams(s) = {} /\ s \notin idle /\ (\A k \in Callers : caller[k].s # s)
          /\ \A i \in StreamIds : <<s, i>> \notin hooked
      BY <1>2, <3>1 DEF Hands
    <3>3. CASE e.at = "insert"
      <4>1. Pending(s)' = {e} /\ idle' = idle
        BY <1>1, <1>4, <1>5, <1>8, <2>1, <3>2, <3>3 DEF Pending, Live
      <4>2. QED
        BY <1>2, <3>2, <4>1 DEF Hands, Busy
    <3>4. CASE e.at = "fin"
      <4>1. Pending(s)' = {}
        BY <1>1, <1>4, <3>2, <3>4 DEF Pending
      <4>2. idle' = idle \cup {s}
        BY <1>5, <1>8, <2>1, <3>4 DEF Live
      <4>3. QED
        BY <1>2, <3>2, <4>1, <4>2 DEF Hands, Busy
    <3>5. QED
      BY <1>4, <3>3, <3>4
  <2>2. Good(s)'
    BY <1>2, <1>3, <1>8, <2>1 DEF Good, Live
  <2>3. QED
    BY <1>6, <2>2
<1>9. QED
  BY <1>5, <1>7, <1>8

LEMMA FinHands == ASSUME TlsInv, TlsTypeOK', NEW c \in closing, StreamClosed(c) PROVE \A t \in SessionIds : Good(t)'
<1>1. c.s \in SessionIds /\ c.i \in StreamIds /\ cstream \in [SessionIds -> [StreamIds -> ClientStreams]]
  BY DEF TlsInv, TlsTypeOK, Closers
<1>2. cstream' = [cstream EXCEPT ![c.s][c.i].mapped = FALSE] /\ closing' = closing \ {c} /\ c.at = "fin"
      /\ UNCHANGED <<sess, hooked, idle, caller>>
  BY DEF StreamClosed
<1>3. \A t \in SessionIds, j \in StreamIds : cstream'[t][j].at = cstream[t][j].at
  BY <1>1, <1>2, MappedAt
<1>4. ASSUME NEW t \in SessionIds PROVE Same(t)
  <2>1. Pending(t)' = Pending(t)
    BY <1>2 DEF Pending
  <2>2. QED
    BY <1>2, <1>3, <2>1 DEF Same
<1>5. QED
  BY <1>4, SameGood

\* A step that leaves the clients' ends, their streams and the pool alone.
LEMMA QuietHands ==
  ASSUME TlsInv, TlsTypeOK', UNCHANGED <<cstream, hooked, closing, idle, caller>>,
         \A t \in SessionIds : sess'[t].client = sess[t].client
  PROVE  \A t \in SessionIds : Good(t)'
<1>1. ASSUME NEW t \in SessionIds PROVE Same(t)
  BY DEF Same, Pending
<1>2. QED
  BY <1>1, SameGood

\* The other ends, what the peer has said, and a cut that is not noticed yet are nobody's hand.
LEMMA ClientAs ==
  ASSUME NEW f \in [SessionIds -> TlsSessions], NEW s \in SessionIds, NEW g,
         \/ g = [f EXCEPT ![s].peer = TRUE]
         \/ g = [f EXCEPT ![s].watched = FALSE]
         \/ g = [f EXCEPT ![s].settings = TRUE]
         \/ g = [f EXCEPT ![s].cut = TRUE]
         \/ g = [f EXCEPT ![s].server = "dead"]
  PROVE  \A t \in SessionIds : g[t].client = f[t].client
  BY DEF TlsSessions

LEMMA EndHands ==
  ASSUME TlsInv, TlsTypeOK', NEW s \in SessionIds,
         \/ SynTimeout(s) \/ Break(s) \/ ClientNotices(s) \/ ServerNotices(s) \/ IdleCleanup(s)
         \/ ClientReceives(s) \/ ServerReceives(s)
         \/ \E i \in StreamIds : CloseStream(s, i) \/ ServerCloses(s, i) \/ \E ok \in BOOLEAN : HandshakeReport(s, i, ok)
  PROVE  \A t \in SessionIds : Good(t)'
<1>0. sess \in [SessionIds -> TlsSessions]
  BY DEF TlsInv, TlsTypeOK
<1>1. CASE SynTimeout(s) \/ ClientNotices(s) \/ (IdleCleanup(s) /\ Live(s))
  BY <1>1, ClientEnds DEF SynTimeout, ClientNotices, IdleCleanup
<1>2. CASE Break(s)
  BY <1>0, <1>2, ClientAs, QuietHands DEF Break
<1>3. CASE ServerNotices(s)
  BY <1>0, <1>3, ClientAs, QuietHands DEF ServerNotices
<1>4. CASE IdleCleanup(s) /\ ~Live(s)
  <2>1. idle' = idle \ {s} /\ UNCHANGED <<sess, cstream, closing, hooked, caller>> /\ s \in idle
    BY <1>4 DEF IdleCleanup
  <2>2. ASSUME NEW t \in SessionIds, t # s PROVE Good(t)'
    <3>1. Same(t)
      BY <2>1, <2>2 DEF Same, Pending
    <3>2. QED
      BY <3>1, SameGood
  <2>3. sess'[s].client = "dead"
    BY <1>0, <1>4, <2>1 DEF TlsInv, Good, Unknown, Live, TlsSessions
  <2>4. QED
    BY <2>1, <2>2, <2>3, DeadGood DEF OpenStreams
<1>5. CASE ServerReceives(s)
  <2>1. sess' = sess \/ sess' = [sess EXCEPT ![s].settings = TRUE]
    BY <1>5 DEF ServerReceives
  <2>2. \A t \in SessionIds : sess'[t].client = sess[t].client
    BY <1>0, <2>1, ClientAs
  <2>3. QED
    BY <1>5, <2>2, QuietHands DEF ServerReceives
<1>6. CASE ClientReceives(s)
  <2> DEFINE streams == {Head(s2c[s]).sid} \cap MappedStreams(s) \cap OpenStreams(s)
  <2>1. sess' = sess \/ sess' = [sess EXCEPT ![s].peer = TRUE] \/ sess' = [sess EXCEPT ![s].watched = FALSE]
    BY <1>6 DEF ClientReceives
  <2>2. \A t \in SessionIds : sess'[t].client = sess[t].client
    BY <1>0, <2>1, ClientAs
  <2>3. UNCHANGED <<cstream, closing, hooked>> \/ CloseState(s, streams, TRUE) \/ CloseState(s, streams, FALSE)
    BY <1>6 DEF ClientReceives
  <2>4. streams \in SUBSET OpenStreams(s) /\ Live(s) /\ UNCHANGED <<idle, caller>>
    BY <1>6 DEF ClientReceives
  <2> HIDE DEF streams
  <2>5. QED
    BY <2>2, <2>3, <2>4, StreamEnds, QuietHands
<1>7. ASSUME NEW i \in StreamIds, CloseStream(s, i) PROVE \A t \in SessionIds : Good(t)'
  <2>1. i \in OpenStreams(s) /\ CloseState(s, {i}, TRUE) /\ UNCHANGED <<sess, idle, caller>>
    BY <1>7 DEF CloseStream, OpenStreams
  <2>2. CASE Live(s)
    BY <2>1, <2>2, StreamEnds
  <2>3. CASE ~Live(s)
    <3>1. StateEnds(s, {i})
      BY <2>1, StateHands DEF TlsInv
    <3>2. ASSUME NEW t \in SessionIds, t # s PROVE Good(t)'
      <4>1. Same(t)
        BY <2>1, <3>1, <3>2 DEF Same, StateEnds
      <4>2. QED
        BY <4>1, SameGood
    <3>3. sess'[s].client = "dead"
      BY <1>0, <2>1, <2>3 DEF TlsInv, Good, Unknown, Live, TlsSessions
    <3>4. OpenStreams(s)' \subseteq OpenStreams(s)
      BY <3>1 DEF OpenStreams, StateEnds
    <3>5. QED
      BY <3>2, <3>3, <3>4, DeadGood
  <2>4. QED
    BY <2>2, <2>3
<1>8. ASSUME NEW i \in StreamIds, ServerCloses(s, i) \/ \E ok \in BOOLEAN : HandshakeReport(s, i, ok)
      PROVE  \A t \in SessionIds : Good(t)'
  BY <1>8, QuietHands DEF ServerCloses, HandshakeReport
<1>9. QED
  BY <1>1, <1>2, <1>3, <1>4, <1>5, <1>6, <1>7, <1>8

LEMMA PoolHands == ASSUME TlsInv, TlsTypeOK', CloseClientPool PROVE \A t \in SessionIds : Good(t)'
<1>1. /\ sess' = [s \in SessionIds |-> IF Live(s) THEN [sess[s] EXCEPT !.client = "dead", !.cut = TRUE] ELSE sess[s]]
      /\ cstream' = [s \in SessionIds |-> [i \in StreamIds |->
           IF i \in MappedStreams(s) \cap OpenStreams(s) THEN [at |-> "closed", mapped |-> FALSE] ELSE cstream[s][i]]]
      /\ idle' \subseteq idle /\ hooked' = {} /\ UNCHANGED <<closing, caller>>
  BY DEF CloseClientPool
<1> SUFFICES ASSUME NEW t \in SessionIds PROVE Good(t)'
  OBVIOUS
<1>2. Good(t) /\ sess[t] \in TlsSessions
  BY DEF TlsInv, TlsTypeOK
<1>3. OpenStreams(t)' \subseteq OpenStreams(t)
  BY <1>1 DEF OpenStreams
<1>4. CASE sess[t].client = "none"
  <2>1. Unknown(t) /\ sess'[t] = sess[t]
    BY <1>1, <1>2, <1>4 DEF Good, Live
  <2>2. Unknown(t)'
    BY <1>1, <1>3, <2>1 DEF Unknown
  <2>3. QED
    BY <1>3, <1>4, <2>1, <2>2 DEF Good, Live, Unknown
<1>5. CASE sess[t].client # "none"
  <2>1. sess'[t].client = "dead"
    BY <1>1, <1>2, <1>5 DEF Live, TlsSessions
  <2>2. QED
    BY <1>3, <2>1, DeadGood
<1>6. QED
  BY <1>4, <1>5

LEMMA TlsStep == ASSUME TlsInv, [TlsNext]_tlsVars PROVE TlsInv'
<1>1. TlsTypeOK'
  BY TypesStep DEF TlsInv
<1>2. CASE UNCHANGED tlsVars
  <2>1. \A t \in SessionIds : Good(t)'
    BY <1>1, <1>2, QuietHands DEF tlsVars
  <2>2. QED
    BY <1>1, <2>1 DEF TlsInv
<1>3. CASE TlsNext
  <2>1. \A t \in SessionIds : Good(t)'
    BY <1>1, <1>3, GetHands, CreateHands, OpenHands, MapHands, HookHands, RunHands, FinHands, EndHands, PoolHands, Zenon
       DEF TlsNext
  <2>2. QED
    BY <1>1, <2>1 DEF TlsInv
<1>4. QED
  BY <1>2, <1>3

---------------------------------------------------------------------------
(* Each part by itself *)

DispatcherSpec == DispatcherInit /\ [][DispatcherNext]_dvars
TrackerSpec == TrackerInit /\ [][TrackerNext]_tvars
TlsSpec == TlsInit /\ [][TlsNext]_tlsVars

\* dispatcher.go: however many connections race to open, drop and time out, and however often the limit is edited, the
\* device slots and the link counts are those of the connections that are open.
THEOREM SlotsExactHolds == DispatcherSpec => [](DispatcherTypeOK /\ SlotsExact)
<1>1. DispatcherInit => DispSound /\ DispCounts
  BY SoundStart, CountsStart
<1>2. DispSound /\ DispCounts /\ [DispatcherNext]_dvars => DispSound' /\ DispCounts'
  BY SoundStep, CountsStep
<1>3. QED
  BY <1>1, <1>2, DispExact, PTL DEF DispatcherSpec

\* conntracker.go, speedtracker.go: across rebuilds of the tracker, edits of the limits and any flows, the books of every
\* tracker are those of its open flows, no byte is lost to a close or a rebuild, and only a speed read before an update
\* of the limits and stored after it leaves a stale bucket.
THEOREM BooksExactHolds == TrackerSpec => [](TrackerTypeOK /\ BooksExact /\ SpeedFollows)
<1>1. TrackerInit => TrackSound /\ TrackCounts /\ SpeedInv /\ TotalsInv
  BY TrackSoundStart, TrackCountsStart, SpeedStart, TotalsStart
<1>2. TrackSound /\ TrackCounts /\ SpeedInv /\ TotalsInv /\ [TrackerNext]_tvars => TrackSound' /\ TrackCounts' /\ SpeedInv' /\ TotalsInv'
  BY TrackSoundStep, TrackCountsStep, SpeedStep, TotalsStep
<1>3. TrackSound /\ TrackCounts /\ SpeedInv /\ TotalsInv => TrackerTypeOK /\ BooksExact /\ SpeedFollows
  BY TrackExact, SpeedInvFollows DEF TrackSound
<1>4. QED
  BY <1>1, <1>2, <1>3, PTL DEF TrackerSpec

\* session.go, client.go: with any number of sessions, streams and callers, and connections that break when they like, a live
\* AnyTLS session is in exactly one hand.
THEOREM OneHandHolds == TlsSpec => [](TlsTypeOK /\ OneHand)
<1>1. TlsInv => TlsTypeOK /\ OneHand
  BY GoodFollows DEF TlsInv
<1>2. QED
  BY <1>1, TlsStart, TlsStep, PTL DEF TlsSpec

---------------------------------------------------------------------------
(* The data plane *)

\* The invariant of the part that runs.
PlaneInv ==
  /\ part \in {"race", "edit"} => DispSound /\ DispCounts
  /\ part = "box" => IInv /\ Lists
  /\ part \in {"gate", "speed"} => TrackSound /\ TrackCounts /\ SpeedInv /\ TotalsInv
  /\ part = "tls" => TlsInv

LEMMA PlaneStart == DataPlaneInit => PlaneInv
<1>1. ASSUME part \in {"race", "edit"}, DispatcherInit PROVE PlaneInv
  BY <1>1, SoundStart, CountsStart DEF PlaneInv
<1>2. ASSUME part = "box", BoxInit PROVE PlaneInv
  BY <1>2, InitHolds, ListsStart DEF PlaneInv
<1>3. ASSUME part \in {"gate", "speed"}, TrackerInit PROVE PlaneInv
  BY <1>3, TrackSoundStart, TrackCountsStart, SpeedStart, TotalsStart DEF PlaneInv
<1>4. ASSUME part = "tls", TlsInit PROVE PlaneInv
  BY <1>4, TlsStart DEF PlaneInv
<1>5. QED
  BY <1>1, <1>2, <1>3, <1>4 DEF DataPlaneInit

LEMMA PlaneStep == ASSUME PlaneInv, [DataPlaneNext]_dataPlaneVars PROVE PlaneInv'
<1>1. ASSUME UNCHANGED part, [DispatcherNext]_dvars, part \in {"race", "edit"} PROVE PlaneInv'
  <2>1. DispSound /\ DispCounts
    BY <1>1 DEF PlaneInv
  <2>2. DispSound'
    BY <1>1, <2>1, SoundStep
  <2>3. DispCounts'
    BY <1>1, <2>1, <2>2, CountsStep
  <2>4. QED
    BY <1>1, <2>2, <2>3 DEF PlaneInv
<1>2. ASSUME UNCHANGED part, [BoxNext]_bvars, part = "box" PROVE PlaneInv'
  BY <1>2, StepHolds, ListsStep DEF PlaneInv
<1>3. ASSUME UNCHANGED part, [TrackerNext]_tvars, part \in {"gate", "speed"} PROVE PlaneInv'
  <2>1. TrackSound /\ TrackCounts /\ SpeedInv /\ TotalsInv
    BY <1>3 DEF PlaneInv
  <2>2. TrackSound'
    BY <1>3, <2>1, TrackSoundStep
  <2>3. TrackCounts' /\ SpeedInv' /\ TotalsInv'
    BY <1>3, <2>1, <2>2, TrackCountsStep, SpeedStep, TotalsStep
  <2>4. QED
    BY <1>3, <2>2, <2>3 DEF PlaneInv
<1>4. ASSUME UNCHANGED part, [TlsNext]_tlsVars, part = "tls" PROVE PlaneInv'
  BY <1>4, TlsStep DEF PlaneInv
<1>5. ASSUME UNCHANGED part, part \notin {"race", "edit", "box", "gate", "speed", "tls"} PROVE PlaneInv'
  BY <1>5 DEF PlaneInv
<1>6. UNCHANGED part /\ (\/ part \in {"race", "edit"} /\ [DispatcherNext]_dvars
                         \/ part = "box" /\ [BoxNext]_bvars
                         \/ part \in {"gate", "speed"} /\ [TrackerNext]_tvars
                         \/ part = "tls" /\ [TlsNext]_tlsVars
                         \/ part \notin {"race", "edit", "box", "gate", "speed", "tls"})
  <2>1. CASE UNCHANGED dataPlaneVars
    BY <2>1 DEF dataPlaneVars
  <2>2. CASE DataPlaneNext
    BY <2>2 DEF DataPlaneNext
  <2>3. QED
    BY <2>1, <2>2
<1>7. QED
  BY <1>1, <1>2, <1>3, <1>4, <1>5, <1>6

\* The types of the part that runs, through every step of it (dispatcher.go, singbox.go, conntracker.go, session.go).
THEOREM DataPlaneTyped == DataPlaneSpec => []DataPlaneTypeOK
<1>1. PlaneInv => DataPlaneTypeOK
  BY BoxTyped DEF PlaneInv, DataPlaneTypeOK, DispSound, TrackSound, TlsInv
<1>2. QED
  BY <1>1, PlaneStart, PlaneStep, PTL DEF DataPlaneSpec

\* dispatcher.go: the slots and link counts of the dispatcher are exactly those of its open connections.
THEOREM DispatcherExactHolds == DataPlaneSpec => []DispatcherExact
<1>1. PlaneInv => DispatcherExact
  BY DispExact DEF PlaneInv, DispatcherExact
<1>2. QED
  BY <1>1, PlaneStart, PlaneStep, PTL DEF DataPlaneSpec

\* conntracker.go, traffic.go, speedtracker.go: every tracker's connection count and refcounts are those of the
\* open TCP and UDP connections of its user, its connMap that of the TCP connections it admitted for anybody,
\* through closes and rebuilds in any order; each of the kernel's three totals lacks only the additions still
\* under way, also those of closed connections and replaced boxes; and a bucket whose speed was read after
\* the last update has the speed of the panel.
THEOREM TrackerExactHolds == DataPlaneSpec => []TrackerExact
<1>1. PlaneInv => TrackerExact
  BY TrackExact, SpeedInvFollows DEF PlaneInv, TrackerExact, TrackSound
<1>2. QED
  BY <1>1, PlaneStart, PlaneStep, PTL DEF DataPlaneSpec

\* singbox.go, relay_users.go: one set of users between operations, and no relay user that leaves unseen.
THEOREM BoxSoundHolds == DataPlaneSpec => []BoxSound
<1>1. IInv => OneUserSet /\ PermittedRouted
  BY DEF IInv, Knows, Place, Agree, OneUserSet
<1>2. PlaneInv => BoxSound
  BY <1>1 DEF PlaneInv, BoxSound
<1>3. QED
  BY <1>2, PlaneStart, PlaneStep, PTL DEF DataPlaneSpec

\* session.go, client.go: a live AnyTLS session is in exactly one hand.
THEOREM PoolSoundHolds == DataPlaneSpec => []PoolSound
<1>1. PlaneInv => PoolSound
  BY GoodFollows DEF PlaneInv, PoolSound
<1>2. QED
  BY <1>1, PlaneStart, PlaneStep, PTL DEF DataPlaneSpec
====
