---- MODULE ServicesProofs ----
(* The services beside the data plane, for every value of their constants: each part has an inductive    *)
(* invariant of its own, and the services keep the one of the part that the behaviour is of.            *)
EXTENDS Services, FiniteSetTheorems, SequenceTheorems, TLAPS

---------------------------------------------------------------------------
(* The clock *)

\* What makes the clock is the median of the answers; most of them are right.
Backing(asked) == 2 * Cardinality(asked \cap Liars) < Cardinality(asked)

\* With a majority of right servers the median is right: a smaller one would have half of the answers
\* at or below it, a larger one more than half below it, and all of these would be wrong, or right.
LEMMA MedianIsRight ==
  ASSUME NEW asked \in SUBSET NtpServers, NEW a \in Answers(asked), NEW o \in Median(a), Backing(asked)
  PROVE  o = TrueOffset
<1> DEFINE n == Cardinality(asked)
           wrong == asked \cap Liars
           right == asked \ Liars
           below == {s \in DOMAIN a : a[s] < o}
           atMost == {s \in DOMAIN a : a[s] <= o}
<1>1. IsFiniteSet(asked) /\ n \in Nat
  BY TimeConstants, FS_Subset, FS_CardinalityType
<1>2. /\ IsFiniteSet(wrong) /\ Cardinality(wrong) \in Nat
      /\ IsFiniteSet(right) /\ Cardinality(right) \in Nat
  BY <1>1, FS_Subset, FS_CardinalityType
<1>3. Cardinality(right) = n - Cardinality(wrong)
  <2>1. right = asked \ wrong
    OBVIOUS
  <2>2. asked \cap wrong = wrong
    OBVIOUS
  <2>3. QED
    BY <1>1, <2>1, <2>2, FS_Difference
<1>4. DOMAIN a = asked /\ (\A s \in asked : a[s] \in Int) /\ (\A s \in right : a[s] = TrueOffset)
  BY TimeConstants DEF Answers
<1>5. o \in Int /\ Cardinality(below) <= n \div 2 /\ Cardinality(atMost) > n \div 2
  BY <1>4 DEF Median
<1>6. IsFiniteSet(below) /\ IsFiniteSet(atMost) /\ Cardinality(below) \in Nat /\ Cardinality(atMost) \in Nat
  BY <1>1, <1>4, FS_Subset, FS_CardinalityType
<1>7. 2 * Cardinality(wrong) < n
  BY DEF Backing
<1>8. 2 * (n \div 2) <= n /\ n <= 2 * (n \div 2) + 1 /\ n \div 2 \in Nat
  BY <1>1
<1>9. ~(o < TrueOffset)
  <2>1. SUFFICES ASSUME o < TrueOffset PROVE FALSE
    OBVIOUS
  <2>2. atMost \subseteq wrong
    BY TimeConstants, <1>4, <1>5, <2>1
  <2>3. Cardinality(atMost) <= Cardinality(wrong)
    BY <1>2, <2>2, FS_Subset
  <2> HIDE DEF n, wrong, right, below, atMost
  <2>4. QED
    BY <1>1, <1>2, <1>5, <1>6, <1>7, <1>8, <2>3
<1>10. ~(o > TrueOffset)
  <2>1. SUFFICES ASSUME o > TrueOffset PROVE FALSE
    OBVIOUS
  <2>2. right \subseteq below
    BY TimeConstants, <1>4, <1>5, <2>1
  <2>3. Cardinality(right) <= Cardinality(below)
    BY <1>6, <2>2, FS_Subset
  <2> HIDE DEF n, wrong, right, below, atMost
  <2>4. QED
    BY <1>1, <1>2, <1>3, <1>5, <1>6, <1>7, <1>8, <2>3
<1>11. QED
  BY TimeConstants, <1>5, <1>9, <1>10

\* A clock made by a majority of right servers has their offset; times are numbers.
ClockRight ==
  /\ backed => clock.offset = TrueOffset
  /\ ntpNow \in Int /\ clock.success \in Int

\* While the clock is needed its state is told, or a snapshot that says so is under way; what was logged
\* since the need arose was told.
Telling ==
  /\ consumers # {} => told \/ \E r \in reporting : r.snapshot.required
  /\ logged # <<>> => told
  /\ \A r \in reporting : r.snapshot.key # <<>>

TimeInv == TimeTypeOK /\ ClockRight /\ Telling

LEMMA TimeStart == TimeInit => TimeInv
<1> SUFFICES ASSUME TimeInit PROVE TimeInv
  OBVIOUS
<1>1. TimeTypeOK
  <2>1. ntpNow \in 0..MaxNow /\ uses \in 0..MaxUses
    BY TimeConstants DEF TimeInit
  <2>2. QED
    BY <2>1 DEF TimeInit, TimeTypeOK, Syncers
<1>2. ClockRight /\ Telling
  BY DEF TimeInit, ClockRight, Telling, NoState, Never
<1>3. QED
  BY <1>1, <1>2 DEF TimeInv

\* A snapshot is of the moment; its key is a triple.
LEMMA SnapshotFacts == /\ Snapshot.key # <<>> /\ Snapshot.required = (consumers # {})
                       /\ [Snapshot EXCEPT !.required = TRUE].required
                       /\ [Snapshot EXCEPT !.required = TRUE].key # <<>>
  BY DEF Snapshot, Required

\* The clock moves with a check that has come through, and with time.
LEMMA ClockKeeps ==
  ASSUME TimeInv, [TimeNext]_timeVars
  PROVE  ClockRight'
<1>1. CASE Select
  <2>1. PICK asked \in SUBSET NtpServers \ {{}} : \E a \in Answers(asked) : \E o \in Median(a) :
           /\ clock' = [offset |-> o, success |-> ntpNow, failed |-> FALSE]
           /\ backed' = (2 * Cardinality(asked \cap Liars) < Cardinality(asked))
    BY <1>1 DEF Select
  <2>2. backed' => clock'.offset = TrueOffset
    <3>1. SUFFICES ASSUME backed' PROVE clock'.offset = TrueOffset
      OBVIOUS
    <3>2. PICK a \in Answers(asked) : \E o \in Median(a) :
             /\ clock' = [offset |-> o, success |-> ntpNow, failed |-> FALSE]
             /\ backed' = (2 * Cardinality(asked \cap Liars) < Cardinality(asked))
      BY <2>1
    <3>3. PICK o \in Median(a) : /\ clock' = [offset |-> o, success |-> ntpNow, failed |-> FALSE]
                                 /\ backed' = (2 * Cardinality(asked \cap Liars) < Cardinality(asked))
      BY <3>2
    <3>4. Backing(asked)
      BY <3>1, <3>3 DEF Backing
    <3>5. o = TrueOffset
      BY <3>4, MedianIsRight
    <3>6. QED
      BY <3>3, <3>5
  <2>3. ntpNow' = ntpNow /\ clock'.success = ntpNow
    BY <1>1, <2>1 DEF Select
  <2>4. QED
    BY <2>2, <2>3 DEF TimeInv, ClockRight
<1>2. CASE PassTime
  BY <1>2 DEF PassTime, KeepClock, TimeInv, ClockRight
<1>3. CASE UNCHANGED <<ntpNow, clock, backed>>
  BY <1>3 DEF TimeInv, ClockRight
<1>4. QED
  BY <1>1, <1>2, <1>3 DEF TimeNext, Start, Loop, EndLoop, Stop, Abandon, Fail, StoreState, Report, SetUsage,
                          LogIfNeeded, KeepClock, timeVars

\* A report is logged.  What it says may have been logged already, and then it was told.
LEMMA LogKeeps ==
  ASSUME TimeInv, NEW r \in reporting, LogIfNeeded(r)
  PROVE  Telling'
<1>1. reporting' = reporting \ {r} /\ consumers' = consumers
  BY DEF LogIfNeeded
<1>2. CASE r.snapshot.required /\ r.snapshot.key # logged /\ logged' = r.snapshot.key /\ told' = TRUE
  BY <1>1, <1>2 DEF TimeInv, Telling
<1>3. CASE r.snapshot.required /\ r.snapshot.key = logged /\ UNCHANGED <<logged, told>>
  <2>1. told
    BY <1>3 DEF TimeInv, Telling
  <2>2. QED
    BY <1>1, <1>3, <2>1 DEF TimeInv, Telling
<1>4. CASE ~r.snapshot.required /\ UNCHANGED <<logged, told>>
  BY <1>1, <1>4 DEF TimeInv, Telling
<1>5. QED
  BY <1>2, <1>3, <1>4 DEF LogIfNeeded

\* A node comes to need the clock or ceases to: it reports what it sees.
LEMMA UsageKeeps ==
  ASSUME TimeInv, NEW c \in Consumers, NEW required \in BOOLEAN, SetUsage(c, required)
  PROVE  Telling'
<1> DEFINE mine == [by |-> c, snapshot |-> [Snapshot EXCEPT !.required = TRUE]]
           turned == (consumers = {}) # (consumers' = {})
<1>1. mine.snapshot.required /\ mine.snapshot.key # <<>>
  BY SnapshotFacts
<1>2. /\ reporting' = IF consumers' = {} THEN reporting ELSE reporting \cup {mine}
      /\ logged' = IF turned THEN <<>> ELSE logged
      /\ told' = (told /\ ~turned)
  BY DEF SetUsage
<1> HIDE DEF mine
<1>3. consumers' # {} => \E r \in reporting' : r.snapshot.required
  BY <1>1, <1>2
<1>4. logged' # <<>> => told'
  BY <1>2 DEF TimeInv, Telling
<1>5. \A r \in reporting' : r.snapshot.key # <<>>
  BY <1>1, <1>2 DEF TimeInv, Telling
<1>6. QED
  BY <1>3, <1>4, <1>5 DEF Telling

LEMMA TellingKeeps ==
  ASSUME TimeInv, [TimeNext]_timeVars
  PROVE  Telling'
<1>1. CASE Report
  <2> DEFINE mine == [by |-> "check", snapshot |-> Snapshot]
  <2>1. reporting' = reporting \cup {mine} /\ UNCHANGED <<consumers, logged, told>>
    BY <1>1 DEF Report
  <2>2. mine.snapshot.key # <<>>
    BY SnapshotFacts
  <2> HIDE DEF mine
  <2>3. QED
    BY <2>1, <2>2 DEF TimeInv, Telling
<1>2. ASSUME NEW c \in Consumers, SetUsage(c, TRUE) \/ SetUsage(c, FALSE)
      PROVE  Telling'
  BY <1>2, UsageKeeps
<1>3. ASSUME NEW r \in reporting, LogIfNeeded(r)
      PROVE  Telling'
  BY <1>3, LogKeeps
<1>4. CASE UNCHANGED <<consumers, logged, reporting, told>>
  BY <1>4 DEF TimeInv, Telling
<1>5. QED
  BY <1>1, <1>2, <1>3, <1>4 DEF TimeNext, Start, Loop, EndLoop, Stop, Abandon, Fail, Select, StoreState,
                                PassTime, KeepReports, timeVars

LEMMA TimeTypes ==
  ASSUME TimeInv, [TimeNext]_timeVars
  PROVE  TimeTypeOK'
<1>1. CASE Select
  BY <1>1 DEF Select, Go, KeepReports, TimeInv, TimeTypeOK, Syncers
<1>2. CASE Start \/ Loop \/ EndLoop \/ Stop \/ Abandon \/ Fail \/ StoreState
  <2>1. syncer' \in Syncers /\ cancelled' \in BOOLEAN
    BY <1>2 DEF Start, Loop, EndLoop, Stop, Abandon, Fail, StoreState, Go, TimeInv, TimeTypeOK, Syncers
  <2>2. UNCHANGED <<ntpNow, consumers, reporting, told, uses, backed>>
    BY <1>2 DEF Start, Loop, EndLoop, Stop, Abandon, Fail, StoreState, KeepReports, KeepClock
  <2>3. QED
    BY <2>1, <2>2 DEF TimeInv, TimeTypeOK
<1>8. CASE Report
  <2>1. \A r \in reporting' : r \in reporting \/ r.by = "check"
    BY <1>8 DEF Report
  <2>2. syncer' = "logging" /\ UNCHANGED <<ntpNow, cancelled, consumers, told, uses, backed>>
    BY <1>8 DEF Report, Go, KeepClock
  <2>3. QED
    BY <2>1, <2>2 DEF TimeInv, TimeTypeOK, Syncers
<1>3. CASE PassTime
  BY <1>3, TimeConstants DEF PassTime, KeepReports, KeepClock, TimeInv, TimeTypeOK
<1>4. ASSUME NEW c \in Consumers, NEW required \in BOOLEAN, SetUsage(c, required) PROVE TimeTypeOK'
  <2>1. \A r \in reporting' : r \in reporting \/ r.by = c
    BY <1>4 DEF SetUsage
  <2>2. uses' \in 0..MaxUses
    BY <1>4, TimeConstants DEF SetUsage, TimeInv, TimeTypeOK
  <2>3. consumers' \subseteq Consumers /\ told' \in BOOLEAN /\ UNCHANGED <<ntpNow, syncer, cancelled, backed>>
    BY <1>4 DEF SetUsage, KeepClock, TimeInv, TimeTypeOK
  <2>4. QED
    BY <2>1, <2>2, <2>3 DEF TimeInv, TimeTypeOK
<1>5. ASSUME NEW r \in reporting, LogIfNeeded(r) PROVE TimeTypeOK'
  BY <1>5 DEF LogIfNeeded, KeepClock, TimeInv, TimeTypeOK, Syncers
<1>6. CASE UNCHANGED timeVars
  BY <1>6 DEF timeVars, TimeInv, TimeTypeOK
<1>7. QED
  BY <1>1, <1>2, <1>3, <1>4, <1>5, <1>6, <1>8 DEF TimeNext

LEMMA TimeStep == TimeInv /\ [TimeNext]_timeVars => TimeInv'
  BY TimeTypes, ClockKeeps, TellingKeeps DEF TimeInv

\* The invariant says that the clock is right and not old.
LEMMA InvGivesClockTrusted == TimeInv => ClockTrusted
<1> SUFFICES ASSUME TimeInv PROVE ClockTrusted
  OBVIOUS
<1>1. TimeFunc = 0 \/ (TimeFunc = clock.offset /\ ~(ntpNow - clock.success > StaleAfter))
  BY DEF TimeFunc, Expired
<1>2. ntpNow - clock.success \in Int /\ StaleAfter \in Int
  BY TimeConstants DEF TimeInv, ClockRight, StaleAfter
<1>3. QED
  BY <1>1, <1>2 DEF ClockTrusted, TimeInv, ClockRight

---------------------------------------------------------------------------
(* Certificates *)

\* Two halves, and two halves of one pair, or none.
Paired(p) == p = [cert |-> p.cert, key |-> p.key]
Twinned(p) == p = [cert |-> p.cert, key |-> p.cert]

\* ACME runs for the configuration c: it is what c asks for, and its provider is a known one.
RunsFor(c) ==
  ResolveMode(c) \in {"http", "dns"} /\ acme.fingerprint = AcmeFingerprint(c) /\ NewDNSProvider(c)

\* Both writers hold what they write, and the service waits where its methods leave it.
Serving == {"idle", "start", "store", "cert", "key", "stored", "return", "failed", "reload"}
Renewing == {"idle", "load", "store", "cert", "key", "stored"}
Written ==
  /\ writer = [w \in Writers |-> [at |-> writer[w].at, pair |-> writer[w].pair]]
  /\ writer["service"].at \in Serving /\ writer["renewal"].at \in Renewing
  /\ \A w \in Writers : Twinned(writer[w].pair)
  /\ Twinned(mat) /\ Twinned(loaded) /\ Paired(certDisk)

\* While ACME runs it runs for the configuration the service is applying or, between two, for the one
\* the kernel was last started with; it does not run while its first certificate is being stored, and
\* not when the certificate could not be applied.
AcmeFollows ==
  /\ writer["service"].at \in {"start", "return"} => (acme.started => RunsFor(certCfg))
  /\ writer["service"].at \in {"idle", "reload"} => (acme.started => RunsFor(running))
  /\ writer["service"].at \in {"store", "cert", "key", "stored", "failed"} => ~acme.started
  /\ writer["service"].at \in {"store", "cert", "key", "stored"} => NewDNSProvider(certCfg)

\* The renewal flag is up or will be.
Flagged == renewed \/ writer["renewal"].at \in {"cert", "key", "stored"}

\* The material the kernel runs with is that in memory, nothing, or about to be replaced; while the
\* service applies a configuration, it is that which was in memory before.
Material ==
  /\ writer["service"].at = "idle" => Flagged \/ loaded = mat \/ loaded = NoPair
  /\ writer["service"].at \notin {"idle", "reload"}
       => Flagged \/ loaded = oldTLS \/ loaded = NoPair \/ running # certCfg

\* Every renewal was paid for.
Numbered ==
  /\ certBudget.renewals \in 0..MaxRenewals /\ "renewals" \in DOMAIN certBudget
  /\ storage \in [Domains -> Nat] /\ \A d \in Domains : storage[d] <= MaxRenewals + 1 - certBudget.renewals

CertInv ==
  /\ CertTypeOK /\ Written /\ AcmeFollows /\ Material /\ Numbered

LEMMA CertSoundly == CertInv => CertTypeOK /\ PairsMatch /\ KernelCurrent
<1> SUFFICES ASSUME CertInv PROVE PairsMatch /\ KernelCurrent
  BY DEF CertInv
<1>1. PairsMatch
  BY DEF CertInv, Written, Twinned, Paired, PairsMatch
<1>2. KernelCurrent
  BY DEF CertInv, Material, Flagged, KernelCurrent, Hold
<1>3. QED
  BY <1>1, <1>2

LEMMA CertStart == CertInit => CertInv
<1> SUFFICES ASSUME CertInit PROVE CertInv
  OBVIOUS
<1>1. Written
  BY DEF CertInit, Written, Twinned, Paired, Writers, Resting, NoPair, None, Serving, Renewing
<1>2. AcmeFollows /\ Material
  BY DEF CertInit, AcmeFollows, Material, Flagged, Writers, Resting, NoACME
<1>3. Numbered
  BY CertConstants DEF CertInit, Numbered
<1>4. CertTypeOK
  <2>1. storage \in [Domains -> 0..MaxRenewals + 1]
    BY CertConstants DEF CertInit
  <2>2. QED
    BY <2>1 DEF CertInit, CertTypeOK, Writers, Resting, NoPair, NoACME, Stages
<1>5. QED
  BY <1>1, <1>2, <1>3, <1>4 DEF CertInv

\* A writer moves on.
LEMMA Moves ==
  ASSUME Written, NEW w \in Writers, NEW at, NEW pair, To(w, at, pair)
  PROVE  /\ writer' = [v \in Writers |-> [at |-> writer'[v].at, pair |-> writer'[v].pair]]
         /\ writer'[w].at = at /\ writer'[w].pair = pair
         /\ \A v \in Writers \ {w} : writer'[v].at = writer[v].at /\ writer'[v].pair = writer[v].pair
<1>1. writer' = [v \in Writers |-> IF v = w THEN [at |-> at, pair |-> pair] ELSE [at |-> writer[v].at, pair |-> writer[v].pair]]
  BY DEF To, Written
<1>2. QED
  BY <1>1

\* What a budget says after something was spent on another matter, or on this one.
LEMMA Spent ==
  ASSUME Numbered, NEW what, Spend(what)
  PROVE  /\ what # "renewals" => certBudget'.renewals = certBudget.renewals
         /\ what = "renewals" => certBudget.renewals > 0 /\ certBudget'.renewals = certBudget.renewals - 1
         /\ "renewals" \in DOMAIN certBudget'
  BY DEF Numbered, Spend

\* Typing once the parts of the state that are written in one place are known.
LEMMA TypedByParts ==
  ASSUME Written', Numbered', certCfg' \in CertConfigs, running' \in CertConfigs, files' \in FilePairs, renewed' \in BOOLEAN,
         acme'.started \in BOOLEAN
  PROVE  CertTypeOK'
<1>1. storage' \in [Domains -> 0..MaxRenewals + 1]
  BY CertConstants DEF Numbered
<1>2. \A w \in Writers : writer'[w].at \in Stages
  BY DEF Written, Serving, Renewing, Writers, Stages
<1>3. DOMAIN mat' = {"cert", "key"} /\ DOMAIN loaded' = {"cert", "key"} /\ DOMAIN certDisk' = {"cert", "key"}
  BY DEF Written, Twinned, Paired, Paired
<1>4. QED
  BY <1>1, <1>2, <1>3 DEF CertTypeOK

LEMMA Unspent ==
  ASSUME Numbered, UNCHANGED storage, UNCHANGED certBudget \/ \E what \in {"reconfigures", "troubles", "selves"} : Spend(what)
  PROVE  Numbered'
<1>1. CASE UNCHANGED certBudget
  BY <1>1 DEF Numbered
<1>2. ASSUME NEW what \in {"reconfigures", "troubles", "selves"}, Spend(what) PROVE Numbered'
  <2>1. certBudget'.renewals = certBudget.renewals /\ "renewals" \in DOMAIN certBudget'
    BY <1>2, Spent
  <2>2. QED
    BY <2>1 DEF Numbered
<1>3. QED
  BY <1>1, <1>2

\* The service goes on with the configuration it applies.
LEMMA ServiceOn ==
  ASSUME CertInv, writer["service"].at \notin {"idle", "reload"},
         NEW at \in {"store", "cert", "key", "stored", "return", "failed"}, NEW pair, To("service", at, pair), Twinned(pair),
         UNCHANGED <<certCfg, running, files, renewed, oldTLS, loaded>>, Twinned(mat'), Paired(certDisk'),
         Numbered', acme'.started \in BOOLEAN,
         at = "return" => (acme'.started => RunsFor(certCfg)'),
         at # "return" => ~acme'.started, at \in {"store", "cert", "key", "stored"} => NewDNSProvider(certCfg)
  PROVE  CertInv'
<1>1. /\ writer' = [v \in Writers |-> [at |-> writer'[v].at, pair |-> writer'[v].pair]]
      /\ writer'["service"].at = at /\ writer'["service"].pair = pair
      /\ writer'["renewal"].at = writer["renewal"].at /\ writer'["renewal"].pair = writer["renewal"].pair
  BY Moves DEF CertInv, Writers
<1>2. Written'
  BY <1>1 DEF CertInv, Written, Twinned, Paired, Writers, Serving
<1>3. AcmeFollows'
  BY <1>1 DEF AcmeFollows, NewDNSProvider
<1>4. Material'
  BY <1>1 DEF CertInv, Material, Flagged
<1>5. CertTypeOK'
  BY <1>2, TypedByParts DEF CertInv, CertTypeOK
<1>6. QED
  BY <1>2, <1>3, <1>4, <1>5 DEF CertInv

\* The renewal's goroutine goes on; material it puts into memory is followed by the flag.
LEMMA RenewalOn ==
  ASSUME CertInv, NEW at \in Renewing, NEW pair, To("renewal", at, pair), Twinned(pair),
         UNCHANGED <<certCfg, running, files, acme, oldTLS, loaded>>, Twinned(mat'), Paired(certDisk'),
         Numbered', renewed' \in BOOLEAN,
         Flagged => Flagged', mat' = mat \/ Flagged'
  PROVE  CertInv'
<1>1. /\ writer' = [v \in Writers |-> [at |-> writer'[v].at, pair |-> writer'[v].pair]]
      /\ writer'["renewal"].at = at /\ writer'["renewal"].pair = pair
      /\ writer'["service"].at = writer["service"].at /\ writer'["service"].pair = writer["service"].pair
  BY Moves DEF CertInv, Writers
<1>2. Written'
  BY <1>1 DEF CertInv, Written, Twinned, Paired, Writers, Renewing
<1>3. AcmeFollows'
  BY <1>1 DEF CertInv, AcmeFollows, RunsFor, NewDNSProvider
<1>4. Material'
  BY <1>1 DEF CertInv, Material
<1>5. CertTypeOK'
  BY <1>2, TypedByParts DEF CertInv, CertTypeOK
<1>6. QED
  BY <1>2, <1>3, <1>4, <1>5 DEF CertInv

---------------------------------------------------------------------------
\* A mode and the known provider can be told from the fingerprint.
LEMMA FingerprintTells ==
  ASSUME NEW c, NEW d, AcmeFingerprint(c) = AcmeFingerprint(d), NewDNSProvider(d)
  PROVE  NewDNSProvider(c)
<1>1. c.mode = d.mode /\ c.provider = d.provider
  BY DEF AcmeFingerprint
<1>2. ResolveMode(c) = "dns" => ResolveMode(d) = "dns"
  BY <1>1 DEF ResolveMode
<1>3. QED
  BY <1>1, <1>2 DEF NewDNSProvider

LEMMA ReconfigureKeeps == ASSUME CertInv, NEW c \in CertConfigs, Reconfigure(c) PROVE CertInv'
<1>1. /\ writer["service"].at = "idle" /\ certCfg' = c /\ oldTLS' = mat' /\ To("service", "start", NoPair)
      /\ acme' = (IF Stale(c) THEN NoACME ELSE acme) /\ mat' = (IF Stale(c) THEN NoPair ELSE mat)
      /\ UNCHANGED <<running, certDisk, files, storage, renewed, loaded>> /\ Spend("reconfigures")
  BY DEF Reconfigure, Hold
<1>2. /\ writer' = [v \in Writers |-> [at |-> writer'[v].at, pair |-> writer'[v].pair]]
      /\ writer'["service"].at = "start" /\ writer'["service"].pair = NoPair
      /\ writer'["renewal"].at = writer["renewal"].at /\ writer'["renewal"].pair = writer["renewal"].pair
  BY <1>1, Moves DEF CertInv, Writers
<1>3. Twinned(NoPair)
  BY DEF Twinned, NoPair, None
<1>4. Written'
  BY <1>1, <1>2, <1>3 DEF CertInv, Written, Twinned, Paired, Writers, Serving
<1>5. acme.started => RunsFor(running)
  BY <1>1 DEF CertInv, AcmeFollows
<1>6. ASSUME acme'.started PROVE RunsFor(c)'
  <2>1. ~Stale(c) /\ acme' = acme
    BY <1>1, <1>6 DEF NoACME
  <2>2. ResolveMode(c) \in {"http", "dns"} /\ AcmeFingerprint(c) = acme.fingerprint
    BY <1>6, <2>1 DEF Stale
  <2>3. NewDNSProvider(c)
    BY <1>5, <1>6, <2>1, <2>2, FingerprintTells DEF RunsFor
  <2>4. QED
    BY <2>1, <2>2, <2>3 DEF RunsFor
<1>7. AcmeFollows'
  BY <1>1, <1>2, <1>6 DEF AcmeFollows, RunsFor
<1>8. Material'
  <2>1. CASE Stale(c)
    <3>1. running # c
      BY <1>5, <2>1 DEF Stale, RunsFor
    <3>2. QED
      BY <1>1, <1>2, <3>1 DEF Material
  <2>2. CASE ~Stale(c)
    BY <1>1, <1>2, <2>2 DEF CertInv, Material, Flagged
  <2>3. QED
    BY <2>1, <2>2
<1>9. Numbered'
  BY <1>1, Unspent DEF CertInv
<1>10. CertTypeOK'
  BY <1>1, <1>4, <1>9, TypedByParts DEF CertInv, CertTypeOK, NoACME
<1>11. QED
  BY <1>4, <1>7, <1>8, <1>9, <1>10 DEF CertInv

\* While the service starts in another mode ACME does not run.
LEMMA NoACMEElsewhere ==
  ASSUME CertInv, writer["service"].at = "start", ResolveMode(certCfg) \notin {"http", "dns"}
  PROVE  ~acme.started
  BY DEF CertInv, AcmeFollows, RunsFor

LEMMA StartKeeps == ASSUME CertInv, StartNone \/ StartFile \/ StartSelfSigned \/ StartContent PROVE CertInv'
<1>1. /\ writer["service"].at = "start" /\ UNCHANGED <<certCfg, running, certDisk, files, storage, acme, renewed, oldTLS, loaded>>
      /\ ResolveMode(certCfg) \notin {"http", "dns"}
  BY DEF StartNone, StartFile, StartSelfSigned, StartContent, Starting, Hold, KeepCert
<1>2. ~acme.started /\ ~acme'.started
  BY <1>1, NoACMEElsewhere
<1>3. /\ Numbered'
      /\ Twinned(mat') /\ Paired(certDisk') /\ acme'.started \in BOOLEAN
  <2>1. UNCHANGED certBudget \/ \E what \in {"reconfigures", "troubles", "selves"} : Spend(what)
    BY DEF StartNone, StartFile, StartSelfSigned, StartContent, LoadPersistedPEM
  <2>2. mat' = mat \/ (mat' = certDisk /\ ValidateKeyPair(certDisk))
    BY DEF StartNone, StartFile, StartSelfSigned, StartContent, LoadPersistedPEM
  <2>3. Twinned(mat) /\ Paired(certDisk)
    BY DEF CertInv, Written
  <2>4. QED
    BY <1>1, <2>1, <2>2, <2>3, Unspent DEF CertInv, CertTypeOK, Twinned, Paired, ValidateKeyPair
<1>4. ASSUME NEW p \in FilePairs \cup {c.content : c \in CertConfigs}, ValidateKeyPair(p) PROVE Twinned(p)
  BY <1>4, CertConstants DEF ValidateKeyPair, Twinned
<1>5. \A n : Twinned(Twin(n))
  BY DEF Twin, Twinned
<1>6. Twinned(writer["service"].pair) /\ files \in FilePairs /\ certCfg \in CertConfigs
  BY DEF CertInv, Written, Writers, CertTypeOK
<1>7. PICK at, pair : at \in {"store", "return", "failed"} /\ To("service", at, pair) /\ Twinned(pair)
  <2>1. CASE Step("service", "return") \/ Step("service", "failed")
    BY <1>6, <2>1 DEF Step
  <2>2. ASSUME NEW p, Twinned(p), StoreNext(p)
        PROVE  \E at, pair : at \in {"store", "return", "failed"} /\ To("service", at, pair) /\ Twinned(pair)
    BY <2>2 DEF StoreNext
  <2>3. ASSUME NEW p \in FilePairs \cup {c.content : c \in CertConfigs}, ValidateKeyPair(p), StoreNext(p)
        PROVE  \E at, pair : at \in {"store", "return", "failed"} /\ To("service", at, pair) /\ Twinned(pair)
    BY <1>4, <2>2, <2>3
  <2>4. CASE StartNone
    BY <2>1, <2>4 DEF StartNone
  <2>5. CASE StartFile
    BY <1>6, <2>1, <2>3, <2>5 DEF StartFile, Fails
  <2>6. CASE StartSelfSigned
    BY <1>5, <2>1, <2>2, <2>6 DEF StartSelfSigned, LoadPersistedPEM
  <2>7. CASE StartContent
    BY <1>6, <2>1, <2>3, <2>7 DEF StartContent, LoadPersistedPEM, Fails
  <2>8. QED
    BY <2>4, <2>5, <2>6, <2>7
<1>8. NewDNSProvider(certCfg)
  BY <1>1 DEF NewDNSProvider
<1>9. QED
  BY <1>1, <1>2, <1>3, <1>7, <1>8, ServiceOn

LEMMA StartACMEKeeps == ASSUME CertInv, StartACME PROVE CertInv'
<1>1. /\ writer["service"].at = "start" /\ ResolveMode(certCfg) \in {"http", "dns"} /\ certCfg \in CertConfigs
      /\ UNCHANGED <<certCfg, running, certDisk, files, mat, acme, renewed, oldTLS, loaded>>
      /\ acme.started => RunsFor(certCfg)
      /\ Twinned(writer["service"].pair) /\ Twinned(mat) /\ Paired(certDisk) /\ acme.started \in BOOLEAN
  BY DEF StartACME, Starting, Hold, KeepCert, CertInv, AcmeFollows, Written, CertTypeOK, Writers
<1>2. CASE /\ acme.started /\ Step("service", "return") /\ UNCHANGED <<storage, certBudget>>
  <2>1. Numbered'
    BY <1>2, Unspent DEF CertInv
  <2>2. RunsFor(certCfg)'
    BY <1>1, <1>2 DEF RunsFor
  <2>3. QED
    BY <1>1, <1>2, <2>1, <2>2, ServiceOn DEF Step
<1>3. CASE ~acme.started /\ Fails /\ UNCHANGED storage /\ (UNCHANGED certBudget \/ Spend("troubles"))
  <2>1. Numbered'
    BY <1>3, Unspent DEF CertInv
  <2>2. QED
    BY <1>1, <1>3, <2>1, ServiceOn DEF Step, Fails
<1>4. CASE /\ ~acme.started /\ NewDNSProvider(certCfg) /\ certCfg.domain # "" /\ ObtainCertSync(certCfg.domain) /\ UNCHANGED certBudget
           /\ StoreNext(Twin(AcmeHalf(certCfg.domain, storage'[certCfg.domain])))
  <2>1. certCfg.domain \in Domains
    BY <1>1, <1>4 DEF Domains
  <2>2. Numbered'
    <3>1. storage' \in [Domains -> Nat] /\ \A d \in Domains : storage'[d] = storage[d] \/ storage'[d] = 1
      BY <1>4, <2>1 DEF ObtainCertSync, CertInv, Numbered
    <3>2. /\ certBudget.renewals \in 0..MaxRenewals /\ "renewals" \in DOMAIN certBudget /\ certBudget' = certBudget
          /\ \A d \in Domains : storage[d] <= MaxRenewals + 1 - certBudget.renewals
      BY <1>4 DEF CertInv, Numbered
    <3>3. 1 <= MaxRenewals + 1 - certBudget.renewals
      BY <3>2, CertConstants
    <3>4. \A d \in Domains : storage'[d] <= MaxRenewals + 1 - certBudget.renewals
      BY <3>1, <3>2, <3>3
    <3>5. QED
      BY <3>1, <3>2, <3>4 DEF Numbered
  <2>3. \A h : Twinned(Twin(h))
    BY DEF Twin, Twinned
  <2>4. QED
    BY <1>1, <1>4, <2>2, <2>3, ServiceOn DEF StoreNext
<1>5. QED
  <2>1. ASSUME ~NewDNSProvider(certCfg) \/ (~acme.started /\ certCfg.domain = "") PROVE ~acme.started
    BY <1>1, <2>1 DEF RunsFor
  <2>2. QED
    BY <1>2, <1>3, <1>4, <2>1 DEF StartACME

\* storePEM: both writers store halves of one pair in memory, and any half on disk.
LEMMA StoreMemoryKeeps == ASSUME CertInv, NEW w \in Writers, StoreMemory(w) PROVE CertInv'
<1>1. /\ writer[w].at = "store" /\ mat' = writer[w].pair /\ To(w, "cert", writer[w].pair)
      /\ UNCHANGED <<certCfg, running, certDisk, files, storage, acme, renewed, oldTLS, loaded, certBudget>>
  BY DEF StoreMemory, Hold, Step
<1>2. Twinned(writer[w].pair) /\ Paired(certDisk) /\ renewed \in BOOLEAN /\ acme.started \in BOOLEAN
  BY DEF CertInv, Written, CertTypeOK
<1>3. Numbered'
  BY <1>1, Unspent DEF CertInv
<1>4. CASE w = "service"
  <2>1. ~acme.started /\ NewDNSProvider(certCfg)
    BY <1>1, <1>4 DEF CertInv, AcmeFollows
  <2>2. QED
    BY <1>1, <1>2, <1>3, <1>4, <2>1, ServiceOn
<1>5. CASE w = "renewal"
  <2>1. Flagged'
    BY <1>1, <1>5, Moves DEF CertInv, Flagged
  <2>2. QED
    BY <1>1, <1>2, <1>3, <1>5, <2>1, RenewalOn DEF Renewing
<1>6. QED
  BY <1>4, <1>5 DEF Writers

LEMMA PersistPEMKeeps == ASSUME CertInv, NEW w \in Writers, PersistPEM(w) PROVE CertInv'
<1>1. PICK half \in {"cert", "key"} : writer[w].at = half /\ AtomicWriteFile(w, half) /\ To(w, IF half = "cert" THEN "key" ELSE "stored", writer[w].pair)
  BY DEF PersistPEM, Hold, Step
<1>2. UNCHANGED <<certCfg, running, mat, files, storage, acme, renewed, oldTLS, loaded>>
  BY DEF PersistPEM
<1>3. Twinned(writer[w].pair) /\ Paired(certDisk) /\ Twinned(mat) /\ renewed \in BOOLEAN /\ acme.started \in BOOLEAN
  BY DEF CertInv, Written, CertTypeOK
<1>4. Paired(certDisk')
  <2>1. certDisk' = certDisk \/ \E x : certDisk' = [certDisk EXCEPT ![half] = x]
    BY <1>1 DEF AtomicWriteFile
  <2>2. ASSUME NEW x, certDisk' = [certDisk EXCEPT ![half] = x] PROVE Paired(certDisk')
    BY <1>3, <2>2 DEF Paired
  <2>3. QED
    BY <1>3, <2>1, <2>2
<1>5. Numbered'
  BY <1>1, <1>2, Unspent DEF CertInv, AtomicWriteFile
<1>6. CASE w = "service"
  <2>1. ~acme.started /\ NewDNSProvider(certCfg) /\ writer["service"].at \in {"cert", "key"}
    BY <1>1, <1>6 DEF CertInv, AcmeFollows
  <2>2. QED
    BY <1>1, <1>2, <1>3, <1>4, <1>5, <1>6, <2>1, ServiceOn
<1>7. CASE w = "renewal"
  <2>1. Flagged'
    BY <1>1, <1>7, Moves DEF CertInv, Flagged
  <2>2. QED
    BY <1>1, <1>2, <1>3, <1>4, <1>5, <1>7, <2>1, RenewalOn DEF Renewing
<1>8. QED
  BY <1>6, <1>7 DEF Writers

LEMMA StoredKeeps == ASSUME CertInv, Stored PROVE CertInv'
<1>1. /\ writer["service"].at = "stored" /\ UNCHANGED <<certCfg, running, certDisk, files, mat, storage, renewed, oldTLS, loaded>>
      /\ Twinned(writer["service"].pair) /\ Twinned(mat) /\ Paired(certDisk) /\ ~acme.started
      /\ NewDNSProvider(certCfg) /\ acme.started \in BOOLEAN
  BY DEF Stored, Hold, KeepCert, CertInv, Written, Writers, AcmeFollows, CertTypeOK
<1>2. Numbered'
  BY <1>1, Unspent DEF CertInv, Stored
<1>3. CASE /\ ResolveMode(certCfg) \in {"http", "dns"}
           /\ acme' = [started |-> TRUE, fingerprint |-> AcmeFingerprint(certCfg)] /\ Step("service", "return")
  <2>1. RunsFor(certCfg)'
    BY <1>1, <1>3 DEF RunsFor
  <2>2. QED
    BY <1>1, <1>2, <1>3, <2>1, ServiceOn DEF Step
<1>4. CASE UNCHANGED acme /\ (Fails \/ Step("service", "return"))
  BY <1>1, <1>2, <1>4, ServiceOn DEF Step, Fails
<1>5. QED
  BY <1>3, <1>4 DEF Stored

\* The kernel is restarted with the material of the moment unless neither it nor the configuration changed.
LEMMA ApplyNodeCertKeeps == ASSUME CertInv, ApplyNodeCert PROVE CertInv'
<1>1. /\ UNCHANGED <<certCfg, mat, certDisk, files, storage, acme, renewed, oldTLS, certBudget>>
      /\ To("service", "idle", NoPair) /\ Twinned(NoPair)
  BY DEF ApplyNodeCert, Twinned, NoPair, None
<1>2. /\ writer' = [v \in Writers |-> [at |-> writer'[v].at, pair |-> writer'[v].pair]]
      /\ writer'["service"].at = "idle" /\ writer'["service"].pair = NoPair
      /\ writer'["renewal"].at = writer["renewal"].at /\ writer'["renewal"].pair = writer["renewal"].pair
  BY <1>1, Moves DEF CertInv, Writers
<1>3. Numbered'
  BY <1>1, Unspent DEF CertInv
<1>4. CASE /\ writer["service"].at = "return" /\ running' = certCfg
           /\ loaded' = (IF oldTLS # mat \/ running # certCfg THEN mat ELSE loaded)
  <2>1. Written'
    BY <1>1, <1>2, <1>4 DEF CertInv, Written, Twinned, Paired, Writers, Serving
  <2>2. AcmeFollows'
    BY <1>1, <1>2, <1>4 DEF CertInv, AcmeFollows, RunsFor, NewDNSProvider
  <2>3. Material'
    BY <1>1, <1>2, <1>4 DEF CertInv, Material, Flagged
  <2>4. CertTypeOK'
    BY <1>1, <1>3, <1>4, <2>1, TypedByParts DEF CertInv, CertTypeOK
  <2>5. QED
    BY <1>3, <2>1, <2>2, <2>3, <2>4 DEF CertInv
<1>5. CASE writer["service"].at = "failed" /\ loaded' = NoPair /\ UNCHANGED running
  <2>1. Written'
    BY <1>1, <1>2, <1>5 DEF CertInv, Written, Twinned, Paired, Writers, Serving
  <2>2. AcmeFollows'
    BY <1>1, <1>2, <1>5 DEF CertInv, AcmeFollows
  <2>3. Material'
    BY <1>1, <1>2, <1>5 DEF Material
  <2>4. CertTypeOK'
    BY <1>1, <1>3, <1>5, <2>1, TypedByParts DEF CertInv, CertTypeOK
  <2>5. QED
    BY <1>3, <2>1, <2>2, <2>3, <2>4 DEF CertInv
<1>6. QED
  BY <1>4, <1>5 DEF ApplyNodeCert, Hold

LEMMA RenewKeeps == ASSUME CertInv, Renew PROVE CertInv'
<1>1. /\ writer["renewal"].at = "idle" /\ To("renewal", "load", NoPair) /\ Spend("renewals") /\ Twinned(NoPair)
      /\ UNCHANGED <<certCfg, running, mat, certDisk, files, acme, renewed, oldTLS, loaded>>
  BY DEF Renew, Hold, Twinned, NoPair, None
<1>2. PICK d \in Domains : storage' = [storage EXCEPT ![d] = @ + 1]
  BY DEF Renew
<1>3. certBudget.renewals > 0 /\ certBudget'.renewals = certBudget.renewals - 1 /\ "renewals" \in DOMAIN certBudget'
  BY <1>1, Spent DEF CertInv
<1>4. Numbered'
  <2>1. certBudget.renewals \in 0..MaxRenewals /\ storage \in [Domains -> Nat]
        /\ \A e \in Domains : storage[e] <= MaxRenewals + 1 - certBudget.renewals
    BY DEF CertInv, Numbered
  <2>2. storage' \in [Domains -> Nat] /\ \A e \in Domains : storage'[e] <= storage[e] + 1
    BY <1>2, <2>1
  <2>3. certBudget'.renewals \in 0..MaxRenewals
    BY <1>3, <2>1, CertConstants
  <2>4. \A e \in Domains : storage'[e] <= MaxRenewals + 1 - certBudget'.renewals
    BY <1>3, <2>1, <2>2, CertConstants
  <2>5. QED
    BY <1>3, <2>2, <2>3, <2>4 DEF Numbered
<1>5. Twinned(mat) /\ Paired(certDisk) /\ renewed \in BOOLEAN
  BY DEF CertInv, Written, CertTypeOK
<1>6. Flagged => Flagged'
  BY <1>1, Moves DEF CertInv, Flagged
<1>7. QED
  BY <1>1, <1>4, <1>5, <1>6, RenewalOn DEF Renewing

LEMMA RenewalKeeps == ASSUME CertInv, LoadPEMFromStorage \/ FlagRenewed PROVE CertInv'
<1>1. UNCHANGED <<certCfg, running, mat, certDisk, files, storage, acme, oldTLS, loaded>>
  BY DEF LoadPEMFromStorage, FlagRenewed
<1>2. Twinned(mat) /\ Paired(certDisk) /\ renewed \in BOOLEAN
  BY DEF CertInv, Written, CertTypeOK
<1>3. Twinned(NoPair) /\ \A h : Twinned(Twin(h))
  BY DEF Twinned, NoPair, None, Twin
<1>4. Numbered'
  BY <1>1, Unspent DEF CertInv, LoadPEMFromStorage, FlagRenewed
<1>5. CASE LoadPEMFromStorage
  <2>1. PICK at, pair : at \in {"store", "idle"} /\ To("renewal", at, pair) /\ Twinned(pair)
    BY <1>3, <1>5 DEF LoadPEMFromStorage
  <2>2. writer["renewal"].at = "load" /\ renewed' = renewed
    BY <1>5 DEF LoadPEMFromStorage, Hold
  <2>3. Flagged => Flagged'
    BY <2>2 DEF Flagged
  <2>4. QED
    BY <1>1, <1>2, <1>4, <2>1, <2>2, <2>3, RenewalOn DEF Renewing
<1>6. CASE FlagRenewed
  <2>1. To("renewal", "idle", NoPair) /\ renewed' = TRUE
    BY <1>6 DEF FlagRenewed
  <2>2. Flagged'
    BY <2>1 DEF Flagged
  <2>3. QED
    BY <1>1, <1>2, <1>3, <1>4, <2>1, <2>2, RenewalOn DEF Renewing
<1>7. QED
  BY <1>5, <1>6

\* The service takes the flag; until it has reloaded the kernel nothing is promised.
LEMMA CertRenewedKeeps == ASSUME CertInv, CertRenewed \/ ReloadKernel PROVE CertInv'
<1>1. /\ UNCHANGED <<certCfg, running, mat, certDisk, files, storage, acme, oldTLS, certBudget>>
      /\ writer["service"].at \in {"idle", "reload"}
  BY DEF CertRenewed, ReloadKernel, Hold
<1>2. PICK at \in {"idle", "reload"} : /\ To("service", at, NoPair) /\ loaded' \in {loaded, mat} /\ renewed' \in {renewed, FALSE}
                                       /\ at = "idle" => loaded' = mat
  BY DEF CertRenewed, ReloadKernel
<1>3. /\ writer' = [v \in Writers |-> [at |-> writer'[v].at, pair |-> writer'[v].pair]]
      /\ writer'["service"].at = at /\ writer'["service"].pair = NoPair
      /\ writer'["renewal"].at = writer["renewal"].at /\ writer'["renewal"].pair = writer["renewal"].pair
  BY <1>2, Moves DEF CertInv, Writers
<1>4. Twinned(NoPair)
  BY DEF Twinned, NoPair, None
<1>5. Written'
  BY <1>1, <1>2, <1>3, <1>4 DEF CertInv, Written, Twinned, Paired, Writers, Serving
<1>6. AcmeFollows'
  BY <1>1, <1>3 DEF CertInv, AcmeFollows, RunsFor
<1>7. Material'
  BY <1>1, <1>2, <1>3 DEF Material
<1>8. Numbered'
  BY <1>1, Unspent DEF CertInv
<1>9. CertTypeOK'
  BY <1>1, <1>2, <1>5, <1>8, TypedByParts DEF CertInv, CertTypeOK
<1>10. QED
  BY <1>5, <1>6, <1>7, <1>8, <1>9 DEF CertInv

LEMMA CrashCertKeeps == ASSUME CertInv, CrashCert PROVE CertInv'
<1>1. /\ mat' = NoPair /\ loaded' = NoPair /\ oldTLS' = NoPair /\ acme' = NoACME /\ renewed' = FALSE
      /\ writer' = [w \in Writers |-> Resting] /\ UNCHANGED <<certCfg, running, certDisk, files, storage>> /\ Spend("troubles")
  BY DEF CrashCert
<1>2. Written'
  BY <1>1 DEF CertInv, Written, Twinned, Paired, Writers, Resting, NoPair, None, Serving, Renewing
<1>3. AcmeFollows' /\ Material'
  BY <1>1 DEF AcmeFollows, Material, Flagged, Writers, Resting, NoACME
<1>4. Numbered'
  BY <1>1, Unspent DEF CertInv
<1>5. CertTypeOK'
  BY <1>1, <1>2, <1>4, TypedByParts DEF CertInv, CertTypeOK, NoACME
<1>6. QED
  BY <1>2, <1>3, <1>4, <1>5 DEF CertInv

LEMMA EditFilesKeeps == ASSUME CertInv, EditFiles \/ UNCHANGED certVars PROVE CertInv'
<1>1. /\ UNCHANGED <<certCfg, running, mat, certDisk, storage, acme, renewed, writer, oldTLS, loaded>> /\ files' \in FilePairs
      /\ UNCHANGED certBudget \/ Spend("troubles")
  BY DEF EditFiles, certVars, CertInv, CertTypeOK
<1>2. Numbered'
  BY <1>1, Unspent DEF CertInv
<1>3. Written' /\ Material'
  BY <1>1 DEF CertInv, Written, Twinned, Paired, Material, Flagged
<1>4. AcmeFollows'
  BY <1>1 DEF CertInv, AcmeFollows, RunsFor, NewDNSProvider
<1>5. CertTypeOK'
  BY <1>1, <1>2, <1>3, TypedByParts DEF CertInv, CertTypeOK
<1>6. QED
  BY <1>2, <1>3, <1>4, <1>5 DEF CertInv

LEMMA CertStep == CertInv /\ [CertNext]_certVars => CertInv'
BY ReconfigureKeeps, StartKeeps, StartACMEKeeps, StoreMemoryKeeps, PersistPEMKeeps, StoredKeeps, ApplyNodeCertKeeps, RenewKeeps,
   RenewalKeeps, CertRenewedKeeps, CrashCertKeeps, EditFilesKeeps DEF CertNext

---------------------------------------------------------------------------
(* The administration command *)

\* The steps of a command that changes bindings, of an upgrade once the new programs are there, and of
\* an uninstallation.
Configuring == {"config", "credentials", "meta", "service"}
Replacing == {"link", "node", "cli", "restart", "undo cli", "undo node", "clean"}
Uninstalling == {"stop", "remove"}
Upgrading == {"download"} \cup Replacing

Rooted(root) ==
  /\ root = [shared |-> root.shared, top |-> root.top, instances |-> root.instances]
  /\ Ids(root.top) \subseteq Names /\ Ids(root.instances) \subseteq Names
FilesTyped ==
  /\ Rooted(confFile)
  /\ metaFile = [ids |-> metaFile.ids, version |-> metaFile.version]
  /\ metaFile.ids \subseteq Names /\ metaFile.version \in Versions
  /\ credFile \subseteq Names /\ given \subseteq Names /\ left \subseteq Names
UnitTyped ==
  /\ unit = [manager |-> unit.manager, file |-> unit.file, running |-> unit.running, ids |-> unit.ids, version |-> unit.version]
  /\ unit.manager \in Managers /\ unit.version \in Versions
BinsTyped ==
  /\ stage = [kept |-> stage.kept, staged |-> stage.staged, backup |-> stage.backup]
  /\ bins \in [Programs -> Versions] /\ previous \in [Programs -> Versions]
  /\ stage.staged \in [Programs -> Versions] /\ stage.backup \in [Programs -> Versions]
\* What a command carries: one that changes bindings names one of them, one that upgrades a version.
CommandTyped ==
  /\ cmd = [at |-> cmd.at, what |-> cmd.what, id |-> cmd.id, root |-> cmd.root, token |-> cmd.token,
            version |-> cmd.version, again |-> cmd.again]
  /\ cmd.version \in Versions /\ Rooted(cmd.root)
  /\ cmd.at = "config" => cmd.what \in {"add", "remove", "kernel"}
  /\ cmd.at \in {"credentials", "service"} => cmd.what \in {"add", "remove"}
  /\ cmd.at = "meta" => cmd.what \in {"add", "remove", "upgrade", "refresh"}
  /\ cmd.at \in Configuring /\ cmd.what \in {"add", "remove"} => cmd.id \in Names
  /\ cmd.at \in Upgrading => cmd.version # "none" /\ cmd.what = "upgrade"
  /\ cmd.at \in Uninstalling => cmd.what = "uninstall"
BudgetTyped ==
  /\ ctlBudget = [commands |-> ctlBudget.commands, mishaps |-> ctlBudget.mishaps]
  /\ ctlBudget.commands \in Nat /\ ctlBudget.mishaps \in 0..MaxMishaps
CtlTyped == FilesTyped /\ UnitTyped /\ BinsTyped /\ CommandTyped /\ BudgetTyped /\ done.ok \in BOOLEAN /\ lockDir \in BOOLEAN

\* Until the service runs the new programs the old ones are in their places, or linked.
Recoverable ==
  /\ \A p \in Programs : previous[p] \in {bins[p], stage.backup[p]}
  /\ ~stage.kept /\ (\A p \in Programs : stage.staged[p] = "none") => bins = previous
  /\ cmd.at \in Replacing => \A p \in Programs : stage.staged[p] # "none"
  /\ cmd.at \in {"download", "link", "node"} => bins = previous
  /\ cmd.at \in {"node", "cli", "restart", "undo cli", "undo node"} => stage.backup = previous
  /\ cmd.at = "cli" => bins["cli"] = previous["cli"]
  /\ cmd.at = "undo node" /\ ~stage.kept => bins["cli"] = previous["cli"]
  /\ cmd.at = "clean" /\ ~stage.kept => bins = previous

\* Before the configuration is written the command holds what the file will say: the bindings of the
\* file with the one it adds, without the one it removes, or the same ones.
Wanted ==
  cmd.at = "config" =>
    /\ cmd.root.top = confFile.top
    /\ cmd.what = "add" => Ids(cmd.root.instances) = Configured \cup {cmd.id}
    /\ cmd.what = "remove" => Ids(cmd.root.instances) = Configured \ {cmd.id}
    /\ cmd.what = "kernel" => Ids(cmd.root.instances) = Configured /\ Configured # {}
\* From then on it holds what the file says; the binding is there, or gone unless it was at the top
\* level, and its token is stored or removed before the meta file is written, the meta file before the
\* service is called.
Halfway ==
  /\ cmd.at \in {"credentials", "meta", "service"} /\ cmd.what # "upgrade" => Ids(Normalized(cmd.root)) = Configured
  /\ cmd.at \in {"credentials", "meta", "service"} /\ cmd.what = "add"
       => cmd.id \in Configured /\ Ids(cmd.root.instances) # {}
  /\ cmd.at \in {"credentials", "meta", "service"} /\ cmd.what = "remove"
       => cmd.id \notin given /\ (Ids(cmd.root.top) = {} => cmd.id \notin Configured)
  /\ cmd.at \in {"meta", "service"} /\ cmd.what = "add" /\ cmd.token => cmd.id \in given
  /\ cmd.at \in {"meta", "service"} /\ cmd.what = "remove" => cmd.id \notin credFile
  /\ cmd.at = "service" => metaFile.ids = Configured
Agreeing == TokensFollow /\ KeepsWord /\ Wanted /\ Halfway

CtlInv == CtlTyped /\ Recoverable /\ Agreeing

LEMMA NobodyIds == Ids(Nobody) = {}
BY DEF Ids, Nobody

\* The bindings of a configuration are named, and those of the file stay when the file does.
LEMMA NormalizedNames == ASSUME NEW root, Rooted(root) PROVE Ids(Normalized(root)) \subseteq Names
BY DEF Rooted, Normalized

LEMMA ConfiguredSame == ASSUME UNCHANGED confFile PROVE Configured' = Configured
BY DEF Configured, Normalized, Ids

LEMMA NormalizedInstances == ASSUME NEW root, Ids(root.instances) # {} PROVE Normalized(root) = root.instances
BY DEF Normalized

LEMMA NormalizedTop == ASSUME NEW root, Ids(root.instances) = {} PROVE Normalized(root) = root.top
BY DEF Normalized

LEMMA RestTyped == ASSUME cmd' = Rest PROVE CommandTyped' /\ cmd'.at = "idle"
<1>1. Rooted(NoConfig)
  BY NobodyIds DEF Rooted, NoConfig
<1>2. cmd'.root = NoConfig /\ cmd'.at = "idle" /\ cmd'.version = "none"
  BY DEF Rest
<1>3. cmd' = [at |-> cmd'.at, what |-> cmd'.what, id |-> cmd'.id, root |-> cmd'.root, token |-> cmd'.token,
              version |-> cmd'.version, again |-> cmd'.again]
  BY DEF Rest
<1>4. QED
  BY <1>1, <1>2, <1>3 DEF CommandTyped, Rooted, Configuring, Upgrading, Replacing, Uninstalling, Versions

LEMMA NoStageTyped ==
  /\ NoStage = [kept |-> FALSE, staged |-> NoStage.staged, backup |-> NoStage.backup] /\ ~NoStage.kept
  /\ NoStage.staged \in [Programs -> Versions] /\ NoStage.backup \in [Programs -> Versions]
BY DEF NoStage, Versions

LEMMA CtlStart == CtlInit => CtlInv
<1> SUFFICES ASSUME CtlInit PROVE CtlInv
  OBVIOUS
<1>1. Rooted(confFile)
  BY CtlConstants DEF CtlInit, Rooted
<1>2. Configured \subseteq Names
  BY <1>1, NormalizedNames DEF Configured
<1>3. /\ left = {} /\ given = credFile /\ credFile \in {{}, Configured} /\ ~done.ok /\ cmd = Rest /\ previous = bins
      /\ metaFile \in {NoMeta, [ids |-> Configured, version |-> "v1"]} /\ stage = NoStage /\ lockDir = FALSE
  BY DEF CtlInit
<1>4. FilesTyped
  BY <1>1, <1>2, <1>3 DEF FilesTyped, NoMeta, Versions
<1>5. UnitTyped
  <2>1. \E manager \in Managers, runs0 \in BOOLEAN :
          unit = [manager |-> manager, file |-> TRUE, running |-> runs0, ids |-> Configured, version |-> "v1"]
    BY DEF CtlInit
  <2>2. QED
    BY <2>1 DEF UnitTyped, Versions
<1>6. BinsTyped
  <2>1. \E has \in BOOLEAN : bins = [node |-> "v1", cli |-> IF has THEN "v1" ELSE "none"]
    BY DEF CtlInit
  <2>2. bins \in [Programs -> Versions]
    BY <2>1 DEF Programs, Versions
  <2>3. QED
    BY <1>3, <2>2, NoStageTyped DEF BinsTyped
<1>7. cmd.at = "idle" /\ cmd.what = ""
  BY <1>3 DEF Rest
<1>8. CommandTyped
  <2>1. Rooted(cmd.root)
    BY <1>3, NobodyIds DEF Rest, Rooted, NoConfig
  <2>2. QED
    BY <1>3, <2>1 DEF CommandTyped, Rest, Configuring, Upgrading, Replacing, Uninstalling, Versions
<1>9. BudgetTyped
  <2>1. ctlBudget = [commands |-> MaxCommands, mishaps |-> MaxMishaps]
    BY DEF CtlInit
  <2>2. QED
    BY <2>1, CtlConstants DEF BudgetTyped
<1>10. Recoverable
  BY <1>3, <1>7 DEF Recoverable, Replacing
<1>11. Agreeing
  BY <1>3, <1>7 DEF Agreeing, TokensFollow, KeepsWord, Wanted, Halfway
<1>12. done.ok \in BOOLEAN
  BY DEF CtlInit
<1>13. QED
  BY <1>3, <1>4, <1>5, <1>6, <1>8, <1>9, <1>10, <1>11, <1>12 DEF CtlInv, CtlTyped

\* How a command goes on, ends, and goes wrong.
LEMMA NextTo ==
  ASSUME CommandTyped, NEW at, Next(at)
  PROVE  /\ cmd' = [at |-> at, what |-> cmd.what, id |-> cmd.id, root |-> cmd.root, token |-> cmd.token,
                    version |-> cmd.version, again |-> cmd.again]
         /\ UNCHANGED <<done, ctlBudget>>
BY DEF CommandTyped, Next

LEMMA NextTyped ==
  ASSUME CommandTyped, NEW at, Next(at),
         at \in {"credentials", "service", "meta"} => cmd.what \in {"add", "remove"} /\ cmd.id \in Names,
         at # "config", at \in Upgrading => cmd.version # "none" /\ cmd.what = "upgrade",
         at \in Uninstalling => cmd.what = "uninstall"
  PROVE  CommandTyped'
<1>1. /\ cmd'.at = at /\ cmd'.what = cmd.what /\ cmd'.id = cmd.id /\ cmd'.root = cmd.root /\ cmd'.version = cmd.version
      /\ cmd' = [at |-> cmd'.at, what |-> cmd'.what, id |-> cmd'.id, root |-> cmd'.root, token |-> cmd'.token,
                 version |-> cmd'.version, again |-> cmd'.again]
  BY NextTo
<1>2. Rooted(cmd'.root)
  BY <1>1 DEF CommandTyped
<1>3. QED
  BY <1>1, <1>2 DEF CommandTyped, Configuring

LEMMA FinishTyped ==
  ASSUME Finish
  PROVE  /\ CommandTyped' /\ cmd'.at = "idle" /\ UNCHANGED ctlBudget
         /\ done' = [what |-> cmd.what, id |-> cmd.id, token |-> cmd.token, legacy |-> Ids(cmd.root.top) # {}, ok |-> TRUE]
BY RestTyped DEF Finish, Tell

LEMMA MishapSpends == ASSUME BudgetTyped, Mishap PROVE BudgetTyped'
BY CtlConstants DEF BudgetTyped, Mishap

LEMMA AbortTyped ==
  ASSUME BudgetTyped, Abort
  PROVE  CommandTyped' /\ cmd'.at = "idle" /\ done'.ok = FALSE /\ BudgetTyped'
BY MishapSpends, RestTyped DEF Abort, Tell

LEMMA BeginTyped ==
  ASSUME BudgetTyped, NEW c, Begin(c)
  PROVE  cmd' = c /\ cmd.at = "idle" /\ ctlBudget.commands > 0 /\ BudgetTyped'
BY CtlConstants DEF BudgetTyped, Begin, At

\* A command that begins to change the configuration carries what it is to become.
LEMMA BeginRooted ==
  ASSUME cmd' = [at |-> cmd'.at, what |-> cmd'.what, id |-> cmd'.id, root |-> cmd'.root, token |-> cmd'.token,
                 version |-> cmd'.version, again |-> cmd'.again],
         Rooted(cmd'.root), cmd'.version \in Versions,
         (cmd'.at = "config" /\ cmd'.what \in {"add", "remove", "kernel"}) \/ (cmd'.at = "meta" /\ cmd'.what = "refresh"),
         cmd'.what \in {"add", "remove"} => cmd'.id \in Names
  PROVE  CommandTyped'
BY DEF CommandTyped, Configuring, Upgrading, Replacing, Uninstalling

LEMMA RestIs ==
  /\ Rest = [at |-> Rest.at, what |-> Rest.what, id |-> Rest.id, root |-> Rest.root, token |-> Rest.token,
             version |-> Rest.version, again |-> Rest.again]
  /\ Rest.version = "none"
BY DEF Rest

\* A step that touches no program keeps the old ones at hand, wherever the command goes on.
LEMMA HostKeeps ==
  ASSUME Recoverable, UNCHANGED <<bins, stage, previous>>, cmd'.at \notin Upgrading
  PROVE  Recoverable'
BY DEF Recoverable, Upgrading, Replacing

\* A step that writes no file separates no token from its binding, and nothing is said of a command that
\* failed, or before it ends.
LEMMA TokensKeep ==
  ASSUME TokensFollow, UNCHANGED <<confFile, credFile, given, left>>
  PROVE  TokensFollow'
BY ConfiguredSame DEF TokensFollow

LEMMA FailureAgrees ==
  ASSUME TokensFollow', cmd'.at = "idle", ~done'.ok
  PROVE  Agreeing'
BY DEF Agreeing, KeepsWord, Wanted, Halfway

LEMMA ElsewhereAgrees ==
  ASSUME Agreeing, cmd'.at \in Upgrading \cup Uninstalling, UNCHANGED <<confFile, credFile, given, left>>
  PROVE  Agreeing'
<1>1. TokensFollow'
  BY TokensKeep DEF Agreeing
<1>2. cmd'.at \notin {"idle", "config", "credentials", "meta", "service"}
  BY DEF Upgrading, Replacing, Uninstalling
<1>3. QED
  BY <1>1, <1>2 DEF Agreeing, KeepsWord, Wanted, Halfway, At

LEMMA SetIds == ASSUME NEW conf0, NEW id, NEW inst PROVE Ids(Set(conf0, id, inst)) = Ids(conf0) \cup {id}
BY DEF Ids, Set

LEMMA DropIds == ASSUME NEW conf0, NEW ids PROVE Ids(Drop(conf0, ids)) = Ids(conf0) \ ids
BY DEF Ids, Drop

LEMMA LoadedRoot ==
  ASSUME FilesTyped, NEW list, Ids(list) \subseteq Names
  PROVE  /\ Rooted(LoadWritableRootConfig(list)) /\ LoadWritableRootConfig(list).top = confFile.top
         /\ LoadWritableRootConfig(list).instances = list
BY DEF LoadWritableRootConfig, FilesTyped, Rooted

\* A command that begins has done nothing yet.
LEMMA BeginKeeps ==
  ASSUME CtlInv, CommandTyped', BudgetTyped', cmd'.at = "config", Wanted',
         UNCHANGED <<done, given, left, confFile, credFile, metaFile, bins, stage, lockDir, unit, previous>>
  PROVE  CtlInv'
<1>1. Recoverable'
  BY HostKeeps DEF CtlInv, Upgrading, Replacing
<1>2. TokensFollow'
  BY TokensKeep DEF CtlInv, Agreeing
<1>3. Agreeing'
  BY <1>2 DEF Agreeing, KeepsWord, Halfway, At
<1>4. CtlTyped'
  BY DEF CtlInv, CtlTyped, FilesTyped, Rooted, UnitTyped, BinsTyped
<1>5. QED
  BY <1>1, <1>3, <1>4 DEF CtlInv

LEMMA ConfigKeeps == ASSUME CtlInv, NEW b \in CtlBindings, NEW kernel, NEW nodeType, NEW token, RunConfigInit(b, kernel, nodeType, token) PROVE CtlInv'
<1> DEFINE list == Set(Normalized(confFile), b.id, MergedInstance(b, kernel, nodeType))
           begun == [Rest EXCEPT !.at = "config", !.what = "add", !.id = b.id, !.token = token, !.version = "unknown",
                                 !.root = LoadWritableRootConfig(list)]
<1>1. Follows("add", "begin") = "config"
  BY DEF Follows
<1>2. Begin(begun) /\ UNCHANGED <<done, given, left, confFile, credFile, metaFile, bins, stage, lockDir, unit, previous>>
  BY <1>1 DEF RunConfigInit, Files, Host, History
<1>3. Ids(list) = Configured \cup {b.id} /\ b.id \in Names
  BY SetIds DEF Configured, Names
<1>4. Ids(list) \subseteq Names
  BY <1>3, NormalizedNames DEF Configured, CtlInv, CtlTyped, FilesTyped
<1>5. /\ Rooted(LoadWritableRootConfig(list)) /\ LoadWritableRootConfig(list).top = confFile.top
      /\ LoadWritableRootConfig(list).instances = list
  <2> HIDE DEF list
  <2> QED
    BY <1>4, LoadedRoot DEF CtlInv, CtlTyped
<1> HIDE DEF begun
<1>6. cmd' = begun /\ BudgetTyped'
  BY <1>2, BeginTyped DEF CtlInv, CtlTyped
<1> HIDE DEF list
<1>7. /\ cmd'.at = "config" /\ cmd'.what = "add" /\ cmd'.id = b.id /\ cmd'.root = LoadWritableRootConfig(list)
      /\ cmd'.version = "unknown"
      /\ cmd' = [at |-> cmd'.at, what |-> cmd'.what, id |-> cmd'.id, root |-> cmd'.root, token |-> cmd'.token,
                 version |-> cmd'.version, again |-> cmd'.again]
  BY <1>6, RestIs DEF begun
<1>8. CommandTyped'
  BY <1>3, <1>5, <1>7, BeginRooted DEF Versions
<1>9. Wanted'
  BY <1>2, <1>3, <1>5, <1>7, ConfiguredSame DEF Wanted
<1>10. QED
  BY <1>2, <1>6, <1>7, <1>8, <1>9, BeginKeeps

LEMMA RemoveKeeps == ASSUME CtlInv, NEW id \in Configured, RemoveBinding(id) PROVE CtlInv'
<1> DEFINE list == Drop(Normalized(confFile), {id})
           old == IF metaFile.version = "none" THEN "unknown" ELSE metaFile.version
           begun == [Rest EXCEPT !.at = "config", !.what = "remove", !.id = id, !.version = old,
                                 !.root = LoadWritableRootConfig(list)]
<1>1. Follows("remove", "begin") = "config"
  BY DEF Follows
<1>2. Begin(begun) /\ UNCHANGED <<done, given, left, confFile, credFile, metaFile, bins, stage, lockDir, unit, previous>>
  BY <1>1 DEF RemoveBinding, Files, Host, History
<1>3. Ids(list) = Configured \ {id}
  BY DropIds DEF Configured
<1>4. Ids(list) \subseteq Names /\ id \in Names
  BY <1>3, NormalizedNames DEF Configured, CtlInv, CtlTyped, FilesTyped
<1>5. old \in Versions
  BY DEF CtlInv, CtlTyped, FilesTyped, Versions
<1>6. /\ Rooted(LoadWritableRootConfig(list)) /\ LoadWritableRootConfig(list).top = confFile.top
      /\ LoadWritableRootConfig(list).instances = list
  <2> HIDE DEF list
  <2> QED
    BY <1>4, LoadedRoot DEF CtlInv, CtlTyped
<1> HIDE DEF begun
<1>7. cmd' = begun /\ BudgetTyped'
  BY <1>2, BeginTyped DEF CtlInv, CtlTyped
<1> HIDE DEF list, old
<1>8. /\ cmd'.at = "config" /\ cmd'.what = "remove" /\ cmd'.id = id /\ cmd'.root = LoadWritableRootConfig(list)
      /\ cmd'.version = old
      /\ cmd' = [at |-> cmd'.at, what |-> cmd'.what, id |-> cmd'.id, root |-> cmd'.root, token |-> cmd'.token,
                 version |-> cmd'.version, again |-> cmd'.again]
  BY <1>7, RestIs DEF begun
<1>9. CommandTyped'
  BY <1>4, <1>5, <1>6, <1>8, BeginRooted
<1>10. Wanted'
  BY <1>2, <1>3, <1>6, <1>8, ConfiguredSame DEF Wanted
<1>11. QED
  BY <1>2, <1>7, <1>8, <1>9, <1>10, BeginKeeps

LEMMA KernelKeeps == ASSUME CtlInv, NEW ids, NEW kernel, NEW force, RunConfigKernel(ids, kernel, force) PROVE CtlInv'
<1> DEFINE old == Normalized(confFile)
           list == [i \in Ids(old) |-> IF i \in ids THEN [old[i] EXCEPT !.kernel = kernel] ELSE old[i]]
           begun == [Rest EXCEPT !.at = "config", !.what = "kernel", !.root = LoadWritableRootConfig(list)]
<1>1. Follows("kernel", "begin") = "config"
  BY DEF Follows
<1>2. /\ Begin(begun) /\ UNCHANGED <<done, given, left, confFile, credFile, metaFile, bins, stage, lockDir, unit, previous>>
      /\ ids # {} /\ ids \subseteq Configured
  BY <1>1 DEF RunConfigKernel, Files, Host, History, Configured
<1>3. Ids(list) = Configured /\ Configured # {}
  BY <1>2 DEF Ids, Configured
<1>4. Ids(list) \subseteq Names
  BY <1>3, NormalizedNames DEF Configured, CtlInv, CtlTyped, FilesTyped
<1>5. /\ Rooted(LoadWritableRootConfig(list)) /\ LoadWritableRootConfig(list).top = confFile.top
      /\ LoadWritableRootConfig(list).instances = list
  <2> HIDE DEF list
  <2> QED
    BY <1>4, LoadedRoot DEF CtlInv, CtlTyped
<1> HIDE DEF begun
<1>6. cmd' = begun /\ BudgetTyped'
  BY <1>2, BeginTyped DEF CtlInv, CtlTyped
<1> HIDE DEF list
<1>7. /\ cmd'.at = "config" /\ cmd'.what = "kernel" /\ cmd'.root = LoadWritableRootConfig(list) /\ cmd'.version = "none"
      /\ cmd' = [at |-> cmd'.at, what |-> cmd'.what, id |-> cmd'.id, root |-> cmd'.root, token |-> cmd'.token,
                 version |-> cmd'.version, again |-> cmd'.again]
  BY <1>6, RestIs DEF begun
<1>8. CommandTyped'
  BY <1>5, <1>7, BeginRooted DEF Versions
<1>9. Wanted'
  BY <1>2, <1>3, <1>5, <1>7, ConfiguredSame DEF Wanted
<1>10. QED
  BY <1>2, <1>6, <1>7, <1>8, <1>9, BeginKeeps

LEMMA RefreshKeeps == ASSUME CtlInv, NEW version \in Versions, RunConfigRefreshMeta(version) PROVE CtlInv'
<1> DEFINE begun == [Rest EXCEPT !.at = "meta", !.what = "refresh", !.version = version, !.root = confFile]
<1>1. Follows("refresh", "begin") = "meta"
  BY DEF Follows
<1>2. Begin(begun) /\ UNCHANGED <<done, given, left, confFile, credFile, metaFile, bins, stage, lockDir, unit, previous>>
  BY <1>1 DEF RunConfigRefreshMeta, Files, Host, History
<1> HIDE DEF begun
<1>3. cmd' = begun /\ BudgetTyped'
  BY <1>2, BeginTyped DEF CtlInv, CtlTyped
<1>4. /\ cmd'.at = "meta" /\ cmd'.what = "refresh" /\ cmd'.root = confFile /\ cmd'.version = version
      /\ cmd' = [at |-> cmd'.at, what |-> cmd'.what, id |-> cmd'.id, root |-> cmd'.root, token |-> cmd'.token,
                 version |-> cmd'.version, again |-> cmd'.again]
  BY <1>3, RestIs DEF begun
<1>5. CommandTyped'
  BY <1>4, BeginRooted DEF CtlInv, CtlTyped, FilesTyped
<1>6. Recoverable'
  BY <1>2, <1>4, HostKeeps DEF CtlInv, Upgrading, Replacing
<1>7. TokensFollow' /\ Configured' = Configured
  BY <1>2, TokensKeep, ConfiguredSame DEF CtlInv, Agreeing
<1>8. Halfway'
  BY <1>2, <1>4, <1>7 DEF Halfway, Configured, Normalized
<1>9. Agreeing'
  BY <1>4, <1>7, <1>8 DEF Agreeing, KeepsWord, Wanted, At
<1>10. CtlTyped'
  BY <1>2, <1>3, <1>5 DEF CtlInv, CtlTyped, FilesTyped, Rooted, UnitTyped, BinsTyped
<1>11. QED
  BY <1>6, <1>9, <1>10 DEF CtlInv

\* An aborted command leaves what it did.
LEMMA AbortKeeps ==
  ASSUME CtlInv, Abort, UNCHANGED <<confFile, credFile, metaFile, given, left, unit, bins, stage, previous>>, lockDir' \in BOOLEAN
  PROVE  CtlInv'
<1>1. CommandTyped' /\ cmd'.at = "idle" /\ done'.ok = FALSE /\ BudgetTyped'
  BY AbortTyped DEF CtlInv, CtlTyped
<1>2. Recoverable'
  BY <1>1, HostKeeps DEF CtlInv, Upgrading, Replacing
<1>3. Agreeing'
  BY <1>1, TokensKeep, FailureAgrees DEF CtlInv, Agreeing
<1>4. CtlTyped'
  BY <1>1 DEF CtlInv, CtlTyped, FilesTyped, Rooted, UnitTyped, BinsTyped
<1>5. QED
  BY <1>2, <1>3, <1>4 DEF CtlInv

LEMMA KillKeeps == ASSUME CtlInv, Kill PROVE CtlInv'
BY AbortKeeps DEF Kill, Files, Host, History, CtlInv, CtlTyped

LEMMA LockAlone ==
  ASSUME CtlInv, UNCHANGED <<bins, stage, unit, previous, cmd, given, left, done, ctlBudget, confFile, credFile, metaFile>>,
         lockDir' \in BOOLEAN
  PROVE  CtlInv'
<1>1. CtlTyped'
  BY DEF CtlInv, CtlTyped, FilesTyped, Rooted, UnitTyped, BinsTyped, CommandTyped, BudgetTyped
<1>2. Recoverable'
  BY DEF CtlInv, Recoverable
<1>3. Agreeing'
  BY ConfiguredSame, TokensKeep DEF CtlInv, Agreeing, KeepsWord, UpAndCurrent, At, Wanted, Halfway, Normalized
<1>4. QED
  BY <1>1, <1>2, <1>3 DEF CtlInv

LEMMA RemoveLockKeeps == ASSUME CtlInv, RemoveLock PROVE CtlInv'
BY LockAlone DEF RemoveLock, Files, History

LEMMA CtlSame == ASSUME CtlInv, UNCHANGED ctlVars PROVE CtlInv'
BY LockAlone DEF ctlVars, CtlInv, CtlTyped

\* Where a command goes on after each of its writes.
LEMMA Steps ==
  /\ Follows("kernel", "config") = "end"
  /\ \A what \in {"add", "remove"} :
       Follows(what, "config") = "credentials" /\ Follows(what, "credentials") = "meta" /\ Follows(what, "meta") = "service"
  /\ \A what \in {"upgrade", "refresh"} : Follows(what, "meta") = "end"
BY DEF Follows

LEMMA GoOnTyped ==
  ASSUME CommandTyped, GoOn, cmd.at \in {"config", "credentials", "meta"}
  PROVE  /\ CommandTyped' /\ UNCHANGED ctlBudget
         /\ \/ /\ Follows(cmd.what, cmd.at) = "end" /\ cmd'.at = "idle"
               /\ done' = [what |-> cmd.what, id |-> cmd.id, token |-> cmd.token, legacy |-> Ids(cmd.root.top) # {}, ok |-> TRUE]
            \/ /\ cmd.what \in {"add", "remove"} /\ cmd'.at = Follows(cmd.what, cmd.at) /\ UNCHANGED done
               /\ cmd'.what = cmd.what /\ cmd'.id = cmd.id /\ cmd'.root = cmd.root /\ cmd'.token = cmd.token
<1>1. CASE cmd.what \in {"add", "remove"}
  <2>1. Follows(cmd.what, cmd.at) \in {"credentials", "meta", "service"} /\ cmd.id \in Names
    BY <1>1, Steps DEF CommandTyped, Configuring
  <2>2. Next(Follows(cmd.what, cmd.at))
    BY <2>1 DEF GoOn
  <2>3. CommandTyped'
    BY <1>1, <2>1, <2>2, NextTyped DEF Upgrading, Replacing, Uninstalling
  <2>4. QED
    BY <1>1, <2>2, <2>3, NextTo
<1>2. CASE cmd.what \notin {"add", "remove"}
  <2>1. Follows(cmd.what, cmd.at) = "end"
    BY <1>2, Steps DEF CommandTyped
  <2>2. Finish
    BY <2>1 DEF GoOn
  <2>3. QED
    BY <2>1, <2>2, FinishTyped
<1>3. QED
  BY <1>1, <1>2

\* The file after a command has written it: the bindings it was to have, of which a removal leaves none
\* of its own behind unless it was at the top level.
LEMMA WrittenRoot ==
  ASSUME CtlInv, cmd.at = "config", Rooted(confFile'), confFile'.top = Nobody, confFile'.instances = Normalized(cmd.root)
  PROVE  /\ Configured' = Ids(Normalized(cmd.root))
         /\ cmd.what = "add" => Configured' = Configured \cup {cmd.id} /\ Ids(cmd.root.instances) # {}
         /\ cmd.what = "kernel" => Configured' = Configured
         /\ cmd.what = "remove" => /\ Configured \ {cmd.id} \subseteq Configured'
                                   /\ Ids(cmd.root.top) = {} => Configured' = Configured \ {cmd.id}
<1>1. Configured' = Ids(Normalized(cmd.root))
  BY NobodyIds DEF Configured, Normalized
<1>2. Wanted
  BY DEF CtlInv, Agreeing
<1>3. Ids(cmd.root.instances) # {} => Configured' = Ids(cmd.root.instances)
  BY <1>1, NormalizedInstances
<1>4. Ids(cmd.root.instances) = {} => Configured' = Ids(cmd.root.top)
  BY <1>1, NormalizedTop
<1>5. QED
  BY <1>1, <1>2, <1>3, <1>4 DEF Wanted

LEMMA WriteKeeps == ASSUME CtlInv, WriteRootConfig PROVE CtlInv'
<1>1. CASE Abort /\ UNCHANGED confFile /\ UNCHANGED History
  BY <1>1, AbortKeeps DEF WriteRootConfig, Host, History, CtlInv, CtlTyped
<1>2. CASE ~(Abort /\ UNCHANGED confFile /\ UNCHANGED History)
  <2> DEFINE gone0 == IF cmd.what = "remove" THEN {cmd.id} ELSE {}
  <2>1. /\ cmd.at = "config" /\ UNCHANGED <<credFile, metaFile, bins, stage, lockDir, unit, previous>> /\ GoOn
        /\ confFile' = [cmd.root EXCEPT !.top = Nobody, !.instances = Normalized(cmd.root)]
        /\ given' = given \ gone0 /\ left' = (left \cup gone0) \ Ids(Normalized(cmd.root))
    BY <1>2 DEF WriteRootConfig, At, Host
  <2>2. Rooted(cmd.root) /\ Ids(Normalized(cmd.root)) \subseteq Names
    BY NormalizedNames DEF CtlInv, CtlTyped, CommandTyped
  <2>3. Rooted(confFile') /\ confFile'.top = Nobody /\ confFile'.instances = Normalized(cmd.root)
    BY <2>1, <2>2, NobodyIds DEF Rooted
  <2>4. /\ Configured' = Ids(Normalized(cmd.root))
        /\ cmd.what = "add" => Configured' = Configured \cup {cmd.id} /\ Ids(cmd.root.instances) # {}
        /\ cmd.what = "kernel" => Configured' = Configured
        /\ cmd.what = "remove" => /\ Configured \ {cmd.id} \subseteq Configured'
                                  /\ Ids(cmd.root.top) = {} => Configured' = Configured \ {cmd.id}
    BY <2>1, <2>3, WrittenRoot
  <2>5. cmd.what \in {"add", "remove", "kernel"} /\ (cmd.what = "remove" => cmd.id \in Names)
    BY <2>1 DEF CtlInv, CtlTyped, CommandTyped, Configuring
  <2>6. FilesTyped'
    BY <2>1, <2>2, <2>3, <2>5 DEF CtlInv, CtlTyped, FilesTyped
  <2>7. TokensFollow'
    BY <2>1, <2>4, <2>5 DEF CtlInv, Agreeing, TokensFollow
  <2>8. /\ CommandTyped' /\ UNCHANGED ctlBudget
        /\ \/ /\ Follows(cmd.what, cmd.at) = "end" /\ cmd'.at = "idle"
              /\ done' = [what |-> cmd.what, id |-> cmd.id, token |-> cmd.token, legacy |-> Ids(cmd.root.top) # {}, ok |-> TRUE]
           \/ /\ cmd.what \in {"add", "remove"} /\ cmd'.at = Follows(cmd.what, cmd.at) /\ UNCHANGED done
              /\ cmd'.what = cmd.what /\ cmd'.id = cmd.id /\ cmd'.root = cmd.root /\ cmd'.token = cmd.token
    BY <2>1, GoOnTyped DEF CtlInv, CtlTyped
  <2>9. Agreeing' /\ done'.ok \in BOOLEAN /\ cmd'.at \notin Upgrading
    <3>1. CASE cmd.what = "kernel"
      <4>1. cmd'.at = "idle" /\ done'.what = "kernel" /\ done'.ok
        BY <2>1, <2>8, <3>1, Steps
      <4>2. QED
        BY <2>7, <4>1, <2>8 DEF Agreeing, KeepsWord, Wanted, Halfway, Upgrading, Replacing
    <3>2. CASE cmd.what \in {"add", "remove"}
      <4>1. /\ cmd'.at = "credentials" /\ UNCHANGED done /\ cmd'.what = cmd.what /\ cmd'.id = cmd.id /\ cmd'.root = cmd.root
        BY <2>1, <2>8, <3>2, Steps
      <4>2. Normalized(cmd.root)' = Normalized(cmd.root)
        BY <4>1 DEF Normalized
      <4>3. Halfway'
        BY <2>1, <2>4, <2>5, <4>1, <4>2 DEF Halfway
      <4>4. QED
        BY <2>7, <4>1, <4>3 DEF Agreeing, KeepsWord, Wanted, At, CtlInv, CtlTyped, Upgrading, Replacing
    <3>3. QED
      BY <2>5, <3>1, <3>2
  <2>10. QED
    BY <2>1, <2>6, <2>8, <2>9, HostKeeps DEF CtlInv, CtlTyped, UnitTyped, BinsTyped, BudgetTyped
<1>3. QED
  BY <1>1, <1>2

LEMMA MergeKeeps == ASSUME CtlInv, MergeCredentials PROVE CtlInv'
<1>1. CASE Abort /\ UNCHANGED <<credFile, given>>
  BY <1>1, AbortKeeps DEF MergeCredentials, Host, CtlInv, CtlTyped
<1>2. CASE ~(Abort /\ UNCHANGED <<credFile, given>>)
  <2>1. /\ cmd.at = "credentials" /\ UNCHANGED <<confFile, metaFile, left, bins, stage, lockDir, unit, previous>> /\ GoOn
        /\ cmd.what = "add"
        /\ credFile' = IF cmd.token THEN credFile \cup {cmd.id} ELSE credFile
        /\ given' = IF cmd.token THEN given \cup {cmd.id} ELSE given
    BY <1>2 DEF MergeCredentials, At, Host
  <2>2. /\ CommandTyped' /\ cmd'.at = "meta" /\ UNCHANGED <<done, ctlBudget>>
        /\ cmd'.what = cmd.what /\ cmd'.id = cmd.id /\ cmd'.root = cmd.root /\ cmd'.token = cmd.token
    BY <2>1, GoOnTyped, Steps DEF CtlInv, CtlTyped
  <2>3. /\ Ids(Normalized(cmd.root)) = Configured /\ cmd.id \in Configured /\ Ids(cmd.root.instances) # {} /\ cmd.id \in Names
    BY <2>1 DEF CtlInv, Agreeing, Halfway, CtlTyped, CommandTyped, Configuring
  <2>4. Configured' = Configured /\ Normalized(cmd.root)' = Normalized(cmd.root)
    BY <2>1, <2>2, ConfiguredSame DEF Normalized
  <2>5. TokensFollow'
    BY <2>1, <2>3, <2>4 DEF CtlInv, Agreeing, TokensFollow
  <2>6. Halfway'
    BY <2>1, <2>2, <2>3, <2>4 DEF Halfway
  <2>7. Agreeing'
    BY <2>2, <2>5, <2>6 DEF Agreeing, KeepsWord, Wanted, At
  <2>8. FilesTyped'
    BY <2>1, <2>3 DEF CtlInv, CtlTyped, FilesTyped, Rooted
  <2>9. QED
    BY <2>1, <2>2, <2>7, <2>8, HostKeeps DEF CtlInv, CtlTyped, UnitTyped, BinsTyped, BudgetTyped, Upgrading, Replacing
<1>3. QED
  BY <1>1, <1>2

LEMMA PruneKeeps == ASSUME CtlInv, PruneCredentialKeys PROVE CtlInv'
<1>1. CASE Abort /\ UNCHANGED <<credFile, left>>
  BY <1>1, AbortKeeps DEF PruneCredentialKeys, Host, CtlInv, CtlTyped
<1>2. CASE ~(Abort /\ UNCHANGED <<credFile, left>>)
  <2>1. /\ cmd.at = "credentials" /\ UNCHANGED <<confFile, metaFile, given, bins, stage, lockDir, unit, previous>> /\ GoOn
        /\ cmd.what = "remove" /\ credFile' = credFile \ {cmd.id} /\ left' = left \ {cmd.id}
    BY <1>2 DEF PruneCredentialKeys, At, Host
  <2>2. /\ CommandTyped' /\ cmd'.at = "meta" /\ UNCHANGED <<done, ctlBudget>>
        /\ cmd'.what = cmd.what /\ cmd'.id = cmd.id /\ cmd'.root = cmd.root /\ cmd'.token = cmd.token
    BY <2>1, GoOnTyped, Steps DEF CtlInv, CtlTyped
  <2>3. /\ Ids(Normalized(cmd.root)) = Configured /\ cmd.id \notin given
        /\ Ids(cmd.root.top) = {} => cmd.id \notin Configured
    BY <2>1 DEF CtlInv, Agreeing, Halfway
  <2>4. Configured' = Configured /\ Normalized(cmd.root)' = Normalized(cmd.root)
    BY <2>1, <2>2, ConfiguredSame DEF Normalized
  <2>5. TokensFollow'
    BY <2>1, <2>3, <2>4 DEF CtlInv, Agreeing, TokensFollow
  <2>6. Halfway'
    BY <2>1, <2>2, <2>3, <2>4 DEF Halfway
  <2>7. Agreeing'
    BY <2>2, <2>5, <2>6 DEF Agreeing, KeepsWord, Wanted, At
  <2>8. FilesTyped'
    BY <2>1 DEF CtlInv, CtlTyped, FilesTyped, Rooted
  <2>9. QED
    BY <2>1, <2>2, <2>7, <2>8, HostKeeps DEF CtlInv, CtlTyped, UnitTyped, BinsTyped, BudgetTyped, Upgrading, Replacing
<1>3. QED
  BY <1>1, <1>2

LEMMA MetaKeeps == ASSUME CtlInv, WriteInstallMeta PROVE CtlInv'
<1>1. cmd.at = "meta" /\ UNCHANGED <<confFile, credFile, bins, stage, unit, previous, given, left>>
  BY DEF WriteInstallMeta, At, History
<1>2. TokensFollow' /\ Configured' = Configured
  BY <1>1, TokensKeep, ConfiguredSame DEF CtlInv, Agreeing
<1>3. CASE Abort /\ UNCHANGED <<metaFile, lockDir>>
  BY <1>1, <1>3, AbortKeeps DEF CtlInv, CtlTyped
<1>4. CASE cmd.what = "upgrade" /\ Mishap /\ cmd' = Rest /\ Tell(TRUE) /\ lockDir' = FALSE /\ UNCHANGED metaFile
  <2>1. CommandTyped' /\ cmd'.at = "idle" /\ done'.what = "upgrade" /\ done'.ok = TRUE /\ BudgetTyped'
    BY <1>4, RestTyped, MishapSpends DEF Tell, CtlInv, CtlTyped
  <2>2. Agreeing'
    BY <1>2, <2>1 DEF Agreeing, KeepsWord, Wanted, Halfway
  <2>3. CtlTyped'
    BY <1>1, <1>4, <2>1 DEF CtlInv, CtlTyped, FilesTyped, Rooted, UnitTyped, BinsTyped
  <2>4. QED
    BY <1>1, <2>1, <2>2, <2>3, HostKeeps DEF CtlInv, Upgrading, Replacing
<1>5. CASE /\ metaFile' = [ids |-> Ids(Normalized(cmd.root)), version |-> cmd.version]
           /\ lockDir' = (lockDir /\ cmd.what # "upgrade") /\ GoOn
  <2>1. Ids(Normalized(cmd.root)) \subseteq Names /\ cmd.version \in Versions
    BY NormalizedNames DEF CtlInv, CtlTyped, CommandTyped
  <2>2. metaFile'.ids = Ids(Normalized(cmd.root)) /\ FilesTyped'
    BY <1>1, <1>5, <2>1 DEF CtlInv, CtlTyped, FilesTyped, Rooted
  <2>3. /\ CommandTyped' /\ UNCHANGED ctlBudget
        /\ \/ /\ Follows(cmd.what, cmd.at) = "end" /\ cmd'.at = "idle"
              /\ done' = [what |-> cmd.what, id |-> cmd.id, token |-> cmd.token, legacy |-> Ids(cmd.root.top) # {}, ok |-> TRUE]
           \/ /\ cmd.what \in {"add", "remove"} /\ cmd'.at = Follows(cmd.what, cmd.at) /\ UNCHANGED done
              /\ cmd'.what = cmd.what /\ cmd'.id = cmd.id /\ cmd'.root = cmd.root /\ cmd'.token = cmd.token
    BY <1>1, <1>5, GoOnTyped DEF CtlInv, CtlTyped
  <2>4. Agreeing' /\ done'.ok \in BOOLEAN /\ cmd'.at \notin Upgrading
    <3>1. CASE cmd.what \in {"upgrade", "refresh"}
      <4>1. cmd'.at = "idle" /\ done'.what = cmd.what /\ done'.ok = TRUE
        BY <1>1, <2>3, <3>1, Steps
      <4>2. cmd.what = "refresh" => metaFile'.ids = Configured
        BY <1>1, <2>2 DEF CtlInv, Agreeing, Halfway
      <4>3. QED
        BY <1>2, <3>1, <4>1, <4>2 DEF Agreeing, KeepsWord, Wanted, Halfway, Upgrading, Replacing
    <3>2. CASE cmd.what \in {"add", "remove"}
      <4>1. /\ cmd'.at = "service" /\ UNCHANGED done /\ cmd'.what = cmd.what /\ cmd'.id = cmd.id /\ cmd'.root = cmd.root
            /\ cmd'.token = cmd.token
        BY <1>1, <2>3, <3>2, Steps
      <4>2. Normalized(cmd.root)' = Normalized(cmd.root)
        BY <4>1 DEF Normalized
      <4>3. Halfway'
        BY <1>1, <1>2, <2>2, <3>2, <4>1, <4>2 DEF CtlInv, Agreeing, Halfway
      <4>4. QED
        BY <1>2, <4>1, <4>3 DEF Agreeing, KeepsWord, Wanted, At, CtlInv, CtlTyped, Upgrading, Replacing
    <3>3. QED
      BY <1>1, <3>1, <3>2 DEF CtlInv, CtlTyped, CommandTyped
  <2>5. lockDir' \in BOOLEAN
    BY <1>5
  <2>6. QED
    BY <1>1, <2>2, <2>3, <2>4, <2>5, HostKeeps DEF CtlInv, CtlTyped, UnitTyped, BinsTyped, BudgetTyped
<1>6. QED
  BY <1>3, <1>4, <1>5 DEF WriteInstallMeta

\* The service as the manager starts and stops it, and as a restart that fails leaves it.
LEMMA Restarted ==
  ASSUME UnitTyped, BinsTyped, RunManagedService("restart")
  PROVE  UnitTyped' /\ unit'.running /\ unit'.ids = Configured /\ unit'.version = bins["node"]
<1>1. unit' = [unit EXCEPT !.running = TRUE, !.ids = Configured, !.version = bins.node]
  BY DEF RunManagedService, Started
<1>2. bins["node"] \in Versions
  BY DEF BinsTyped, Programs
<1>3. QED
  BY <1>1, <1>2 DEF UnitTyped

LEMMA Stopped == ASSUME UnitTyped, RunManagedService("stop") PROVE UnitTyped' /\ ~unit'.running
<1>1. unit' = [unit EXCEPT !.running = FALSE]
  BY DEF RunManagedService
<1>2. QED
  BY <1>1 DEF UnitTyped

LEMMA RestartFailed == ASSUME UnitTyped, BudgetTyped, RestartFails PROVE UnitTyped' /\ BudgetTyped'
<1>1. BudgetTyped'
  BY MishapSpends DEF RestartFails
<1>2. unit' \in {unit, [unit EXCEPT !.running = FALSE]}
  BY DEF RestartFails
<1>3. QED
  BY <1>1, <1>2 DEF UnitTyped

LEMMA ServeKeeps == ASSUME CtlInv, Serve PROVE CtlInv'
<1>1. cmd.at = "service" /\ UNCHANGED <<bins, stage, lockDir, previous, given, left, confFile, credFile, metaFile>>
  BY DEF Serve, At, Files, History
<1>2. /\ TokensFollow' /\ Configured' = Configured /\ cmd.what \in {"add", "remove"}
      /\ Ids(Normalized(cmd.root)) = Configured /\ metaFile.ids = Configured
      /\ cmd.what = "add" => cmd.id \in Configured /\ Ids(cmd.root.instances) # {} /\ (cmd.token => cmd.id \in credFile)
      /\ cmd.what = "remove" => cmd.id \notin credFile /\ (Ids(cmd.root.top) = {} => cmd.id \notin Configured)
  BY <1>1, TokensKeep, ConfiguredSame DEF CtlInv, Agreeing, Halfway, TokensFollow, CtlTyped, CommandTyped
<1>3. CommandTyped' /\ cmd'.at = "idle"
  BY RestTyped DEF Serve, Finish
<1>4. /\ UnitTyped' /\ BudgetTyped'
      /\ \/ Tell(FALSE)
         \/ Tell(TRUE) /\ Ids(cmd.root.instances) = {}
         \/ Tell(TRUE) /\ Ids(cmd.root.instances) # {} /\ unit'.running /\ unit'.ids = Configured /\ unit'.version = bins["node"]
  <2>1. CASE Ids(cmd.root.instances) = {} /\ RunManagedService("stop") /\ Finish
    BY <2>1, Stopped DEF CtlInv, CtlTyped, Finish, BudgetTyped
  <2>2. CASE Ids(cmd.root.instances) = {} /\ Mishap /\ cmd' = Rest /\ Tell(TRUE) /\ UNCHANGED unit
    BY <2>2, MishapSpends DEF CtlInv, CtlTyped, UnitTyped
  <2>3. CASE Ids(cmd.root.instances) # {} /\ RunManagedService("restart") /\ Finish
    BY <2>3, Restarted DEF CtlInv, CtlTyped, Finish, BudgetTyped
  <2>4. CASE Ids(cmd.root.instances) # {} /\ RestartFails /\ cmd' = Rest /\ Tell(FALSE)
    BY <2>4, RestartFailed DEF CtlInv, CtlTyped
  <2>5. QED
    BY <2>1, <2>2, <2>3, <2>4 DEF Serve
<1>5. Agreeing' /\ done'.ok \in BOOLEAN
  <2>1. CASE Tell(FALSE)
    BY <1>2, <1>3, <2>1, FailureAgrees DEF Tell
  <2>2. CASE Tell(TRUE)
    <3>1. /\ done'.what = cmd.what /\ done'.id = cmd.id /\ done'.token = cmd.token /\ done'.ok = TRUE
          /\ done'.legacy = (Ids(cmd.root.top) # {})
      BY <2>2 DEF Tell
    <3>2. Ids(cmd.root.instances) = {} /\ Ids(cmd.root.top) = {} => Configured = {}
      BY <1>2, NormalizedTop
    <3>3. Ids(cmd.root.instances) # {} => UpAndCurrent'
      BY <1>1, <1>2, <1>4, <2>2 DEF UpAndCurrent, Tell
    <3>4. KeepsWord'
      BY <1>1, <1>2, <3>1, <3>2, <3>3 DEF KeepsWord
    <3>5. QED
      BY <1>2, <1>3, <3>1, <3>4 DEF Agreeing, Wanted, Halfway
  <2>3. QED
    BY <1>4, <2>1, <2>2
<1>6. Recoverable'
  BY <1>1, <1>3, HostKeeps DEF CtlInv, Upgrading, Replacing
<1>7. QED
  BY <1>1, <1>3, <1>4, <1>5, <1>6 DEF CtlInv, CtlTyped, FilesTyped, Rooted, BinsTyped

LEMMA LockKeeps == ASSUME CtlInv, NEW what \in {"upgrade", "uninstall"}, LockInstallation(what) PROVE CtlInv'
<1>1. /\ UNCHANGED <<done, given, left, confFile, credFile, metaFile, bins, unit>> /\ previous' = bins /\ stage' = NoStage
      /\ BudgetTyped' /\ cmd.at = "idle" /\ lockDir' \in BOOLEAN
      /\ cmd' = [Rest EXCEPT !.at = IF what = "upgrade" THEN "download" ELSE "stop", !.what = what,
                             !.version = IF bins.node = "v1" THEN "v2" ELSE "v3"]
  BY BeginTyped DEF LockInstallation, Files, History, CtlInv, CtlTyped
<1>2. /\ cmd'.at = (IF what = "upgrade" THEN "download" ELSE "stop") /\ cmd'.what = what /\ cmd'.root = NoConfig
      /\ cmd'.version \in {"v2", "v3"}
      /\ cmd' = [at |-> cmd'.at, what |-> cmd'.what, id |-> cmd'.id, root |-> cmd'.root, token |-> cmd'.token,
                 version |-> cmd'.version, again |-> cmd'.again]
  BY <1>1 DEF Rest
<1>3. CommandTyped'
  <2>1. Rooted(cmd'.root)
    BY <1>2, NobodyIds DEF Rooted, NoConfig
  <2>2. QED
    BY <1>2, <2>1 DEF CommandTyped, Versions, Configuring, Upgrading, Replacing, Uninstalling
<1>4. BinsTyped'
  BY <1>1, NoStageTyped DEF CtlInv, CtlTyped, BinsTyped
<1>5. Recoverable'
  BY <1>1, <1>2 DEF Recoverable, Replacing
<1>6. Agreeing'
  BY <1>1, <1>2, ElsewhereAgrees DEF CtlInv, Upgrading, Uninstalling
<1>7. QED
  BY <1>1, <1>3, <1>4, <1>5, <1>6 DEF CtlInv, CtlTyped, FilesTyped, Rooted, UnitTyped

\* An upgrade that stops before a program is replaced removes its stage and its lock.
LEMMA GivenUpKeeps ==
  ASSUME CtlInv, Abort, cmd.at \in {"download", "link"}, lockDir' = FALSE, stage' = NoStage,
         UNCHANGED <<bins, unit, previous, given, left, confFile, credFile, metaFile>>
  PROVE  CtlInv'
<1>1. CommandTyped' /\ cmd'.at = "idle" /\ done'.ok = FALSE /\ BudgetTyped'
  BY AbortTyped DEF CtlInv, CtlTyped
<1>3. Recoverable'
  BY <1>1 DEF CtlInv, Recoverable, Replacing
<1>4. Agreeing'
  BY <1>1, TokensKeep, FailureAgrees DEF CtlInv, Agreeing
<1>5. BinsTyped'
  BY NoStageTyped DEF CtlInv, CtlTyped, BinsTyped
<1>6. QED
  BY <1>1, <1>3, <1>4, <1>5 DEF CtlInv, CtlTyped, FilesTyped, Rooted, UnitTyped

LEMMA DownloadKeeps == ASSUME CtlInv, Download PROVE CtlInv'
<1>1. CASE Abort /\ lockDir' = FALSE /\ stage' = NoStage
  BY <1>1, GivenUpKeeps DEF Download, At, Files, History
<1>2. CASE ~(Abort /\ lockDir' = FALSE /\ stage' = NoStage)
  <2>1. /\ cmd.at = "download" /\ UNCHANGED <<bins, unit, previous, lockDir, given, left, confFile, credFile, metaFile, done, ctlBudget>>
        /\ stage' = [stage EXCEPT !.staged = [p \in Programs |-> cmd.version]] /\ Next("link")
    BY <1>2 DEF Download, Next, At, Files, History
  <2>2. cmd'.at = "link" /\ CommandTyped'
    <3>1. cmd'.at = "link"
      BY <2>1, NextTo DEF CtlInv, CtlTyped
    <3>2. CommandTyped'
      BY <2>1, NextTyped DEF CtlInv, CtlTyped, CommandTyped, Configuring, Upgrading, Replacing, Uninstalling
    <3>3. QED
      BY <3>1, <3>2
  <2>3. /\ stage'.staged = [p \in Programs |-> cmd.version] /\ cmd.version \in Versions /\ cmd.version # "none"
        /\ stage'.backup = stage.backup /\ stage'.kept = stage.kept
        /\ stage' = [kept |-> stage'.kept, staged |-> stage'.staged, backup |-> stage'.backup]
    BY <2>1 DEF CtlInv, CtlTyped, CommandTyped, BinsTyped, Upgrading
  <2>4. BinsTyped'
    BY <2>1, <2>3 DEF CtlInv, CtlTyped, BinsTyped
  <2>5. Recoverable'
    BY <2>1, <2>2, <2>3 DEF CtlInv, Recoverable, Programs
  <2>6. Agreeing'
    BY <2>1, <2>2, ElsewhereAgrees DEF CtlInv, Upgrading, Replacing
  <2>7. QED
    BY <2>1, <2>2, <2>4, <2>5, <2>6 DEF CtlInv, CtlTyped, FilesTyped, Rooted, UnitTyped, BudgetTyped
<1>3. QED
  BY <1>1, <1>2

LEMMA LinkKeeps == ASSUME CtlInv, LinkBackups PROVE CtlInv'
<1>1. CASE Abort /\ lockDir' = FALSE /\ stage' = NoStage
  BY <1>1, GivenUpKeeps DEF LinkBackups, At, Files, History
<1>2. CASE ~(Abort /\ lockDir' = FALSE /\ stage' = NoStage)
  <2>1. /\ cmd.at = "link" /\ UNCHANGED <<bins, unit, previous, lockDir, given, left, confFile, credFile, metaFile, done, ctlBudget>>
        /\ stage' = [stage EXCEPT !.backup = bins] /\ Next("node")
    BY <1>2 DEF LinkBackups, Next, At, Files, History
  <2>2. cmd'.at = "node" /\ CommandTyped'
    <3>1. cmd'.at = "node"
      BY <2>1, NextTo DEF CtlInv, CtlTyped
    <3>2. CommandTyped'
      BY <2>1, NextTyped DEF CtlInv, CtlTyped, CommandTyped, Configuring, Upgrading, Replacing, Uninstalling
    <3>3. QED
      BY <3>1, <3>2
  <2>3. /\ stage'.staged = stage.staged /\ stage'.backup = bins /\ stage'.kept = stage.kept
        /\ stage' = [kept |-> stage'.kept, staged |-> stage'.staged, backup |-> stage'.backup]
    BY <2>1 DEF CtlInv, CtlTyped, BinsTyped
  <2>4. BinsTyped'
    BY <2>1, <2>3 DEF CtlInv, CtlTyped, BinsTyped
  <2>5. Recoverable'
    BY <2>1, <2>2, <2>3 DEF CtlInv, Recoverable, Replacing
  <2>6. Agreeing'
    BY <2>1, <2>2, ElsewhereAgrees DEF CtlInv, Upgrading, Replacing
  <2>7. QED
    BY <2>1, <2>2, <2>4, <2>5, <2>6 DEF CtlInv, CtlTyped, FilesTyped, Rooted, UnitTyped, BudgetTyped
<1>3. QED
  BY <1>1, <1>2

LEMMA ReplaceKeeps == ASSUME CtlInv, NEW p \in Programs, ReplaceBinary(p) PROVE CtlInv'
<1>1. cmd.at = p /\ UNCHANGED <<unit, previous, lockDir, stage, given, left, confFile, credFile, metaFile>>
  BY DEF ReplaceBinary, At, Files, History
<1>2. CASE bins' = [bins EXCEPT ![p] = stage.staged[p]] /\ Next(IF p = "node" THEN "cli" ELSE "restart")
  <2>1. cmd'.at = (IF p = "node" THEN "cli" ELSE "restart") /\ UNCHANGED <<done, ctlBudget>>
    BY <1>2, NextTo DEF CtlInv, CtlTyped
  <2>2. CommandTyped'
    BY <1>1, <1>2, NextTyped DEF CtlInv, CtlTyped, CommandTyped, Configuring, Upgrading, Replacing, Uninstalling, Programs
  <2>3. BinsTyped'
    BY <1>1, <1>2 DEF CtlInv, CtlTyped, BinsTyped
  <2>4. Recoverable'
    BY <1>1, <1>2, <2>1 DEF CtlInv, CtlTyped, BinsTyped, Recoverable, Replacing, Programs
  <2>5. Agreeing'
    BY <1>1, <2>1, ElsewhereAgrees DEF CtlInv, Upgrading, Replacing, Programs
  <2>6. QED
    BY <1>1, <2>1, <2>2, <2>3, <2>4, <2>5 DEF CtlInv, CtlTyped, FilesTyped, Rooted, UnitTyped, BudgetTyped
<1>3. CASE Mishap /\ cmd' = [cmd EXCEPT !.at = IF p = "node" THEN "clean" ELSE "undo node"] /\ UNCHANGED <<bins, done>>
  <2>1. BudgetTyped'
    BY <1>3, MishapSpends DEF CtlInv, CtlTyped
  <2>2. cmd'.at = (IF p = "node" THEN "clean" ELSE "undo node") /\ CommandTyped'
    BY <1>1, <1>3 DEF CtlInv, CtlTyped, CommandTyped, Configuring, Upgrading, Replacing, Uninstalling, Programs
  <2>3. Recoverable'
    <3>1. CASE p = "node"
      BY <1>1, <1>3, <2>2, <3>1 DEF CtlInv, Recoverable, Replacing
    <3>2. CASE p = "cli"
      <4>1. cmd.at = "cli" /\ cmd'.at = "undo node" /\ UNCHANGED <<bins, stage, previous>>
        BY <1>1, <1>3, <2>2, <3>2
      <4>2. QED
        BY <4>1 DEF CtlInv, Recoverable, Replacing
    <3>3. QED
      BY <3>1, <3>2 DEF Programs
  <2>4. Agreeing'
    BY <1>1, <1>3, <2>1, <2>2, ElsewhereAgrees DEF CtlInv, Upgrading, Replacing, Programs
  <2>5. QED
    BY <1>1, <1>3, <2>1, <2>2, <2>3, <2>4 DEF CtlInv, CtlTyped, FilesTyped, Rooted, UnitTyped, BinsTyped
<1>4. QED
  BY <1>2, <1>3 DEF ReplaceBinary

LEMMA RestartKeeps == ASSUME CtlInv, RestartUpgraded PROVE CtlInv'
<1>1. cmd.at = "restart" /\ UNCHANGED <<bins, lockDir, done, given, left, confFile, credFile, metaFile>> /\ cmd.what = "upgrade"
  BY DEF RestartUpgraded, At, Files, History, CtlInv, CtlTyped, CommandTyped, Configuring, Upgrading, Replacing, Uninstalling
<1>2. TokensFollow' /\ Configured' = Configured
  BY <1>1, TokensKeep, ConfiguredSame DEF CtlInv, Agreeing
<1>3. CASE /\ RunManagedService("restart") /\ previous' = bins /\ stage' = NoStage
           /\ cmd' = [cmd EXCEPT !.at = "meta", !.root = confFile] /\ UNCHANGED ctlBudget
  <2>1. /\ cmd'.at = "meta" /\ cmd'.root = confFile /\ cmd'.what = "upgrade" /\ cmd'.version = cmd.version
        /\ cmd' = [at |-> cmd'.at, what |-> cmd'.what, id |-> cmd'.id, root |-> cmd'.root, token |-> cmd'.token,
                   version |-> cmd'.version, again |-> cmd'.again]
    BY <1>1, <1>3 DEF CtlInv, CtlTyped, CommandTyped
  <2>2. CommandTyped'
    BY <2>1 DEF CtlInv, CtlTyped, CommandTyped, FilesTyped, Configuring, Upgrading, Replacing, Uninstalling
  <2>3. UnitTyped'
    BY <1>3, Restarted DEF CtlInv, CtlTyped
  <2>4. BinsTyped'
    BY <1>1, <1>3, NoStageTyped DEF CtlInv, CtlTyped, BinsTyped
  <2>5. Recoverable'
    BY <1>1, <1>3, <2>1 DEF Recoverable, Replacing
  <2>6. Agreeing'
    BY <1>2, <2>1 DEF Agreeing, KeepsWord, Wanted, Halfway, At
  <2>7. QED
    BY <1>1, <1>3, <2>2, <2>3, <2>4, <2>5, <2>6 DEF CtlInv, CtlTyped, FilesTyped, Rooted, BudgetTyped
<1>4. CASE RestartFails /\ cmd' = [cmd EXCEPT !.at = "undo cli", !.again = TRUE] /\ UNCHANGED <<previous, stage>>
  <2>1. UnitTyped' /\ BudgetTyped'
    BY <1>4, RestartFailed DEF CtlInv, CtlTyped
  <2>2. cmd'.at = "undo cli" /\ CommandTyped'
    BY <1>1, <1>4 DEF CtlInv, CtlTyped, CommandTyped, Configuring, Upgrading, Replacing, Uninstalling
  <2>3. Recoverable'
    BY <1>1, <1>4, <2>2 DEF CtlInv, Recoverable, Replacing
  <2>4. Agreeing'
    BY <1>1, <2>2, ElsewhereAgrees DEF CtlInv, Upgrading, Replacing
  <2>5. QED
    BY <1>1, <1>4, <2>1, <2>2, <2>3, <2>4 DEF CtlInv, CtlTyped, FilesTyped, Rooted, BinsTyped
<1>5. QED
  BY <1>3, <1>4 DEF RestartUpgraded

LEMMA UndoKeeps == ASSUME CtlInv, NEW p \in Programs, Undo(p) PROVE CtlInv'
<1>1. /\ cmd.at = (IF p = "cli" THEN "undo cli" ELSE "undo node")
      /\ UNCHANGED <<unit, previous, lockDir, given, left, done, confFile, credFile, metaFile>>
      /\ cmd' = [cmd EXCEPT !.at = IF p = "cli" THEN "undo node" ELSE "clean"]
  BY DEF Undo, At, Files, History
<1>2. cmd'.at = (IF p = "cli" THEN "undo node" ELSE "clean") /\ CommandTyped'
  BY <1>1 DEF CtlInv, CtlTyped, CommandTyped, Configuring, Upgrading, Replacing, Uninstalling
<1>3. CASE bins' = [bins EXCEPT ![p] = stage.backup[p]] /\ UNCHANGED <<stage, ctlBudget>>
  <2>1. BinsTyped'
    BY <1>1, <1>3 DEF CtlInv, CtlTyped, BinsTyped
  <2>2. Recoverable'
    <3>1. CASE p = "cli"
      <4>1. /\ cmd.at = "undo cli" /\ cmd'.at = "undo node" /\ UNCHANGED <<stage, previous>>
            /\ bins'["cli"] = stage.backup["cli"] /\ bins'["node"] = bins["node"]
        BY <1>1, <1>2, <1>3, <3>1 DEF CtlInv, CtlTyped, BinsTyped, Programs
      <4>2. QED
        BY <4>1 DEF CtlInv, Recoverable, Replacing, Programs
    <3>2. CASE p = "node"
      <4>1. /\ cmd.at = "undo node" /\ cmd'.at = "clean" /\ UNCHANGED <<stage, previous>>
            /\ bins'["node"] = stage.backup["node"] /\ bins'["cli"] = bins["cli"]
        BY <1>1, <1>2, <1>3, <3>2 DEF CtlInv, CtlTyped, BinsTyped, Programs
      <4>2. ~stage.kept => bins'["node"] = previous["node"] /\ bins'["cli"] = previous["cli"]
        BY <4>1 DEF CtlInv, Recoverable
      <4>3. ~stage.kept => bins' = previous
        BY <4>2, <2>1 DEF CtlInv, CtlTyped, BinsTyped, Programs
      <4>4. QED
        BY <4>1, <4>3 DEF CtlInv, Recoverable, Replacing, Programs
    <3>3. QED
      BY <3>1, <3>2 DEF Programs
  <2>3. Agreeing'
    BY <1>1, <1>2, <1>3, ElsewhereAgrees DEF CtlInv, Upgrading, Replacing
  <2>4. QED
    BY <1>1, <1>2, <1>3, <2>1, <2>2, <2>3 DEF CtlInv, CtlTyped, FilesTyped, Rooted, UnitTyped, BudgetTyped
<1>4. CASE Mishap /\ stage' = [stage EXCEPT !.kept = TRUE] /\ UNCHANGED bins
  <2>1. BudgetTyped'
    BY <1>4, MishapSpends DEF CtlInv, CtlTyped
  <2>2. /\ stage'.staged = stage.staged /\ stage'.backup = stage.backup /\ stage'.kept
        /\ stage' = [kept |-> stage'.kept, staged |-> stage'.staged, backup |-> stage'.backup]
    BY <1>4 DEF CtlInv, CtlTyped, BinsTyped
  <2>3. Recoverable'
    <3>1. cmd.at \in {"undo cli", "undo node"} /\ cmd'.at \in {"undo node", "clean"} /\ UNCHANGED <<bins, previous>>
      BY <1>1, <1>2, <1>4 DEF Programs
    <3>2. QED
      BY <2>2, <3>1 DEF CtlInv, Recoverable, Replacing
  <2>4. Agreeing'
    BY <1>1, <1>2, <2>1, ElsewhereAgrees DEF CtlInv, Upgrading, Replacing
  <2>5. QED
    BY <1>1, <1>2, <1>4, <2>1, <2>2, <2>3, <2>4 DEF CtlInv, CtlTyped, FilesTyped, Rooted, UnitTyped, BinsTyped
<1>5. QED
  BY <1>3, <1>4 DEF Undo

LEMMA CleanKeeps == ASSUME CtlInv, Clean PROVE CtlInv'
<1>1. /\ cmd.at = "clean" /\ UNCHANGED <<bins, previous, given, left, confFile, credFile, metaFile>>
      /\ stage' = (IF stage.kept THEN stage ELSE NoStage) /\ lockDir' = FALSE /\ cmd' = Rest /\ done'.ok = FALSE
  BY DEF Clean, At, Files, History, Tell
<1>2. UnitTyped' /\ BudgetTyped'
  <2>1. CASE RunManagedService("restart") /\ UNCHANGED ctlBudget
    BY <2>1, Restarted DEF CtlInv, CtlTyped, BudgetTyped
  <2>2. CASE RestartFails
    BY <2>2, RestartFailed DEF CtlInv, CtlTyped
  <2>3. CASE UNCHANGED <<unit, ctlBudget>>
    BY <2>3 DEF CtlInv, CtlTyped, UnitTyped, BudgetTyped
  <2>4. QED
    BY <2>1, <2>2, <2>3 DEF Clean
<1>3. CommandTyped' /\ cmd'.at = "idle"
  BY <1>1, RestTyped
<1>4. BinsTyped'
  BY <1>1, NoStageTyped DEF CtlInv, CtlTyped, BinsTyped
<1>5. Recoverable'
  BY <1>1, <1>3 DEF CtlInv, Recoverable, Replacing
<1>6. Agreeing'
  BY <1>1, <1>3, TokensKeep, FailureAgrees DEF CtlInv, Agreeing
<1>7. QED
  BY <1>1, <1>2, <1>3, <1>4, <1>5, <1>6 DEF CtlInv, CtlTyped, FilesTyped, Rooted

LEMMA StopKeeps == ASSUME CtlInv, UninstallService PROVE CtlInv'
<1>1. /\ cmd.at = "stop" /\ UNCHANGED <<bins, stage, lockDir, previous, given, left, confFile, credFile, metaFile, done, ctlBudget>>
      /\ unit' = [unit EXCEPT !.running = FALSE, !.file = FALSE] /\ Next("remove")
  BY DEF UninstallService, At, Files, History, Next
<1>2. cmd'.at = "remove" /\ cmd.what = "uninstall"
  BY <1>1, NextTo DEF CtlInv, CtlTyped, CommandTyped, Uninstalling
<1>3. CommandTyped'
  BY <1>1, <1>2, NextTyped DEF CtlInv, CtlTyped, Upgrading, Replacing, Uninstalling
<1>4. UnitTyped'
  BY <1>1 DEF CtlInv, CtlTyped, UnitTyped
<1>5. Recoverable'
  BY <1>1, <1>2, HostKeeps DEF CtlInv, Upgrading, Replacing
<1>6. Agreeing'
  BY <1>1, <1>2, ElsewhereAgrees DEF CtlInv, Uninstalling
<1>7. QED
  BY <1>1, <1>3, <1>4, <1>5, <1>6 DEF CtlInv, CtlTyped, FilesTyped, Rooted, BinsTyped, BudgetTyped

LEMMA ProgramsKeeps == ASSUME CtlInv, NEW purge \in BOOLEAN, UninstallPrograms(purge) PROVE CtlInv'
<1>1. /\ cmd.at = "remove" /\ bins' = [p \in Programs |-> "none"] /\ previous' = bins' /\ lockDir' = FALSE
      /\ stage' = NoStage /\ cmd' = Rest /\ UNCHANGED unit /\ metaFile' = NoMeta
      /\ ctlBudget' = [ctlBudget EXCEPT !.commands = 0]
      /\ done'.what = cmd.what /\ done'.ok = TRUE
      /\ \/ UNCHANGED <<confFile, credFile, given, left>>
         \/ confFile' = NoConfig /\ credFile' = {} /\ given' = {} /\ left' = {}
  BY DEF UninstallPrograms, At, Tell
<1>2. CommandTyped' /\ cmd'.at = "idle" /\ cmd.what = "uninstall"
  BY <1>1, RestTyped DEF CtlInv, CtlTyped, CommandTyped, Uninstalling
<1>3. Rooted(NoConfig)
  BY NobodyIds DEF Rooted, NoConfig
<1>4. FilesTyped'
  BY <1>1, <1>3 DEF CtlInv, CtlTyped, FilesTyped, Rooted, NoMeta, Versions
<1>5. TokensFollow'
  BY <1>1, TokensKeep DEF CtlInv, Agreeing, TokensFollow
<1>6. Agreeing'
  BY <1>1, <1>2, <1>5 DEF Agreeing, KeepsWord, Wanted, Halfway
<1>7. BinsTyped'
  BY <1>1, NoStageTyped DEF BinsTyped, Versions
<1>8. BudgetTyped'
  BY <1>1 DEF CtlInv, CtlTyped, BudgetTyped
<1>9. Recoverable'
  BY <1>1, <1>2 DEF Recoverable, Replacing
<1>10. QED
  BY <1>1, <1>2, <1>4, <1>6, <1>7, <1>8, <1>9 DEF CtlInv, CtlTyped, UnitTyped

LEMMA CtlStep == CtlInv /\ [CtlNext]_ctlVars => CtlInv'
<1> SUFFICES ASSUME CtlInv, [CtlNext]_ctlVars PROVE CtlInv'
  OBVIOUS
<1>1. CASE UNCHANGED ctlVars
  BY <1>1, CtlSame
<1>2. CASE CtlNext
  <2>1. "v2" \in Versions
    BY DEF Versions
  <2>2. QED
    BY <1>2, <2>1, ConfigKeeps, RemoveKeeps, KernelKeeps, WriteKeeps, MergeKeeps, PruneKeeps, MetaKeeps, ServeKeeps, RefreshKeeps,
       RemoveLockKeeps, LockKeeps, DownloadKeeps, LinkKeeps, RestartKeeps, CleanKeeps, KillKeeps, ReplaceKeeps, UndoKeeps,
       StopKeeps, ProgramsKeeps DEF CtlNext
<1>3. QED
  BY <1>1, <1>2

\* The invariant says that upgrades are atomic and the files agree.
LEMMA CtlSoundly == CtlInv => CtlTypeOK /\ UpgradeIsAtomic /\ BindingsAgree
<1> SUFFICES ASSUME CtlInv PROVE CtlTypeOK /\ UpgradeIsAtomic /\ BindingsAgree
  OBVIOUS
<1>1. CtlTypeOK
  BY NormalizedNames DEF CtlInv, CtlTyped, CtlTypeOK, FilesTyped, UnitTyped, BinsTyped, BudgetTyped, Configured
<1>2. UpgradeIsAtomic
  BY DEF CtlInv, Recoverable, UpgradeIsAtomic
<1>3. BindingsAgree
  BY DEF CtlInv, BindingsAgree, Agreeing
<1>4. QED
  BY <1>1, <1>2, <1>3

---------------------------------------------------------------------------
(* The configuration file *)

\* A path leads somewhere further than what it starts with, and different parts lead apart.
IsPath(d) == \E S : d \in Seq(S)

LEMMA UnderLeads == ASSUME NEW d, IsPath(d), NEW x PROVE IsPath(Under(d, x)) /\ Under(d, x) # Unset /\ Len(Under(d, x)) = Len(d) + 1
<1>1. PICK S : d \in Seq(S)
  BY DEF IsPath
<1>2. d \in Seq(S \cup {x})
  BY <1>1, SeqMonotonic
<1>3. QED
  BY <1>2, AppendProperties DEF IsPath, Under, Unset

LEMMA UnderApart == ASSUME NEW d, NEW e, IsPath(d), IsPath(e), NEW x, NEW y, Under(d, x) = Under(e, y) PROVE d = e /\ x = y
<1>1. PICK S : d \in Seq(S)
  BY DEF IsPath
<1>2. PICK T : e \in Seq(T)
  BY DEF IsPath
<1>3. DEFINE U == S \cup T \cup {x, y}
<1>4. d \in Seq(U) /\ e \in Seq(U) /\ x \in U /\ y \in U
  BY <1>1, <1>2, SeqMonotonic
<1> HIDE DEF U
<1>5. QED
  BY <1>4, AppendInjective DEF Under

LEMMA BaseLeads == IsPath(Base) /\ Base # Unset /\ Len(Base) = 1
<1>1. Base \in Seq({"base"})
  BY DEF Base
<1>2. QED
  BY <1>1 DEF IsPath, Base, Unset

\* What the directories of an instance are computed from, wherever the rest comes from.
Located == {"dir", "certDir", "stateDir", "interval", "nodes"}
\* The instance of the file as the environment and the top level complete it, before its directories.
Completed(f, k) ==
  WithStateDir(ApplyEnv(IF f.instances = <<>> THEN f.top ELSE InheritFrom(f.instances[k], f.top)))
Held(f) == IF f.instances = <<>> THEN <<f.top>> ELSE f.instances

LEMMA EnvLocates ==
  ASSUME NEW c, Located \subseteq DOMAIN c
  PROVE  /\ Located \subseteq DOMAIN ApplyEnv(c)
         /\ ApplyEnv(c).dir = c.dir /\ ApplyEnv(c).stateDir = c.stateDir /\ ApplyEnv(c).interval = c.interval
         /\ ApplyEnv(c).nodes = c.nodes
<1>1. DOMAIN ApplyEnv(c) = DOMAIN c
  BY DEF ApplyEnv
<1>2. ApplyEnv(c).dir = c.dir
  BY DEF ApplyEnv, Located
<1>3. ApplyEnv(c).stateDir = c.stateDir
  BY DEF ApplyEnv, Located
<1>4. ApplyEnv(c).interval = c.interval
  BY DEF ApplyEnv, Located
<1>5. ApplyEnv(c).nodes = c.nodes
  BY DEF ApplyEnv, Located
<1>6. QED
  BY <1>1, <1>2, <1>3, <1>4, <1>5

LEMMA InheritLocates ==
  ASSUME NEW c, NEW top, Located \subseteq DOMAIN c
  PROVE  /\ Located \subseteq DOMAIN InheritFrom(c, top)
         /\ InheritFrom(c, top).dir = c.dir /\ InheritFrom(c, top).stateDir = Or(c.stateDir, top.stateDir, Unset)
         /\ InheritFrom(c, top).interval = Or(c.interval, top.interval, 0)
         /\ InheritFrom(c, top).nodes = c.nodes
<1>1. DOMAIN InheritFrom(c, top) = DOMAIN c
  BY DEF InheritFrom
<1>2. InheritFrom(c, top).dir = c.dir
  BY DEF InheritFrom, Located
<1>3. InheritFrom(c, top).stateDir = Or(c.stateDir, top.stateDir, Unset)
  BY DEF InheritFrom, Located
<1>4. InheritFrom(c, top).interval = Or(c.interval, top.interval, 0)
  BY DEF InheritFrom, Located
<1>5. InheritFrom(c, top).nodes = c.nodes
  BY DEF InheritFrom, Located
<1>6. QED
  BY <1>1, <1>2, <1>3, <1>4, <1>5

LEMMA StateLocates ==
  ASSUME NEW c, Located \subseteq DOMAIN c
  PROVE  /\ Located \subseteq DOMAIN WithStateDir(c) /\ WithStateDir(c).dir = c.dir
         /\ WithStateDir(c).stateDir = Or(c.stateDir, Under(Base, "firewall"), Unset) /\ WithStateDir(c).interval = c.interval
         /\ WithStateDir(c).nodes = c.nodes
BY DEF WithStateDir, Located

LEMMA DefaultsLocate ==
  ASSUME NEW c, NEW base, Located \subseteq DOMAIN c
  PROVE  LET d == SetDefaults(c, base) IN
         /\ d.dir = Or(c.dir, base, Unset) /\ d.certDir = Or(c.certDir, Under(d.dir, "certs"), Unset)
         /\ d.stateDir = Or(c.stateDir, Under(base, "firewall"), Unset) /\ d.interval = Or(c.interval, 1, 0)
         /\ d.nodes = c.nodes
<1> DEFINE d == SetDefaults(c, base)
<1>1. d.dir = Or(c.dir, base, Unset)
  BY DEF SetDefaults, Located
<1>2. d.certDir = Or(c.certDir, Under(Or(c.dir, base, Unset), "certs"), Unset)
  BY DEF SetDefaults, Located
<1>3. d.stateDir = Or(c.stateDir, Under(base, "firewall"), Unset)
  BY DEF SetDefaults, Located
<1>4. d.interval = Or(c.interval, 1, 0)
  BY DEF SetDefaults, Located
<1>7. d.nodes = c.nodes
  BY DEF SetDefaults, Located
<1> HIDE DEF d
<1>5. d.certDir = Or(c.certDir, Under(d.dir, "certs"), Unset)
  BY <1>1, <1>2
<1>6. QED
  BY <1>1, <1>5, <1>3, <1>4, <1>7 DEF d

\* Everything the file can hold says, or leaves out, these settings.
LEMMA HeldLocated ==
  ASSUME NEW f \in ConfFiles
  PROVE  /\ DOMAIN Held(f) = 1..Len(Held(f)) /\ Len(Held(f)) \in Nat
         /\ \A k \in DOMAIN Held(f) : /\ Located \subseteq DOMAIN Held(f)[k] /\ IsPath(Held(f)[k].dir)
                                     /\ Held(f)[k].nodes \in Seq(NodeEntries)
         /\ f.instances \in Seq(Configs) /\ Len(f.instances) \in Nat /\ DOMAIN f.instances = 1..Len(f.instances)
<1>1. f.top \in Configs /\ f.instances \in Seq(Configs)
  BY RootConstants
<1>2. Held(f) \in Seq(Configs)
  BY <1>1 DEF Held
<1>3. \A k \in DOMAIN Held(f) : Held(f)[k] \in Configs
  BY <1>2
<1>4. \A c \in Configs : Located \subseteq DOMAIN c /\ c.dir \in Seq(STRING) /\ c.nodes \in Seq(NodeEntries)
  BY DEF Configs, Located, Paths
<1>5. QED
  BY <1>1, <1>2, <1>3, <1>4, LenProperties DEF IsPath

\* Where an instance lives: where the file says, or under its identifier when it is one of several.
LEMMA PrepareLocates ==
  ASSUME NEW f \in ConfFiles, NEW k \in DOMAIN Held(f)
  PROVE  LET d == Prepare(f)[k]
             c == Completed(f, k) IN
         /\ DOMAIN Prepare(f) = DOMAIN Held(f)
         /\ d = SetDefaults(c, InstanceBase(c, Len(f.instances)))
         /\ c.dir = Held(f)[k].dir /\ c.nodes = Held(f)[k].nodes
         /\ f.instances # <<>> => /\ c.stateDir = Or(Or(Held(f)[k].stateDir, f.top.stateDir, Unset), Under(Base, "firewall"), Unset)
                                 /\ c.interval = Or(Held(f)[k].interval, f.top.interval, 0)
         /\ Located \subseteq DOMAIN c
<1> DEFINE raw == IF f.instances = <<>> THEN <<f.top>> ELSE [l \in DOMAIN f.instances |-> InheritFrom(f.instances[l], f.top)]
           c == Completed(f, k)
           one == IF f.instances = <<>> THEN f.top ELSE InheritFrom(f.instances[k], f.top)
<1>1. DOMAIN raw = DOMAIN Held(f) /\ raw[k] = one
  BY DEF Held
<1>2. Prepare(f)[k] = SetDefaults(WithStateDir(ApplyEnv(raw[k])), InstanceBase(WithStateDir(ApplyEnv(raw[k])), Len(f.instances)))
  BY <1>1 DEF Prepare
<1>3. DOMAIN Prepare(f) = DOMAIN raw
  BY DEF Prepare
<1>4. /\ Located \subseteq DOMAIN one /\ one.dir = Held(f)[k].dir /\ one.nodes = Held(f)[k].nodes
      /\ f.instances # <<>> => /\ one.stateDir = Or(Held(f)[k].stateDir, f.top.stateDir, Unset)
                              /\ one.interval = Or(Held(f)[k].interval, f.top.interval, 0)
  <2>1. Located \subseteq DOMAIN Held(f)[k]
    BY HeldLocated
  <2>2. CASE f.instances = <<>>
    BY <2>1, <2>2 DEF Held
  <2>3. CASE f.instances # <<>>
    BY <2>1, <2>3, InheritLocates DEF Held
  <2>4. QED
    BY <2>2, <2>3
<1>5. c = WithStateDir(ApplyEnv(one))
  BY DEF Completed
<1> HIDE DEF raw, c, one
<1>6. /\ Located \subseteq DOMAIN c /\ c.dir = one.dir /\ c.nodes = one.nodes
      /\ c.stateDir = Or(one.stateDir, Under(Base, "firewall"), Unset) /\ c.interval = one.interval
  BY <1>4, <1>5, EnvLocates, StateLocates
<1>7. QED
  BY <1>1, <1>2, <1>3, <1>4, <1>5, <1>6 DEF c

\* The file in force is loaded as it is, and started when nothing in it conflicts.
Loaded ==
  /\ step \in {"start", "run"} => instances = Prepare(conf) /\ ValidateRoot(instances)
  /\ step = "run" => Conflict(instances) = ""
\* What runs is what an instance asks for, or what the panel gave to its machine.
Serves(c, s) ==
  IF IsMachineMode(c) THEN \E node \in MachineNodes : s = ExpandMachineNode(c, node) ELSE \E j \in DOMAIN ExpandNodes(c) : s = ExpandNodes(c)[j]
Launched == \A s \in serving : step = "run" /\ \E k \in DOMAIN instances : Serves(instances[k], s)
\* What the last start left in memory, and why it was refused.
Locations(f) == {<<f.instances[k], Prepare(f)[k].dir>> : k \in DOMAIN f.instances}
Remembered ==
  /\ step = "refused" /\ refusal = "shared settings" => Conflict(Prepare(conf)) = "shared settings"
  /\ placed.at # {} => \E f \in ConfFiles : f.top = placed.top /\ ValidateRoot(Prepare(f)) /\ placed.at = Locations(f)
RootTyped ==
  /\ conf \in ConfFiles /\ env \in Envs /\ step \in {"load", "start", "run", "refused"} /\ reloads \in 0..MaxReloads
  /\ refusal \in {"", "invalid", "shared settings", "health port", "directory", "binding"}
RootInv == RootTyped /\ Loaded /\ Launched /\ Remembered

LEMMA ReloadBound == MaxReloads \in Nat
BY RootConstants

LEMMA RootStart == RootInit => RootInv
<1> SUFFICES ASSUME RootInit PROVE RootInv
  OBVIOUS
<1>1. /\ conf \in ConfFiles /\ env \in Envs /\ step = "load" /\ serving = {} /\ placed.at = {} /\ refusal = "" /\ reloads = 0
  BY DEF RootInit, NowhereYet
<1>2. QED
  <2>1. RootTyped
    <3>1. 0 \in 0..MaxReloads
      BY ReloadBound
    <3>2. QED
      BY <1>1, <3>1 DEF RootTyped
  <2>2. Loaded /\ Launched /\ Remembered
    BY <1>1 DEF Loaded, Launched, Remembered
  <2>3. QED
    BY <2>1, <2>2 DEF RootInv

LEMMA ConflictNames == ASSUME NEW cs PROVE Conflict(cs) \in {"", "shared settings", "health port", "directory", "binding"}
BY DEF Conflict

LEMMA PrepareSame == ASSUME UNCHANGED env, NEW f PROVE Prepare(f)' = Prepare(f)
BY DEF Prepare, ApplyEnv

LEMMA LoadKeeps == ASSUME RootInv, LoadRoot PROVE RootInv'
<1>1. UNCHANGED <<conf, env, serving, placed, reloads>> /\ step = "load" /\ serving = {}
  BY DEF LoadRoot, RootInv, Launched
<1>2. Prepare(conf)' = Prepare(conf) /\ \A f : Prepare(f)' = Prepare(f)
  BY <1>1, PrepareSame
<1>3. /\ step' \in {"start", "refused"} /\ (step' = "start" => instances' = Prepare(conf) /\ ValidateRoot(instances') /\ UNCHANGED refusal)
      /\ (step' = "refused" => refusal' = "invalid")
  BY DEF LoadRoot
<1>4. RootTyped'
  BY <1>1, <1>3 DEF RootInv, RootTyped
<1>5. Loaded'
  BY <1>2, <1>3 DEF Loaded
<1>6. Launched'
  BY <1>1 DEF Launched
<1>7. Remembered'
  BY <1>1, <1>2, <1>3 DEF RootInv, Remembered, Locations
<1>8. QED
  BY <1>4, <1>5, <1>6, <1>7 DEF RootInv

LEMMA StartUpKeeps == ASSUME RootInv, StartUp PROVE RootInv'
<1>1. /\ UNCHANGED <<conf, env, instances, reloads>> /\ step = "start" /\ instances = Prepare(conf) /\ ValidateRoot(instances)
      /\ serving = {} /\ conf \in ConfFiles
  BY DEF StartUp, RootInv, RootTyped, Launched, Loaded
<1>2. Prepare(conf)' = Prepare(conf) /\ \A f : Prepare(f)' = Prepare(f)
  BY <1>1, PrepareSame
<1>3. CASE Conflict(instances) # ""
  <2>1. step' = "refused" /\ refusal' = Conflict(instances) /\ UNCHANGED <<serving, placed>>
    BY <1>3 DEF StartUp
  <2>2. RootTyped'
    BY <1>1, <2>1, ConflictNames DEF RootInv, RootTyped
  <2>3. Loaded' /\ Launched'
    BY <1>1, <2>1 DEF Loaded, Launched
  <2>4. Remembered'
    BY <1>1, <1>2, <2>1 DEF RootInv, Remembered, Locations
  <2>5. QED
    BY <2>2, <2>3, <2>4 DEF RootInv
<1>4. CASE Conflict(instances) = ""
  <2>1. /\ step' = "run" /\ refusal' = ""
        /\ placed' = [top |-> conf.top, at |-> {<<conf.instances[k], instances[k].dir>> : k \in DOMAIN conf.instances}]
        /\ serving' = UNION {LET s == ExpandNodes(instances[k]) IN
               IF IsMachineMode(instances[k]) THEN {} ELSE {s[j] : j \in DOMAIN s} : k \in DOMAIN instances}
    BY <1>4 DEF StartUp
  <2>2. RootTyped'
    BY <1>1, <2>1 DEF RootInv, RootTyped
  <2>3. Loaded'
    BY <1>1, <1>2, <1>4, <2>1 DEF Loaded
  <2>4. Launched'
    <3>1. SUFFICES ASSUME NEW s \in serving' PROVE \E k \in DOMAIN instances : Serves(instances[k], s)
      BY <1>1, <2>1 DEF Launched
    <3>2. PICK k \in DOMAIN instances : s \in (LET t == ExpandNodes(instances[k]) IN
               IF IsMachineMode(instances[k]) THEN {} ELSE {t[j] : j \in DOMAIN t})
      BY <2>1
    <3>3. QED
      BY <3>2 DEF Serves
  <2>5. Remembered'
    <3>1. placed'.top = conf.top /\ placed'.at = Locations(conf)
      BY <1>1, <2>1 DEF Locations
    <3>2. Locations(conf)' = Locations(conf) /\ ValidateRoot(Prepare(conf)')
      BY <1>1, <1>2 DEF Locations
    <3>3. \A f : Locations(f)' = Locations(f)
      BY <1>2 DEF Locations
    <3>4. QED
      BY <1>1, <1>2, <2>1, <3>1, <3>2, <3>3 DEF Remembered
  <2>6. QED
    BY <2>2, <2>3, <2>4, <2>5 DEF RootInv
<1>5. QED
  BY <1>3, <1>4

LEMMA DiscoverKeeps == ASSUME RootInv, NEW k \in DOMAIN instances, NEW node \in MachineNodes, MachineDiscovers(k, node) PROVE RootInv'
<1>1. /\ UNCHANGED <<conf, env, step, instances, placed, refusal, reloads>> /\ step = "run" /\ IsMachineMode(instances[k])
      /\ serving' = serving \cup {ExpandMachineNode(instances[k], node)}
  BY DEF MachineDiscovers
<1>2. Prepare(conf)' = Prepare(conf) /\ \A f : Prepare(f)' = Prepare(f)
  BY <1>1, PrepareSame
<1>3. RootTyped' /\ Loaded'
  BY <1>1, <1>2 DEF RootInv, RootTyped, Loaded
<1>4. Launched'
  BY <1>1 DEF RootInv, Launched, Serves
<1>5. Remembered'
  BY <1>1, <1>2 DEF RootInv, Remembered, Locations
<1>6. QED
  BY <1>3, <1>4, <1>5 DEF RootInv

LEMMA ReplaceFileKeeps == ASSUME RootInv, NEW f \in ConfFiles, Replace(f) PROVE RootInv'
<1>1. /\ conf' = f /\ step' = "load" /\ reloads' = reloads + 1 /\ reloads < MaxReloads /\ serving' = {}
      /\ UNCHANGED <<env, placed, refusal>>
  BY DEF Replace
<1>2. \A g : Prepare(g)' = Prepare(g)
  BY <1>1, PrepareSame
<1>3. RootTyped'
  <2>3. reloads \in 0..MaxReloads
    BY DEF RootInv, RootTyped
  <2>1. reloads' \in 0..MaxReloads
    BY <1>1, <2>3, ReloadBound
  <2>2. QED
    BY <1>1, <2>1 DEF RootInv, RootTyped
<1>4. Loaded' /\ Launched'
  BY <1>1 DEF Loaded, Launched
<1>5. Remembered'
  BY <1>1, <1>2 DEF RootInv, Remembered, Locations
<1>6. QED
  BY <1>3, <1>4, <1>5 DEF RootInv

LEMMA RootSame == ASSUME RootInv, UNCHANGED rootVars PROVE RootInv'
<1>1. UNCHANGED <<conf, env, step, instances, serving, placed, refusal, reloads>>
  BY DEF rootVars
<1>2. Prepare(conf)' = Prepare(conf) /\ \A f : Prepare(f)' = Prepare(f)
  BY <1>1, PrepareSame
<1>3. RootTyped' /\ Loaded' /\ Launched'
  BY <1>1, <1>2 DEF RootInv, RootTyped, Loaded, Launched
<1>4. Remembered'
  BY <1>1, <1>2 DEF RootInv, Remembered, Locations
<1>5. QED
  BY <1>3, <1>4 DEF RootInv

LEMMA RootStep == RootInv /\ [RootNext]_rootVars => RootInv'
BY LoadKeeps, StartUpKeeps, DiscoverKeeps, ReplaceFileKeeps, RootSame DEF RootNext

\* The services of a file that was started lie apart, and its directories say where.
LEMMA PreparedLies ==
  ASSUME NEW f \in ConfFiles, NEW k \in DOMAIN Prepare(f)
  PROVE  LET d == Prepare(f)[k] IN
         /\ k \in DOMAIN Held(f) /\ DOMAIN Prepare(f) = 1..Len(Held(f))
         /\ IsPath(d.dir) /\ d.dir # Unset /\ d.certDir # Unset /\ d.nodes \in Seq(NodeEntries)
         /\ Held(f)[k].dir = Unset /\ Len(f.instances) > 1 => Len(d.dir) = 2
<1> DEFINE c == Completed(f, k)
           base == InstanceBase(c, Len(f.instances))
           d == Prepare(f)[k]
<1>1. k \in DOMAIN Held(f) /\ DOMAIN Prepare(f) = 1..Len(Held(f))
  <2>1. DOMAIN Prepare(f) = DOMAIN Held(f)
    BY DEF Prepare, Held
  <2>2. QED
    BY <2>1, HeldLocated
<1>2. IsPath(Held(f)[k].dir) /\ Held(f)[k].nodes \in Seq(NodeEntries)
  BY <1>1, HeldLocated
<1>3. d = SetDefaults(c, base) /\ c.dir = Held(f)[k].dir /\ c.nodes = Held(f)[k].nodes /\ Located \subseteq DOMAIN c
  BY <1>1, PrepareLocates
<1>4. IsPath(base) /\ base # Unset /\ (c.dir = Unset /\ Len(f.instances) > 1 => Len(base) = 2)
  <2>1. \A x : IsPath(Under(Base, x)) /\ Under(Base, x) # Unset /\ Len(Under(Base, x)) = Len(Base) + 1
    BY BaseLeads, UnderLeads
  <2> HIDE DEF c
  <2>2. base = Under(Base, AutoInstanceID(c)) \/ (base = Base /\ ~(Len(f.instances) > 1 /\ c.dir = Unset))
    BY Zenon DEF InstanceBase
  <2>3. QED
    BY <2>1, <2>2, BaseLeads
<1> HIDE DEF c, base, d
<1>5. d.dir = Or(c.dir, base, Unset) /\ d.certDir = Or(c.certDir, Under(d.dir, "certs"), Unset) /\ d.nodes = c.nodes
  BY <1>3, DefaultsLocate
<1>6. IsPath(d.dir) /\ d.dir # Unset
  BY <1>2, <1>3, <1>4, <1>5 DEF Or
<1>7. d.certDir # Unset
  BY <1>5, <1>6, UnderLeads DEF Or
<1>8. Held(f)[k].dir = Unset /\ Len(f.instances) > 1 => Len(d.dir) = 2
  BY <1>3, <1>4, <1>5 DEF Or
<1>9. QED
  BY <1>1, <1>2, <1>3, <1>5, <1>6, <1>7, <1>8 DEF d

LEMMA ServedAlone ==
  ASSUME NEW c, NEW s, Serves(c, s), ~IsMachineMode(c), c.nodes = <<>>
  PROVE  s = Service(c, c.node, c.dir, c.certDir, TRUE)
<1> DEFINE only == Service(c, c.node, c.dir, c.certDir, TRUE)
<1>1. ExpandNodes(c) = <<only>>
  BY DEF ExpandNodes
<1>2. PICK j \in DOMAIN ExpandNodes(c) : s = ExpandNodes(c)[j]
  BY DEF Serves
<1> HIDE DEF only
<1>3. s = only
  BY <1>1, <1>2
<1>4. QED
  BY <1>3 DEF only

\* What a service is, whichever instance asks for it.
LEMMA ServedTypes ==
  ASSUME NEW c, NEW s, Serves(c, s), IsPath(c.dir), c.dir # Unset, c.certDir # Unset, c.nodes \in Seq(NodeEntries), c.standalone \/ c.url # ""
  PROVE  /\ s.dir # Unset /\ s.certDir # Unset /\ (s.url # "" \/ s.instance = <<"standalone">>)
<1>1. s.url = c.url /\ s.instance = AutoInstanceID(c) /\ s.dir # Unset /\ s.certDir # Unset
  <2>1. CASE IsMachineMode(c)
    <3>1. PICK node \in MachineNodes : s = ExpandMachineNode(c, node)
      BY <2>1 DEF Serves
    <3>2. IsPath(Under(c.dir, node)) /\ Under(c.dir, node) # Unset /\ Under(Under(c.dir, node), "certs") # Unset
      BY UnderLeads
    <3>3. QED
      BY <3>1, <3>2 DEF ExpandMachineNode, Service
  <2>2. CASE ~IsMachineMode(c) /\ c.nodes = <<>>
    <3>1. s = Service(c, c.node, c.dir, c.certDir, TRUE)
      BY <2>2, ServedAlone
    <3>2. QED
      BY <3>1 DEF Service
  <2>3. CASE ~IsMachineMode(c) /\ c.nodes # <<>>
    <3>1. PICK j \in DOMAIN c.nodes :
            s = Service(c, c.nodes[j].id, EntryDir(c, c.nodes[j]), EntryCertDir(c, c.nodes[j]), ~c.nodes[j].kernel)
      BY <2>3 DEF Serves, ExpandNodes
    <3>2. c.nodes[j].dir \in Seq(STRING)
      <4>1. c.nodes[j] \in NodeEntries
        BY LenProperties
      <4>2. QED
        BY <4>1 DEF NodeEntries, Paths
    <3>3. IsPath(EntryDir(c, c.nodes[j])) /\ EntryDir(c, c.nodes[j]) # Unset
      BY <3>2, UnderLeads DEF EntryDir, Or, IsPath
    <3>4. EntryCertDir(c, c.nodes[j]) # Unset
      BY <3>3, UnderLeads DEF EntryCertDir
    <3>5. QED
      BY <3>1, <3>3, <3>4 DEF Service
  <2>4. QED
    BY <2>1, <2>2, <2>3
<1>2. QED
  BY <1>1 DEF AutoInstanceID

LEMMA RootTypes == RootInv => RootTypeOK
<1> SUFFICES ASSUME RootInv PROVE RootTypeOK
  OBVIOUS
<1>1. SUFFICES ASSUME NEW s \in serving PROVE s.dir # Unset /\ s.certDir # Unset /\ (s.url # "" \/ s.instance = <<"standalone">>)
  BY DEF RootInv, RootTyped, RootTypeOK
<1>2. PICK k \in DOMAIN instances : Serves(instances[k], s)
  BY DEF RootInv, Launched
<1>3. conf \in ConfFiles /\ instances = Prepare(conf) /\ ValidateRoot(instances)
  BY DEF RootInv, RootTyped, Loaded, Launched
<1>4. /\ IsPath(instances[k].dir) /\ instances[k].dir # Unset /\ instances[k].certDir # Unset
      /\ instances[k].nodes \in Seq(NodeEntries)
  BY <1>3, PreparedLies
<1>5. instances[k].standalone \/ instances[k].url # ""
  BY <1>3 DEF ValidateRoot
<1>6. QED
  BY <1>2, <1>4, <1>5, ServedTypes

\* Two services of one instance that live in one directory of its own are one.
LEMMA ApartWithin ==
  ASSUME NEW c, NEW s, NEW t, Serves(c, s), Serves(c, t), s.own, t.own, s.dir = t.dir, IsPath(c.dir),
         c.nodes \in Seq(NodeEntries),
         ~IsMachineMode(c) => \A a, b \in DOMAIN Bindings(c) : Bindings(c)[a] = Bindings(c)[b] => a = b
  PROVE  s = t
<1>1. CASE IsMachineMode(c)
  <2>1. PICK node \in MachineNodes : s = ExpandMachineNode(c, node)
    BY <1>1 DEF Serves
  <2>2. PICK other \in MachineNodes : t = ExpandMachineNode(c, other)
    BY <1>1 DEF Serves
  <2>3. Under(c.dir, node) = Under(c.dir, other)
    BY <2>1, <2>2 DEF ExpandMachineNode, Service
  <2>4. QED
    BY <2>1, <2>2, <2>3, UnderApart
<1>2. CASE ~IsMachineMode(c) /\ c.nodes = <<>>
  BY <1>2, ServedAlone
<1>3. CASE ~IsMachineMode(c) /\ c.nodes # <<>>
  <2>1. PICK i \in DOMAIN c.nodes :
          s = Service(c, c.nodes[i].id, EntryDir(c, c.nodes[i]), EntryCertDir(c, c.nodes[i]), ~c.nodes[i].kernel)
    BY <1>3 DEF Serves, ExpandNodes
  <2>2. PICK j \in DOMAIN c.nodes :
          t = Service(c, c.nodes[j].id, EntryDir(c, c.nodes[j]), EntryCertDir(c, c.nodes[j]), ~c.nodes[j].kernel)
    BY <1>3 DEF Serves, ExpandNodes
  <2>3. Under(c.dir, c.nodes[i].id) = Under(c.dir, c.nodes[j].id)
    BY <2>1, <2>2 DEF EntryDir, Service
  <2>4. c.nodes[i].id = c.nodes[j].id
    BY <2>3, UnderApart
  <2>5. /\ DOMAIN Bindings(c) = DOMAIN c.nodes
        /\ \A a \in DOMAIN c.nodes : Bindings(c)[a] = <<c.url, c.nodes[a].id>>
    BY <1>3 DEF Bindings, ExpandNodes, Service
  <2>6. i = j
    BY <1>3, <2>4, <2>5
  <2>7. QED
    BY <2>1, <2>2, <2>6
<1>4. QED
  BY <1>1, <1>2, <1>3

\* The directory of a service of its own is its instance's, or lies directly under it.
LEMMA ServedUnder ==
  ASSUME NEW c, NEW s, Serves(c, s), s.own
  PROVE  s.dir = c.dir \/ \E x : s.dir = Under(c.dir, x)
<1>1. CASE IsMachineMode(c)
  BY <1>1 DEF Serves, ExpandMachineNode, Service
<1>2. CASE ~IsMachineMode(c) /\ c.nodes = <<>>
  BY <1>2 DEF Serves, ExpandNodes, Service
<1>3. CASE ~IsMachineMode(c) /\ c.nodes # <<>>
  <2>1. PICK i \in DOMAIN c.nodes :
          s = Service(c, c.nodes[i].id, EntryDir(c, c.nodes[i]), EntryCertDir(c, c.nodes[i]), ~c.nodes[i].kernel)
    BY <1>3 DEF Serves, ExpandNodes
  <2>2. QED
    BY <2>1 DEF EntryDir, Service
<1>4. QED
  BY <1>1, <1>2, <1>3

\* Services of two instances that were both placed by their identifier do not meet.
LEMMA ApartAcross ==
  ASSUME NEW c, NEW d, NEW s, NEW t, Serves(c, s), Serves(d, t), s.own, t.own, IsPath(c.dir), IsPath(d.dir),
         Len(c.dir) = 2, Len(d.dir) = 2, c.dir # d.dir
  PROVE  s.dir # t.dir
<1>1. s.dir = c.dir \/ \E x : s.dir = Under(c.dir, x)
  BY ServedUnder
<1>2. t.dir = d.dir \/ \E x : t.dir = Under(d.dir, x)
  BY ServedUnder
<1>3. \A x : Len(Under(c.dir, x)) = 3 /\ Len(Under(d.dir, x)) = 3
  <2>1. \A x : Len(Under(c.dir, x)) = Len(c.dir) + 1 /\ Len(Under(d.dir, x)) = Len(d.dir) + 1
    BY UnderLeads
  <2>2. QED
    BY <2>1
<1>4. \A x, y : Under(c.dir, x) # Under(d.dir, y)
  BY UnderApart
<1>5. QED
  BY <1>1, <1>2, <1>3, <1>4

LEMMA RootApart == RootInv => DirsApart
<1> SUFFICES ASSUME RootInv, ~HandSet, NEW s \in serving, NEW t \in serving, s.own, t.own, s.dir = t.dir PROVE s = t
  BY DEF DirsApart
<1>1. PICK k \in DOMAIN instances : Serves(instances[k], s)
  BY DEF RootInv, Launched
<1>2. PICK l \in DOMAIN instances : Serves(instances[l], t)
  BY DEF RootInv, Launched
<1>3. conf \in ConfFiles /\ instances = Prepare(conf) /\ ValidateRoot(instances) /\ Conflict(instances) = ""
  BY DEF RootInv, RootTyped, Loaded, Launched
<1>4. \A m \in DOMAIN instances :
        /\ m \in DOMAIN Held(conf) /\ IsPath(instances[m].dir) /\ instances[m].nodes \in Seq(NodeEntries)
        /\ Held(conf)[m].dir = Unset /\ Len(conf.instances) > 1 => Len(instances[m].dir) = 2
  BY <1>3, PreparedLies
<1>5. CASE k = l
  <2>1. ~IsMachineMode(instances[k]) =>
          \A a, b \in DOMAIN Bindings(instances[k]) : Bindings(instances[k])[a] = Bindings(instances[k])[b] => a = b
    BY <1>3 DEF Conflict
  <2>2. QED
    BY <1>1, <1>2, <1>4, <1>5, <2>1, ApartWithin
<1>6. CASE k # l
  <2>1. DOMAIN Held(conf) = 1..Len(Held(conf)) /\ Len(Held(conf)) \in Nat /\ k \in DOMAIN Held(conf) /\ l \in DOMAIN Held(conf)
    BY <1>3, <1>4, HeldLocated
  <2>2. Len(Held(conf)) > 1
    BY <1>6, <2>1
  <2>3. Held(conf) = conf.instances
    BY <2>2 DEF Held
  <2>4. Held(conf)[k].dir = Unset /\ Held(conf)[l].dir = Unset
    BY <2>1, <2>3 DEF HandSet
  <2>5. instances[k].dir # instances[l].dir
    BY <1>3, <1>6 DEF Conflict
  <2>6. Len(instances[k].dir) = 2 /\ Len(instances[l].dir) = 2
    BY <1>4, <2>2, <2>3, <2>4
  <2>7. QED
    BY <1>1, <1>2, <1>4, <2>5, <2>6, ApartAcross
<1>7. QED
  BY <1>5, <1>6

\* Directories depend on what an instance says and on whether it has company, not on its place.
LEMMA PlaceDoesNotMatter ==
  ASSUME NEW f \in ConfFiles, NEW g \in ConfFiles, f.top = g.top, NEW k \in DOMAIN f.instances, NEW l \in DOMAIN g.instances,
         f.instances[k] = g.instances[l], Len(f.instances) > 1 <=> Len(g.instances) > 1
  PROVE  Prepare(f)[k] = Prepare(g)[l]
<1>1. DOMAIN f.instances # {} /\ DOMAIN g.instances # {}
  OBVIOUS
<1>2. f.instances # <<>> /\ g.instances # <<>>
  BY <1>1
<1>3. Held(f) = f.instances /\ Held(g) = g.instances /\ Completed(f, k) = Completed(g, l)
  BY <1>2 DEF Held, Completed
<1>4. /\ Prepare(f)[k] = SetDefaults(Completed(f, k), InstanceBase(Completed(f, k), Len(f.instances)))
      /\ Prepare(g)[l] = SetDefaults(Completed(g, l), InstanceBase(Completed(g, l), Len(g.instances)))
  BY <1>3, PrepareLocates
<1>5. InstanceBase(Completed(f, k), Len(f.instances)) = InstanceBase(Completed(g, l), Len(g.instances))
  BY <1>3 DEF InstanceBase
<1>6. QED
  BY <1>3, <1>4, <1>5

\* A valid file says nothing twice: it has several instances when it says several things.
LEMMA NothingTwice ==
  ASSUME NEW f \in ConfFiles, ValidateRoot(Prepare(f)), NEW k \in DOMAIN f.instances, NEW l \in DOMAIN f.instances,
         f.instances[k] = f.instances[l]
  PROVE  k = l
<1>1. Prepare(f)[k] = Prepare(f)[l]
  BY PlaceDoesNotMatter
<1>2. k \in DOMAIN Prepare(f) /\ l \in DOMAIN Prepare(f)
  BY DEF Prepare
<1>3. QED
  BY <1>1, <1>2 DEF ValidateRoot

LEMMA SameCompany ==
  ASSUME NEW f \in ConfFiles, NEW g \in ConfFiles, ValidateRoot(Prepare(f)), SetOf(f) = SetOf(g), Len(f.instances) > 1
  PROVE  Len(g.instances) > 1
<1>1. /\ Len(f.instances) \in Nat /\ DOMAIN f.instances = 1..Len(f.instances)
      /\ Len(g.instances) \in Nat /\ DOMAIN g.instances = 1..Len(g.instances)
  BY HeldLocated
<1>2. 1 \in DOMAIN f.instances /\ 2 \in DOMAIN f.instances
  BY <1>1
<1>3. f.instances[1] # f.instances[2]
  BY <1>2, NothingTwice
<1>4. PICK i \in DOMAIN g.instances : g.instances[i] = f.instances[1]
  BY <1>2 DEF SetOf
<1>5. PICK j \in DOMAIN g.instances : g.instances[j] = f.instances[2]
  BY <1>2 DEF SetOf
<1>6. i # j
  BY <1>3, <1>4, <1>5
<1>7. QED
  BY <1>1, <1>6

LEMMA SameLocations ==
  ASSUME NEW f \in ConfFiles, NEW g \in ConfFiles, f.top = g.top, SetOf(f) = SetOf(g), ValidateRoot(Prepare(f)), ValidateRoot(Prepare(g))
  PROVE  Locations(f) = Locations(g)
<1>1. Len(f.instances) > 1 <=> Len(g.instances) > 1
  BY SameCompany
<1>2. \A k \in DOMAIN f.instances : \E l \in DOMAIN g.instances : f.instances[k] = g.instances[l] /\ Prepare(f)[k] = Prepare(g)[l]
  <2>1. TAKE k \in DOMAIN f.instances
  <2>2. PICK l \in DOMAIN g.instances : g.instances[l] = f.instances[k]
    BY DEF SetOf
  <2>3. QED
    BY <1>1, <2>2, PlaceDoesNotMatter
<1>3. \A l \in DOMAIN g.instances : \E k \in DOMAIN f.instances : f.instances[k] = g.instances[l] /\ Prepare(f)[k] = Prepare(g)[l]
  <2>1. TAKE l \in DOMAIN g.instances
  <2>2. PICK k \in DOMAIN f.instances : g.instances[l] = f.instances[k]
    BY DEF SetOf
  <2>3. QED
    BY <1>1, <2>2, PlaceDoesNotMatter
<1>4. QED
  BY <1>2, <1>3 DEF Locations

\* Settings that are given on top only, or nowhere, are the same in every instance.
LEMMA OnTopIsShared ==
  ASSUME NEW f \in ConfFiles, \A k \in DOMAIN f.instances : f.instances[k].stateDir = Unset /\ f.instances[k].interval = 0
  PROVE  Conflict(Prepare(f)) # "shared settings"
<1>1. DOMAIN Prepare(f) = DOMAIN Held(f)
  BY DEF Prepare, Held
<1>2. CASE f.instances = <<>>
  <2>1. DOMAIN Prepare(f) = {1}
    BY <1>1, <1>2 DEF Held
  <2>2. QED
    BY <2>1 DEF Conflict
<1>3. CASE f.instances # <<>>
  <2> DEFINE dir == Or(f.top.stateDir, Under(Base, "firewall"), Unset)
             interval == Or(Or(0, f.top.interval, 0), 1, 0)
  <2>1. ASSUME NEW k \in DOMAIN Prepare(f) PROVE SharedSettings(Prepare(f)[k]) = <<dir, interval>>
    <3>1. /\ Completed(f, k).stateDir = Or(Or(Unset, f.top.stateDir, Unset), Under(Base, "firewall"), Unset)
          /\ Completed(f, k).interval = Or(0, f.top.interval, 0) /\ Located \subseteq DOMAIN Completed(f, k)
          /\ Prepare(f)[k] = SetDefaults(Completed(f, k), InstanceBase(Completed(f, k), Len(f.instances)))
      <4>1. k \in DOMAIN f.instances /\ k \in DOMAIN Held(f) /\ Held(f)[k] = f.instances[k]
        BY <1>1, <1>3, <2>1 DEF Held
      <4>2. Held(f)[k].stateDir = Unset /\ Held(f)[k].interval = 0
        BY <4>1
      <4>3. QED
        BY <1>3, <4>1, <4>2, PrepareLocates
    <3>2. Completed(f, k).stateDir = dir
      BY <3>1 DEF Or
    <3>3. dir # Unset
      BY BaseLeads, UnderLeads DEF Or
    <3>4. /\ Prepare(f)[k].interval = interval
          /\ Prepare(f)[k].stateDir = Or(dir, Under(InstanceBase(Completed(f, k), Len(f.instances)), "firewall"), Unset)
      BY <3>1, <3>2, DefaultsLocate
    <3>5. Prepare(f)[k].stateDir = dir
      BY <3>3, <3>4 DEF Or
    <3>6. QED
      BY <3>4, <3>5 DEF SharedSettings
  <2> HIDE DEF dir, interval
  <2>2. 1 \in DOMAIN Prepare(f)
    <3>1. DOMAIN f.instances = 1..Len(f.instances) /\ Len(f.instances) \in Nat /\ f.instances \in Seq(Configs)
      BY HeldLocated
    <3>2. Len(f.instances) # 0
      BY <1>3, <3>1, EmptySeq
    <3>3. QED
      BY <1>1, <1>3, <3>1, <3>2 DEF Held
  <2>3. \A k \in DOMAIN Prepare(f) : SharedSettings(Prepare(f)[k]) = SharedSettings(Prepare(f)[1])
    BY <2>1, <2>2
  <2>4. QED
    BY <2>3 DEF Conflict
<1>4. QED
  BY <1>2, <1>3

LEMMA RootStable == RootInv => LayoutIsStable
<1> SUFFICES ASSUME RootInv PROVE LayoutIsStable
  OBVIOUS
<1>1. ASSUME step = "start", placed.top = conf.top, {p[1] : p \in placed.at} = SetOf(conf), SetOf(conf) # {}
      PROVE  {<<conf.instances[k], instances[k].dir>> : k \in DOMAIN conf.instances} = placed.at
  <2>1. conf \in ConfFiles /\ instances = Prepare(conf) /\ ValidateRoot(Prepare(conf))
    BY <1>1 DEF RootInv, RootTyped, Loaded
  <2>2. placed.at # {}
    BY <1>1
  <2>3. PICK f \in ConfFiles : f.top = placed.top /\ ValidateRoot(Prepare(f)) /\ placed.at = Locations(f)
    BY <2>2 DEF RootInv, Remembered
  <2>4. {p[1] : p \in Locations(f)} = SetOf(f)
    <3>1. \A p \in Locations(f) : p[1] \in SetOf(f)
      BY DEF Locations, SetOf
    <3>2. \A k \in DOMAIN f.instances : \E p \in Locations(f) : p[1] = f.instances[k]
      <4>1. TAKE k \in DOMAIN f.instances
      <4>2. <<f.instances[k], Prepare(f)[k].dir>> \in Locations(f)
        BY DEF Locations
      <4>3. QED
        BY <4>2
    <3>3. QED
      BY <3>1, <3>2 DEF SetOf
  <2>5. Locations(conf) = Locations(f)
    BY <1>1, <2>1, <2>3, <2>4, SameLocations
  <2>6. QED
    BY <2>1, <2>3, <2>5 DEF Locations
<1>2. ASSUME refusal = "shared settings", step = "refused" PROVE ~OnlyOnTop
  <2>1. conf \in ConfFiles /\ Conflict(Prepare(conf)) = "shared settings"
    BY <1>2 DEF RootInv, RootTyped, Remembered
  <2>2. QED
    BY <2>1, OnTopIsShared DEF OnlyOnTop
<1>3. QED
  BY <1>1, <1>2 DEF LayoutIsStable

---------------------------------------------------------------------------
(* The services together: each behaviour is one of one part *)

ServicesInv ==
  /\ part = "cert" => CertInv
  /\ part = "time" => TimeInv
  /\ part = "conf" => RootInv
  /\ part = "ctl" => CtlInv

LEMMA ServicesStart == ServicesInit => ServicesInv
BY CertStart, TimeStart, RootStart, CtlStart DEF ServicesInit, ServicesInv

LEMMA ServicesStep == ServicesInv /\ [ServicesNext]_servicesVars => ServicesInv'
<1> SUFFICES ASSUME ServicesInv, [ServicesNext]_servicesVars PROVE ServicesInv'
  OBVIOUS
<1>1. part' = part
  BY DEF ServicesNext, servicesVars
<1>2. CASE part = "cert"
  <2>1. [CertNext]_certVars
    BY <1>2 DEF ServicesNext, servicesVars
  <2>2. QED
    BY <1>1, <1>2, <2>1, CertStep DEF ServicesInv
<1>3. CASE part = "time"
  <2>1. [TimeNext]_timeVars
    BY <1>3 DEF ServicesNext, servicesVars
  <2>2. QED
    BY <1>1, <1>3, <2>1, TimeStep DEF ServicesInv
<1>4. CASE part = "conf"
  <2>1. [RootNext]_rootVars
    BY <1>4 DEF ServicesNext, servicesVars
  <2>2. QED
    BY <1>1, <1>4, <2>1, RootStep DEF ServicesInv
<1>5. CASE part = "ctl"
  <2>1. [CtlNext]_ctlVars
    BY <1>5 DEF ServicesNext, servicesVars
  <2>2. QED
    BY <1>1, <1>5, <2>1, CtlStep DEF ServicesInv
<1>6. QED
  BY <1>1, <1>2, <1>3, <1>4, <1>5 DEF ServicesInv

LEMMA ServicesAlways == ServicesSpec => []ServicesInv
BY ServicesStart, ServicesStep, PTL DEF ServicesSpec

\* The parts stay within their types.
THEOREM ServicesTyped == ServicesSpec => []ServicesTypeOK
<1>1. ServicesInv => ServicesTypeOK
  BY CertSoundly, RootTypes, CtlSoundly DEF ServicesInv, ServicesTypeOK, TimeInv
<1>2. QED
  BY <1>1, ServicesAlways, PTL

\* The kernel never gets half of one pair and half of another, whatever fails, crashes or is edited while a
\* renewal races the service, and it runs the material that is in force or is about to.
THEOREM CertSoundHolds == ServicesSpec => []CertSound
<1>1. ServicesInv => CertSound
  BY CertSoundly DEF ServicesInv, CertSound
<1>2. QED
  BY <1>1, ServicesAlways, PTL

\* The offset the kernels read is 0 or, if most servers that answered are right, the true one, however
\* many are silent and whatever the others say, and it is never older than three intervals; whoever comes
\* to need the clock is told its state, or a report of it is under way, although the nodes and the check
\* log outside the lock.
THEOREM ClockSoundHolds == ServicesSpec => []ClockSound
<1>1. ServicesInv => ClockSound
  BY InvGivesClockTrusted DEF ServicesInv, ClockSound, TimeInv, Telling, NeedIsTold, Required
<1>2. QED
  BY <1>1, ServicesAlways, PTL

\* Directories that nobody set by hand are apart for every file that passes validation and the start's
\* check, and they depend on what an instance says, not on its place in the file.
THEOREM LayoutSoundHolds == ServicesSpec => []LayoutSound
<1>1. ServicesInv => LayoutSound
  BY RootApart, RootStable DEF ServicesInv, LayoutSound
<1>2. QED
  BY <1>1, ServicesAlways, PTL

\* Whichever step of an upgrade, of its rollback or of a later command fails or is interrupted, the programs
\* from before it are in their places or linked in the stage.
THEOREM UpgradeSoundHolds == ServicesSpec => []UpgradeSound
<1>1. ServicesInv => UpgradeSound
  BY CtlSoundly DEF ServicesInv, UpgradeSound
<1>2. QED
  BY <1>1, ServicesAlways, PTL

\* xbctl/main.go: whatever failed or was killed between two writes, no token is separated from its binding
\* except one that an interrupted removal left; and what a command reports as done is so: an added binding is
\* configured, has its token, is listed and served, a removed one is gone with its token (unless the file had
\* a binding at its top level, which comes back without it).
THEOREM BindingsSoundHolds == ServicesSpec => []BindingsSound
<1>1. ServicesInv => BindingsSound
  BY CtlSoundly DEF ServicesInv, BindingsSound
<1>2. QED
  BY <1>1, ServicesAlways, PTL
====
