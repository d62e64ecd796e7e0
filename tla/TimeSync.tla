---- MODULE TimeSync ----
(* The protocol clock (internal/timesync/manager.go): every interval all NTP servers are asked at  *)
(* once, the median of the answers becomes the offset of the clock the kernels read, and a         *)
(* calibration older than three intervals is not used. Servers and time are external.              *)
EXTENDS Integers, FiniteSets

CONSTANTS NtpServers, Liars,         \* the configured servers, and those whose clocks are wrong
          TrueOffset, WrongOffsets,  \* what the others answer, and what these may
          Interval, Bounds,          \* the interval, and the warning, error and critical offsets
          Consumers, MaxNow, MaxUses

ASSUME TimeConstants ==
  /\ IsFiniteSet(NtpServers) /\ TrueOffset \in Int /\ WrongOffsets \subseteq Int
  /\ Interval \in Nat \ {0} /\ MaxNow \in Nat /\ MaxUses \in Nat

StaleAfter == 3 * Interval
Never == -1
NoState == [offset |-> 0, success |-> Never, failed |-> FALSE]

VARIABLES ntpNow,     \* the machine's clock
          syncer,     \* the goroutine of Start and loop: what Check is about to do
          cancelled,  \* the context is cancelled: Stop was called
          clock,      \* m.clock, what TimeFunc reads
          ntpState,   \* m.state
          consumers,  \* m.consumers
          logged,     \* m.lastLoggedKey, <<>> for ""
          reporting,  \* the snapshots that SetUsage and Check have taken and not yet logged
          told,       \* history: the state was logged since the clock was last needed
          backed,     \* history: most of the servers whose answers made the clock are right
          uses        \* SetUsage calls so far
timeVars == <<ntpNow, syncer, cancelled, clock, ntpState, consumers, logged, reporting, told, backed, uses>>

TimeInit ==
  /\ ntpNow = 0 /\ syncer = "new" /\ cancelled = FALSE
  /\ clock = NoState /\ ntpState = NoState
  /\ consumers = {} /\ logged = <<>> /\ reporting = {} /\ told = FALSE /\ backed = FALSE /\ uses = 0

Distance(a) == IF a < 0 THEN -a ELSE a
Classify(offset) ==
  IF Distance(offset) >= Bounds.critical THEN "critical"
  ELSE IF Distance(offset) >= Bounds.error THEN "error"
  ELSE IF Distance(offset) >= Bounds.warn THEN "warning" ELSE "normal"
\* Mutant: a calibration never ages.
NeverCalibrated(success) == success = Never
Expired(success) == success = Never \/ ntpNow - success > StaleAfter
Required == consumers # {}
Snapshot == [required |-> Required,
             key |-> <<IF Expired(ntpState.success) THEN "unavailable" ELSE Classify(ntpState.offset),
                       ntpState.failed, ntpState.success # Never /\ Expired(ntpState.success)>>]
\* TimeFunc: the offset the kernels' clocks run with.
TimeFunc == IF Expired(clock.success) THEN 0 ELSE clock.offset

Go(at) == syncer' = at
KeepReports == UNCHANGED <<consumers, logged, reporting, told, uses>>
KeepClock == UNCHANGED <<clock, ntpState, backed>>

\* Start makes the first check itself, inside the wait group; loop makes one each interval.
Start ==
  /\ syncer = "new" /\ ~cancelled /\ Go("query")
  /\ KeepReports /\ KeepClock /\ UNCHANGED <<ntpNow, cancelled>>
Loop ==
  /\ syncer = "loop" /\ ntpNow % Interval = 0 /\ ntpNow > ntpState.success
  /\ Go("query")
  /\ KeepReports /\ KeepClock /\ UNCHANGED <<ntpNow, cancelled>>
EndLoop ==
  /\ syncer = "loop" /\ cancelled /\ Go("ended")
  /\ KeepReports /\ KeepClock /\ UNCHANGED <<ntpNow, cancelled>>
\* Stop cancels and then waits for the goroutine (syncer = "ended").
Stop ==
  /\ ~cancelled /\ syncer \notin {"new", "ended"} /\ cancelled' = TRUE
  /\ KeepReports /\ KeepClock /\ UNCHANGED <<ntpNow, syncer>>

\* queryServer: an answer, or an error or the timeout: what the servers answered in time, each on its
\* own connection; nobody sees the answers before all have come.
Answers(asked) == {a \in [asked -> {TrueOffset} \cup WrongOffsets] : \A s \in asked \ Liars : a[s] = TrueOffset}
\* The sample at position len / 2 of the answers in the order of their offsets.
Median(a) ==
  {o \in {a[s] : s \in DOMAIN a} :
     /\ Cardinality({s \in DOMAIN a : a[s] < o}) <= Cardinality(DOMAIN a) \div 2
     /\ Cardinality({s \in DOMAIN a : a[s] <= o}) > Cardinality(DOMAIN a) \div 2}
\* query returns when all have answered, or with the context; Check then stores the clock, then the state.
Abandon ==
  /\ syncer = "query" /\ cancelled /\ Go("ended")
  /\ KeepReports /\ KeepClock /\ UNCHANGED <<ntpNow, cancelled>>
Fail ==
  /\ syncer = "query"
  /\ ntpState' = [ntpState EXCEPT !.failed = TRUE] /\ Go("report")
  /\ KeepReports /\ UNCHANGED <<ntpNow, cancelled, clock, backed>>
Select ==
  /\ syncer = "query" /\ Go("store")
  /\ \E asked \in SUBSET NtpServers \ {{}} : \E a \in Answers(asked) : \E o \in Median(a) :
       /\ clock' = [offset |-> o, success |-> ntpNow, failed |-> FALSE]
       /\ backed' = (2 * Cardinality(asked \cap Liars) < Cardinality(asked))
  /\ KeepReports /\ UNCHANGED <<ntpNow, cancelled, ntpState>>
StoreState ==
  /\ syncer = "store" /\ ntpState' = clock /\ Go("report")
  /\ KeepReports /\ UNCHANGED <<ntpNow, cancelled, clock, backed>>
Report ==
  /\ syncer = "report" /\ reporting' = reporting \cup {[by |-> "check", snapshot |-> Snapshot]}
  /\ Go("logging")
  /\ UNCHANGED <<ntpNow, cancelled, consumers, logged, told, uses>> /\ KeepClock

\* SetUsage counts a node that needs the clock, or one that no longer does; when the need comes or
\* goes the logged state is forgotten, and while there is one the state is logged outside the lock.
SetUsage(c, required) ==
  /\ uses < MaxUses /\ uses' = uses + 1
  /\ consumers' = IF required THEN consumers \cup {c} ELSE consumers \ {c}
  /\ LET turned == (consumers = {}) # (consumers' = {}) IN
     /\ logged' = IF turned THEN <<>> ELSE logged
     /\ told' = (told /\ ~turned)
  /\ reporting' = IF consumers' = {} THEN reporting
                  ELSE reporting \cup {[by |-> c, snapshot |-> [Snapshot EXCEPT !.required = TRUE]]}
  /\ KeepClock /\ UNCHANGED <<ntpNow, syncer, cancelled>>
LogIfNeeded(r) ==
  /\ r \in reporting /\ reporting' = reporting \ {r}
  /\ \/ r.snapshot.required /\ r.snapshot.key # logged /\ logged' = r.snapshot.key /\ told' = TRUE
     \/ (~r.snapshot.required \/ r.snapshot.key = logged) /\ UNCHANGED <<logged, told>>
  /\ syncer' = IF r.by = "check" THEN (IF cancelled THEN "ended" ELSE "loop") ELSE syncer
  /\ KeepClock /\ UNCHANGED <<ntpNow, cancelled, consumers, uses>>
PassTime ==
  /\ ntpNow < MaxNow /\ ntpNow' = ntpNow + 1 /\ syncer \in {"query", "loop"}
  /\ KeepReports /\ KeepClock /\ UNCHANGED <<syncer, cancelled>>

TimeNext ==
  \/ Start \/ Loop \/ EndLoop \/ Stop \/ Abandon \/ Fail \/ Select \/ StoreState \/ Report \/ PassTime
  \/ \E c \in Consumers : SetUsage(c, TRUE) \/ SetUsage(c, FALSE)
  \/ \E r \in reporting : LogIfNeeded(r)

Syncers == {"new", "query", "store", "report", "logging", "loop", "ended"}
TimeTypeOK ==
  /\ ntpNow \in 0..MaxNow /\ syncer \in Syncers /\ cancelled \in BOOLEAN /\ told \in BOOLEAN
  /\ consumers \subseteq Consumers /\ backed \in BOOLEAN /\ uses \in 0..MaxUses
  /\ \A r \in reporting : r.by \in Consumers \cup {"check"}

\* The offset the kernels run with is the true one whenever most of the servers that were heard tell
\* the truth, however many others are silent, and no older than three intervals.
ClockTrusted ==
  /\ backed => TimeFunc \in {0, TrueOffset}
  /\ TimeFunc # 0 => ntpNow - clock.success <= StaleAfter
\* While a node needs the clock, its state has been logged since the need arose, or is about to be,
\* although nodes and the check log outside the lock (SetUsage, logIfNeeded).
NeedIsTold == Required => told \/ \E r \in reporting : r.snapshot.required
====
