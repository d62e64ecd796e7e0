---------------------------- MODULE TrafficReport ----------------------------
(***************************************************************************)
(* Traffic accounting of one node service: the tracker that turns the      *)
(* kernel's cumulative counters into deltas, and the report pusher that    *)
(* delivers them to the panel in identified batches                        *)
(* (internal/tracker, internal/service/service.go).                        *)
(*                                                                         *)
(* A counter key stands for one cell of the three maps a report carries: a *)
(* user's traffic, a relay node's traffic, a user's traffic on a relay     *)
(* node.  Upload and download are two keys.                                *)
(***************************************************************************)
EXTENDS Naturals

CONSTANTS UserKeys, RelayKeys, RelayUserKeys,  \* the cells of the three maps
          MaxCum,      \* bound: bytes carried per counter
          MaxSeq,      \* bound: batches cut while the service runs
          MaxPushers   \* bound: push goroutines not yet counted down

Keys == UserKeys \cup RelayKeys \cup RelayUserKeys

ASSUME BoundsAssumption == MaxCum \in Nat /\ MaxSeq \in Nat /\ MaxPushers \in Nat

VARIABLES
  cum,           \* the kernel's cumulative counters
  lastSeen,      \* Tracker.lastSeen, lastSeenRelay, lastSeenRelayUser
  pending,       \* Tracker.pendingTraffic, pendingRelay, pendingRelayUser
  retryReport,   \* Service.retryReport, NoBatch when nil
  sending,       \* the batch handed to sink.Report, NoBatch when none
  http,          \* the request of sending: "none", "toSend", "await"
  pusher,        \* where the active push goroutine is, "idle" when none
  wg,            \* Service.pushWG
  skipRemaining, \* Service.pushBackoff.skipRemaining
  failures,      \* history: consecutive failed pushes, 0, 1 or 2 (two or more)
  reportSeq,     \* Service.reportSeq
  mainPC,        \* where the main goroutine is: "loop" or a step of shutdown
  remaining,     \* batches pushReportSync still has to send
  net,           \* batches that reached the network, ever
  accepted,      \* ids of the batches the panel has settled
  billed         \* the panel's bill

kernelVars == <<cum>>
trackerVars == <<lastSeen, pending>>
batchVars == <<retryReport, sending, http, reportSeq>>
pusherVars == <<pusher, wg, skipRemaining, failures>>
mainVars == <<mainPC, remaining>>
panelVars == <<net, accepted, billed>>
vars == <<cum, lastSeen, pending, retryReport, sending, http, pusher, wg,
          skipRemaining, failures, reportSeq, mainPC, remaining, net, accepted,
          billed>>

Zero == [k \in Keys |-> 0]
NoBatch == [id |-> 0, traffic |-> Zero]
Batches == [id : Nat, traffic : [Keys -> Nat]]

Init ==
  /\ cum = Zero /\ lastSeen = Zero /\ pending = Zero
  /\ retryReport = NoBatch /\ sending = NoBatch /\ http = "none"
  /\ pusher = "idle" /\ wg = 0 /\ skipRemaining = 0 /\ failures = 0
  /\ reportSeq = 0
  /\ mainPC = "loop" /\ remaining = 0
  /\ net = {} /\ accepted = {} /\ billed = Zero

-----------------------------------------------------------------------------
(* Sampling.                                                               *)

\* A connection moves a byte.  The counters belong to the Kernel object: they
\* survive Start, Reload and Stop, and stay readable after the last Stop.
Carry(k) ==
  /\ mainPC = "loop"
  /\ cum[k] < MaxCum
  /\ cum' = [cum EXCEPT ![k] = @ + 1]
  /\ UNCHANGED <<trackerVars, batchVars, pusherVars, mainVars, panelVars>>

\* A counter below the value last seen was restarted: all of it is new.
Delta(current, previous) ==
  IF current < previous THEN current ELSE current - previous

\* Process, ProcessRelay and ProcessRelayUser on the counters in keys.
Process(keys) ==
  /\ lastSeen' = [k \in Keys |-> IF k \in keys THEN cum[k] ELSE lastSeen[k]]
  /\ pending' = [k \in Keys |-> IF k \in keys
                                  THEN pending[k] + Delta(cum[k], lastSeen[k])
                                  ELSE pending[k]]

\* The three kernel reads happen in this order and an error ends the sample.
SampleScopes == {{}, UserKeys, UserKeys \cup RelayKeys, Keys}

TrackTick ==
  /\ mainPC = "loop"
  /\ \E keys \in SampleScopes : Process(keys)
  /\ UNCHANGED <<kernelVars, batchVars, pusherVars, mainVars, panelVars>>

-----------------------------------------------------------------------------
(* Cutting a batch.                                                        *)

\* Mutant: new traffic is merged into the batch that is retried.
TakeRetryMerging ==
  /\ retryReport # NoBatch
  /\ sending' = [retryReport EXCEPT !.traffic =
                   [k \in Keys |-> retryReport.traffic[k] + pending[k]]]
  /\ pending' = Zero
  /\ UNCHANGED reportSeq

\* Mutant: the retried traffic goes out under a fresh id.
TakeRetryRenumbered ==
  /\ retryReport # NoBatch
  /\ reportSeq' = reportSeq + 1
  /\ sending' = [retryReport EXCEPT !.id = reportSeq + 1]
  /\ UNCHANGED pending

\* takeReportBatch: a batch that failed is sent again as it was; only when
\* there is none is the tracker flushed into a new one.
TakeRetry ==
  /\ retryReport # NoBatch
  /\ sending' = retryReport
  /\ UNCHANGED <<pending, reportSeq>>

\* Mutant: FlushTraffic hands out the buffer without replacing it.
TakeNewKeepingPending ==
  /\ retryReport = NoBatch
  /\ reportSeq' = reportSeq + 1
  /\ sending' = [id |-> reportSeq + 1, traffic |-> pending]
  /\ UNCHANGED pending

TakeNew ==
  /\ retryReport = NoBatch
  /\ reportSeq' = reportSeq + 1
  /\ sending' = [id |-> reportSeq + 1, traffic |-> pending]
  /\ pending' = Zero

TakeReportBatch == TakeRetry \/ TakeNew

RememberFailed == retryReport' = sending

ForgetCompleted ==
  retryReport' = IF retryReport = sending THEN NoBatch ELSE retryReport

-----------------------------------------------------------------------------
(* The asynchronous push.                                                  *)

\* pushActive is true from the CompareAndSwap until the goroutine's first
\* deferred call, which is exactly when a push goroutine is not idle.
pushActive == pusher # "idle"

\* Mutant: shouldSkip forgets to count down.
SkipReportForever ==
  /\ mainPC = "loop"
  /\ ~pushActive
  /\ skipRemaining > 0
  /\ UNCHANGED vars

\* pushReportAsync returns early: the backoff asks to skip this tick.
SkipReport ==
  /\ mainPC = "loop"
  /\ ~pushActive
  /\ skipRemaining > 0
  /\ skipRemaining' = skipRemaining - 1
  /\ UNCHANGED <<kernelVars, trackerVars, batchVars, pusher, wg, failures,
                 mainVars, panelVars>>

StartReport ==
  /\ mainPC = "loop"
  /\ ~pushActive
  /\ skipRemaining = 0
  /\ retryReport = NoBatch => reportSeq < MaxSeq
  /\ wg < MaxPushers
  /\ TakeReportBatch
  /\ http' = "toSend"
  /\ pusher' = "sending"
  /\ wg' = wg + 1
  /\ UNCHANGED <<kernelVars, lastSeen, retryReport, skipRemaining, failures,
                 mainVars, panelVars>>

\* The request leaves; delivered = FALSE when it never reaches the panel.
Post(delivered) ==
  /\ http = "toSend"
  /\ http' = "await"
  /\ net' = IF delivered THEN net \cup {sending} ELSE net
  /\ UNCHANGED <<kernelVars, trackerVars, retryReport, sending, reportSeq,
                 pusherVars, mainVars, accepted, billed>>

\* The panel settles a batch once per id, however often, however late and in
\* whatever order its copies arrive.
PanelAccept(batch) ==
  /\ batch \in net
  /\ batch.id \notin accepted
  /\ accepted' = accepted \cup {batch.id}
  /\ billed' = [k \in Keys |-> billed[k] + batch.traffic[k]]
  /\ UNCHANGED <<kernelVars, trackerVars, batchVars, pusherVars, mainVars, net>>

\* sink.Report returns an error: refused, timed out, or the answer was lost.
ReportFails ==
  /\ pusher = "sending" /\ http = "await"
  /\ RememberFailed
  /\ pusher' = "failed"
  /\ sending' = NoBatch /\ http' = "none"
  /\ UNCHANGED <<kernelVars, trackerVars, reportSeq, wg, skipRemaining, failures,
                 mainVars, panelVars>>

ReportSucceeds ==
  /\ pusher = "sending" /\ http = "await"
  /\ sending.id \in accepted
  /\ ForgetCompleted
  /\ pusher' = "succeeded"
  /\ sending' = NoBatch /\ http' = "none"
  /\ UNCHANGED <<kernelVars, trackerVars, reportSeq, wg, skipRemaining, failures,
                 mainVars, panelVars>>

OnFailure ==
  /\ pusher = "failed"
  /\ skipRemaining' = IF skipRemaining = 0 THEN 1
                      ELSE IF skipRemaining < 8 THEN skipRemaining * 2
                      ELSE skipRemaining
  /\ failures' = IF failures < 2 THEN failures + 1 ELSE 2
  /\ pusher' = "leaving"
  /\ UNCHANGED <<kernelVars, trackerVars, batchVars, wg, mainVars, panelVars>>

OnSuccess ==
  /\ pusher = "succeeded"
  /\ skipRemaining' = 0
  /\ failures' = 0
  /\ pusher' = "leaving"
  /\ UNCHANGED <<kernelVars, trackerVars, batchVars, wg, mainVars, panelVars>>

\* The deferred calls run last to first: pushActive.Store(false), pushWG.Done.
\* Between the two the next tick may start another goroutine.
ClearActive ==
  /\ pusher = "leaving"
  /\ pusher' = "idle"
  /\ UNCHANGED <<kernelVars, trackerVars, batchVars, wg, skipRemaining, failures,
                 mainVars, panelVars>>

\* Mutant: the WaitGroup is never counted down.
PushDoneMissing ==
  /\ wg > (IF pushActive THEN 1 ELSE 0)
  /\ UNCHANGED vars

PushDone ==
  /\ wg > (IF pushActive THEN 1 ELSE 0)
  /\ wg' = wg - 1
  /\ UNCHANGED <<kernelVars, trackerVars, batchVars, pusher, skipRemaining,
                 failures, mainVars, panelVars>>

-----------------------------------------------------------------------------
(* Shutdown: the main goroutine stops the kernel, then pushReportSync.     *)

BeginShutdown ==
  /\ mainPC = "loop"
  /\ mainPC' = "wait"
  /\ UNCHANGED <<kernelVars, trackerVars, batchVars, pusherVars, remaining,
                 panelVars>>

\* What pushWG.Wait waits for.
PushersGone == wg = 0

\* Mutant: one batch is sent even when an older one has to be retried first.
FinalBatchesOne == 1

\* Mutant: the loop over the batches runs one time too few.
FinalBatchesShort == IF retryReport # NoBatch THEN 1 ELSE 0

FinalBatches == IF retryReport # NoBatch THEN 2 ELSE 1

\* pushWG.Wait returns; the tail of the stopped kernel is sampled and the
\* number of batches to send is fixed.
FinalSample ==
  /\ mainPC = "wait"
  /\ PushersGone
  /\ \E keys \in SampleScopes : Process(keys)
  /\ remaining' = FinalBatches
  /\ mainPC' = "flush"
  /\ UNCHANGED <<kernelVars, batchVars, pusherVars, panelVars>>

FinalTake ==
  /\ mainPC = "flush"
  /\ TakeReportBatch
  /\ http' = "toSend"
  /\ mainPC' = "finalSend"
  /\ UNCHANGED <<kernelVars, lastSeen, retryReport, pusherVars, remaining,
                 panelVars>>

\* The first failure ends the flush; what is left is lost with the process.
FinalFails ==
  /\ mainPC = "finalSend" /\ http = "await"
  /\ RememberFailed
  /\ sending' = NoBatch /\ http' = "none"
  /\ mainPC' = "stopped"
  /\ UNCHANGED <<kernelVars, trackerVars, reportSeq, pusherVars, remaining,
                 panelVars>>

FinalSucceeds ==
  /\ mainPC = "finalSend" /\ http = "await"
  /\ sending.id \in accepted
  /\ ForgetCompleted
  /\ sending' = NoBatch /\ http' = "none"
  /\ remaining' = remaining - 1
  /\ mainPC' = IF remaining = 1 THEN "stopped" ELSE "flush"
  /\ UNCHANGED <<kernelVars, trackerVars, reportSeq, pusherVars, panelVars>>

-----------------------------------------------------------------------------
Pusher == ReportFails \/ ReportSucceeds \/ OnFailure \/ OnSuccess \/ ClearActive
          \/ PushDone

Shutdown == FinalSample \/ FinalTake \/ FinalFails \/ FinalSucceeds

Next ==
  \/ \E k \in Keys : Carry(k)
  \/ TrackTick
  \/ SkipReport \/ StartReport
  \/ \E delivered \in BOOLEAN : Post(delivered)
  \/ \E batch \in net : PanelAccept(batch)
  \/ Pusher
  \/ BeginShutdown \/ Shutdown

Spec == Init /\ [][Next]_vars

\* The tickers keep firing and every goroutine that can run does: an HTTP
\* request returns within the client's 30 second timeout.  The network is
\* asked for one thing: a batch sent again and again gets through, and the
\* panel settles what it received.
Fairness ==
  /\ WF_vars(SkipReport) /\ WF_vars(StartReport)
  /\ WF_vars(Post(TRUE) \/ Post(FALSE)) /\ SF_vars(Post(TRUE))
  /\ WF_vars(\E batch \in net : PanelAccept(batch))
  /\ WF_vars(ReportFails \/ ReportSucceeds)
  /\ WF_vars(OnFailure \/ OnSuccess) /\ WF_vars(ClearActive) /\ WF_vars(PushDone)
  /\ WF_vars(Shutdown)

LiveSpec == Spec /\ Fairness

-----------------------------------------------------------------------------
(* Properties.                                                             *)

TypeOK ==
  /\ cum \in [Keys -> Nat] /\ lastSeen \in [Keys -> Nat]
  /\ pending \in [Keys -> Nat] /\ billed \in [Keys -> Nat]
  /\ retryReport \in Batches /\ sending \in Batches
  /\ http \in {"none", "toSend", "await"}
  /\ pusher \in {"idle", "sending", "failed", "succeeded", "leaving"}
  /\ wg \in Nat /\ skipRemaining \in Nat /\ failures \in 0..2
  /\ reportSeq \in Nat /\ remaining \in Nat
  /\ mainPC \in {"loop", "wait", "flush", "finalSend", "stopped"}
  /\ net \in SUBSET Batches /\ accepted \in SUBSET Nat

\* The batch that is cut but, as far as the service knows, not settled.
Outstanding == IF sending # NoBatch THEN sending ELSE retryReport

Unsettled(k) ==
  IF Outstanding.id \in accepted THEN 0 ELSE Outstanding.traffic[k]

\* No byte is lost or counted twice: whatever the tracker has seen is billed,
\* pending, or in the one batch that is under way and not yet settled.
Conservation ==
  \A k \in Keys : lastSeen[k] = billed[k] + pending[k] + Unsettled(k)

\* takeReportBatch: a retry never mixes new traffic into an id the panel may
\* already have settled, so copies of an id are copies of one batch.
RetryUnchanged ==
  \A a, b \in net : a.id = b.id => a = b

\* A new batch is cut only once the panel has settled every older one: at most
\* one batch on the network is unsettled, and the service still holds it.
OneUnsettledBatch ==
  \A batch \in net : batch.id \in accepted \/ batch = Outstanding

\* pushReportSync: the final flush starts with no push goroutine alive, so the
\* final batches cannot overlap one that is in flight.
FinalFlushAlone ==
  mainPC \in {"flush", "finalSend", "stopped"} => wg = 0 /\ ~pushActive

\* pushReportSync ended without an error and the tail sample was complete.
Clean == mainPC = "stopped" /\ remaining = 0 /\ lastSeen = cum

\* A clean exit leaves nothing behind: the retried batch and the traffic that
\* came after it are both on the bill.
CleanExitBilled == Clean => billed = cum

Billing == INSTANCE TrafficBilling WITH carried <- cum, settled <- Clean

\* The bill only grows, never exceeds what the kernel carried, and equals it
\* after a clean exit.
ImplementsBilling == Billing!Spec

\* A batch, once cut, is eventually settled unless the process exits first.
EveryBatchSettled ==
  \A n \in 1..MaxSeq : (reportSeq >= n) ~> (n \in accepted \/ mainPC = "stopped")

\* Cancelling the service ends it: pushReportSync always returns.
ShutdownTerminates == (mainPC = "wait") ~> (mainPC = "stopped")
=============================================================================
