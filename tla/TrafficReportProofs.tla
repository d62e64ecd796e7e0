------------------------- MODULE TrafficReportProofs -------------------------
(***************************************************************************)
(* Theorems about TrafficReport, for every set of counters and every value *)
(* of the bounds.  The inductive invariant is in four parts: the types, the *)
(* place each goroutine is in, what is known of the batches, and the        *)
(* conservation of bytes.                                                   *)
(***************************************************************************)
EXTENDS TrafficReport, TLAPS

\* Who holds the batch that is being sent, and when nobody does.
Control ==
  /\ (pusher = "sending" \/ mainPC = "finalSend") <=> sending # NoBatch
  /\ http = "none" <=> sending = NoBatch
  /\ mainPC \in {"flush", "finalSend", "stopped"} => wg = 0 /\ pusher = "idle"
  /\ pusher # "idle" => wg > 0
  /\ mainPC = "flush" => remaining \in {1, 2}
  /\ mainPC = "finalSend" => remaining \in {1, 2}

\* Ids are handed out once, in order; NoBatch is the only batch with id 0.
Ids ==
  /\ sending.id = 0 <=> sending = NoBatch
  /\ retryReport.id = 0 <=> retryReport = NoBatch
  /\ sending # NoBatch /\ retryReport # NoBatch => sending = retryReport
  /\ sending.id <= reportSeq /\ retryReport.id <= reportSeq
  /\ \A batch \in net : batch.id \in 1..reportSeq
  /\ \A id \in accepted : id \in 1..reportSeq

\* What is on the network under the id still held is the batch still held.
HeldCopies ==
  \A batch \in net : batch.id = Outstanding.id => batch = Outstanding

\* What must be left to send for the final flush to be complete.
FlushLeft ==
  /\ mainPC = "flush" /\ remaining = 2 => retryReport # NoBatch
  /\ mainPC = "flush" /\ remaining = 1 => retryReport = NoBatch
  /\ mainPC = "finalSend" /\ remaining = 2 => retryReport # NoBatch
  /\ mainPC = "finalSend" /\ remaining = 1 => retryReport = NoBatch /\ pending = Zero
  /\ mainPC = "stopped" /\ remaining = 0 => retryReport = NoBatch /\ pending = Zero

SeenBound == \A k \in Keys : lastSeen[k] <= cum[k]

IInv ==
  /\ TypeOK /\ Control /\ Ids /\ HeldCopies /\ RetryUnchanged /\ OneUnsettledBatch
  /\ Conservation /\ FlushLeft /\ SeenBound

LEMMA NoBatchFacts ==
  /\ Zero \in [Keys -> Nat] /\ \A k \in Keys : Zero[k] = 0
  /\ NoBatch \in Batches /\ NoBatch.id = 0 /\ NoBatch.traffic = Zero
BY DEF Zero, NoBatch, Batches

\* Process: what a sample adds to lastSeen it adds to pending.
LEMMA ProcessAdds ==
  ASSUME TypeOK, SeenBound, NEW keys, Process(keys)
  PROVE  /\ lastSeen' \in [Keys -> Nat] /\ pending' \in [Keys -> Nat]
         /\ \A k \in Keys : lastSeen'[k] <= cum[k]
         /\ \A k \in Keys : lastSeen'[k] + pending[k] = lastSeen[k] + pending'[k]
<1>1. \A k \in Keys : Delta(cum[k], lastSeen[k]) = cum[k] - lastSeen[k]
  BY DEF TypeOK, SeenBound, Delta
<1>2. \A k \in Keys : cum[k] \in Nat /\ lastSeen[k] \in Nat /\ pending[k] \in Nat
                    /\ lastSeen[k] <= cum[k]
  BY DEF TypeOK, SeenBound
<1>3. \A k \in Keys : cum[k] - lastSeen[k] \in Nat
  BY <1>2
<1> QED
  BY <1>1, <1>2, <1>3 DEF Process

\* takeReportBatch: the batch taken is the one to retry, or all that is pending.
LEMMA TakeFacts ==
  ASSUME TypeOK, Ids, TakeReportBatch
  PROVE  /\ sending' \in Batches /\ sending' # NoBatch
         /\ pending' \in [Keys -> Nat] /\ reportSeq' \in Nat
         /\ \/ /\ retryReport # NoBatch /\ sending' = retryReport
               /\ pending' = pending /\ reportSeq' = reportSeq
            \/ /\ retryReport = NoBatch /\ reportSeq' = reportSeq + 1
               /\ sending'.id = reportSeq + 1 /\ sending'.traffic = pending
               /\ pending' = Zero
<1>1. CASE TakeRetry
  BY <1>1 DEF TakeRetry, TypeOK
<1>2. CASE TakeNew
  <2>1. [id |-> reportSeq + 1, traffic |-> pending] \in Batches
    BY DEF TypeOK, Batches
  <2> QED
    BY <1>2, <2>1, NoBatchFacts DEF TakeNew, TypeOK
<1> QED
  BY <1>1, <1>2 DEF TakeReportBatch

LEMMA BatchFields ==
  ASSUME NEW batch \in Batches
  PROVE  batch.id \in Nat /\ batch.traffic \in [Keys -> Nat]
BY DEF Batches

LEMMA UnsettledNat ==
  ASSUME TypeOK, NEW k \in Keys
  PROVE  Unsettled(k) \in Nat /\ lastSeen[k] \in Nat /\ billed[k] \in Nat
         /\ pending[k] \in Nat /\ cum[k] \in Nat
<1>1. Outstanding \in Batches
  BY DEF TypeOK, Outstanding
<1> QED
  BY <1>1, BatchFields DEF TypeOK, Unsettled

LEMMA InitIInv == Init => IInv
<1> SUFFICES ASSUME Init PROVE IInv
  OBVIOUS
<1> USE NoBatchFacts DEF Init
<1>1. TypeOK
  BY DEF TypeOK
<1>2. Control /\ Ids /\ FlushLeft
  BY DEF Control, Ids, FlushLeft
<1>3. RetryUnchanged /\ OneUnsettledBatch /\ HeldCopies
  BY DEF RetryUnchanged, OneUnsettledBatch, HeldCopies
<1>4. Conservation
  BY DEF Conservation, Unsettled, Outstanding
<1>5. SeenBound
  BY DEF SeenBound
<1> QED
  BY <1>1, <1>2, <1>3, <1>4, <1>5 DEF IInv

LEMMA CarryStep ==
  ASSUME NEW k \in Keys, IInv, Carry(k) PROVE IInv'
<1> USE NoBatchFacts DEF IInv, Carry, kernelVars, trackerVars, batchVars, pusherVars, mainVars, panelVars
<1>1. TypeOK'
  BY DEF TypeOK, Control
<1>2. Control'
  BY DEF TypeOK, Control
<1>3. Ids'
  BY DEF TypeOK, Control, Ids
<1>4. RetryUnchanged' /\ HeldCopies'
  BY DEF TypeOK, Control, Ids, RetryUnchanged, HeldCopies, Outstanding
<1>5. OneUnsettledBatch'
  BY DEF TypeOK, Control, Ids, OneUnsettledBatch, Outstanding
<1>6. Conservation'
  BY DEF TypeOK, Control, Ids, Conservation, Unsettled, Outstanding, SeenBound
<1>7. FlushLeft' /\ SeenBound'
  BY DEF TypeOK, Control, Ids, FlushLeft, SeenBound
<1> QED
  BY <1>1, <1>2, <1>3, <1>4, <1>5, <1>6, <1>7 DEF IInv

LEMMA TrackTickStep ==
  ASSUME IInv, TrackTick PROVE IInv'
<1> USE NoBatchFacts DEF IInv, TrackTick, SampleScopes, kernelVars, trackerVars, batchVars, pusherVars, mainVars, panelVars
<1>0. /\ lastSeen' \in [Keys -> Nat] /\ pending' \in [Keys -> Nat]
      /\ \A k \in Keys : lastSeen'[k] <= cum[k]
      /\ \A k \in Keys : lastSeen'[k] + pending[k] = lastSeen[k] + pending'[k]
  BY ProcessAdds
<1>1. TypeOK'
  BY <1>0 DEF TypeOK, Control
<1>2. Control'
  BY DEF TypeOK, Control
<1>3. Ids'
  BY DEF TypeOK, Control, Ids
<1>4. RetryUnchanged' /\ HeldCopies'
  BY DEF TypeOK, Control, Ids, RetryUnchanged, HeldCopies, Outstanding
<1>5. OneUnsettledBatch'
  BY DEF TypeOK, Control, Ids, OneUnsettledBatch, Outstanding
<1>6. Conservation'
  <2> SUFFICES ASSUME NEW k \in Keys
               PROVE  lastSeen'[k] = billed'[k] + pending'[k] + Unsettled(k)'
    BY DEF Conservation
  <2>1. Unsettled(k)' = Unsettled(k) /\ billed'[k] = billed[k]
    BY DEF Unsettled, Outstanding
  <2>2. lastSeen[k] = billed[k] + pending[k] + Unsettled(k)
    BY DEF Conservation
  <2>3. lastSeen'[k] + pending[k] = lastSeen[k] + pending'[k]
        /\ lastSeen'[k] \in Nat /\ pending'[k] \in Nat
    BY <1>0
  <2>4. Unsettled(k) \in Nat /\ lastSeen[k] \in Nat /\ billed[k] \in Nat
        /\ pending[k] \in Nat
    BY UnsettledNat
  <2> HIDE DEF IInv
  <2> QED
    BY <2>1, <2>2, <2>3, <2>4
<1>7. FlushLeft' /\ SeenBound'
  BY <1>0 DEF TypeOK, Control, Ids, FlushLeft, SeenBound
<1> QED
  BY <1>1, <1>2, <1>3, <1>4, <1>5, <1>6, <1>7 DEF IInv

LEMMA SkipReportStep ==
  ASSUME IInv, SkipReport PROVE IInv'
<1> USE NoBatchFacts DEF IInv, SkipReport, pushActive, kernelVars, trackerVars, batchVars, pusherVars, mainVars, panelVars
<1>1. TypeOK'
  BY DEF TypeOK, Control
<1>2. Control'
  BY DEF TypeOK, Control
<1>3. Ids'
  BY DEF TypeOK, Control, Ids
<1>4. RetryUnchanged' /\ HeldCopies'
  BY DEF TypeOK, Control, Ids, RetryUnchanged, HeldCopies, Outstanding
<1>5. OneUnsettledBatch'
  BY DEF TypeOK, Control, Ids, OneUnsettledBatch, Outstanding
<1>6. Conservation'
  BY DEF TypeOK, Control, Ids, Conservation, Unsettled, Outstanding, SeenBound
<1>7. FlushLeft' /\ SeenBound'
  BY DEF TypeOK, Control, Ids, FlushLeft, SeenBound
<1> QED
  BY <1>1, <1>2, <1>3, <1>4, <1>5, <1>6, <1>7 DEF IInv

LEMMA StartReportStep ==
  ASSUME IInv, StartReport PROVE IInv'
<1> USE NoBatchFacts DEF IInv, StartReport, pushActive, kernelVars, trackerVars, batchVars, pusherVars, mainVars, panelVars
<1>0. /\ sending' \in Batches /\ sending' # NoBatch
      /\ pending' \in [Keys -> Nat] /\ reportSeq' \in Nat
      /\ \/ /\ retryReport # NoBatch /\ sending' = retryReport
            /\ pending' = pending /\ reportSeq' = reportSeq
         \/ /\ retryReport = NoBatch /\ reportSeq' = reportSeq + 1
            /\ sending'.id = reportSeq + 1 /\ sending'.traffic = pending
            /\ pending' = Zero
  BY TakeFacts
<1>1. TypeOK'
  BY <1>0 DEF TypeOK, Control
<1>2. Control'
  BY <1>0 DEF TypeOK, Control
<1>3. Ids'
  BY <1>0 DEF TypeOK, Control, Ids
<1>4. RetryUnchanged' /\ HeldCopies'
  BY <1>0 DEF TypeOK, Control, Ids, RetryUnchanged, HeldCopies, Outstanding
<1>5. OneUnsettledBatch'
  BY <1>0 DEF TypeOK, Control, Ids, OneUnsettledBatch, Outstanding
<1>6. Conservation'
  BY <1>0 DEF TypeOK, Control, Ids, Conservation, Unsettled, Outstanding, SeenBound
<1>7. FlushLeft' /\ SeenBound'
  BY <1>0 DEF TypeOK, Control, Ids, FlushLeft, SeenBound
<1> QED
  BY <1>1, <1>2, <1>3, <1>4, <1>5, <1>6, <1>7 DEF IInv

LEMMA PostStep ==
  ASSUME NEW delivered \in BOOLEAN, IInv, Post(delivered) PROVE IInv'
<1> USE NoBatchFacts DEF IInv, Post, kernelVars, trackerVars, batchVars, pusherVars, mainVars, panelVars
<1>1. TypeOK'
  BY DEF TypeOK, Control
<1>2. Control'
  BY DEF TypeOK, Control
<1>3. Ids'
  BY BatchFields DEF TypeOK, Control, Ids
<1>4. RetryUnchanged' /\ HeldCopies'
  BY DEF TypeOK, Control, Ids, RetryUnchanged, HeldCopies, Outstanding
<1>5. OneUnsettledBatch'
  BY DEF TypeOK, Control, Ids, OneUnsettledBatch, Outstanding
<1>6. Conservation'
  BY DEF TypeOK, Control, Ids, Conservation, Unsettled, Outstanding, SeenBound
<1>7. FlushLeft' /\ SeenBound'
  BY DEF TypeOK, Control, Ids, FlushLeft, SeenBound
<1> QED
  BY <1>1, <1>2, <1>3, <1>4, <1>5, <1>6, <1>7 DEF IInv

LEMMA PanelAcceptStep ==
  ASSUME NEW batch \in net, IInv, PanelAccept(batch) PROVE IInv'
<1> USE NoBatchFacts DEF IInv, PanelAccept, kernelVars, trackerVars, batchVars, pusherVars, mainVars, panelVars
<1>1. TypeOK'
  <2>1. batch \in Batches
    BY DEF TypeOK
  <2>2. batch.id \in Nat /\ batch.traffic \in [Keys -> Nat]
    BY <2>1, BatchFields
  <2>3. billed' \in [Keys -> Nat] /\ accepted' \in SUBSET Nat
    BY <2>2 DEF TypeOK
  <2> QED
    BY <2>3 DEF TypeOK
<1>2. Control'
  BY DEF TypeOK, Control
<1>3. Ids'
  BY DEF TypeOK, Control, Ids
<1>4. RetryUnchanged' /\ HeldCopies'
  BY DEF TypeOK, Control, Ids, RetryUnchanged, HeldCopies, Outstanding
<1>5. OneUnsettledBatch'
  BY DEF TypeOK, Control, Ids, OneUnsettledBatch, Outstanding
<1>6. Conservation'
  <2> SUFFICES ASSUME NEW k \in Keys
               PROVE  lastSeen'[k] = billed'[k] + pending'[k] + Unsettled(k)'
    BY DEF Conservation
  <2>1. batch = Outstanding /\ batch.traffic[k] \in Nat
    BY BatchFields DEF TypeOK, OneUnsettledBatch
  <2>2. Unsettled(k) = batch.traffic[k] /\ Unsettled(k)' = 0
    BY <2>1 DEF Unsettled, Outstanding
  <2>3. billed'[k] = billed[k] + batch.traffic[k]
    OBVIOUS
  <2>4. lastSeen[k] = billed[k] + pending[k] + Unsettled(k)
    BY DEF Conservation
  <2> QED
    BY <2>1, <2>2, <2>3, <2>4, UnsettledNat
<1>7. FlushLeft' /\ SeenBound'
  BY DEF TypeOK, Control, Ids, FlushLeft, SeenBound
<1> QED
  BY <1>1, <1>2, <1>3, <1>4, <1>5, <1>6, <1>7 DEF IInv

LEMMA ReportFailsStep ==
  ASSUME IInv, ReportFails PROVE IInv'
<1> USE NoBatchFacts DEF IInv, ReportFails, RememberFailed, kernelVars, trackerVars, batchVars, pusherVars, mainVars, panelVars
<1>1. TypeOK'
  BY DEF TypeOK, Control
<1>2. Control'
  BY DEF TypeOK, Control
<1>3. Ids'
  BY DEF TypeOK, Control, Ids
<1>4. RetryUnchanged' /\ HeldCopies'
  BY DEF TypeOK, Control, Ids, RetryUnchanged, HeldCopies, Outstanding
<1>5. OneUnsettledBatch'
  BY DEF TypeOK, Control, Ids, OneUnsettledBatch, Outstanding
<1>6. Conservation'
  BY DEF TypeOK, Control, Ids, Conservation, Unsettled, Outstanding, SeenBound
<1>7. FlushLeft' /\ SeenBound'
  BY DEF TypeOK, Control, Ids, FlushLeft, SeenBound
<1> QED
  BY <1>1, <1>2, <1>3, <1>4, <1>5, <1>6, <1>7 DEF IInv

LEMMA ReportSucceedsStep ==
  ASSUME IInv, ReportSucceeds PROVE IInv'
<1> USE NoBatchFacts DEF IInv, ReportSucceeds, ForgetCompleted, kernelVars, trackerVars, batchVars, pusherVars, mainVars, panelVars
<1>1. TypeOK'
  BY DEF TypeOK, Control
<1>2. Control'
  BY DEF TypeOK, Control
<1>3. Ids'
  BY DEF TypeOK, Control, Ids
<1>4. RetryUnchanged' /\ HeldCopies'
  BY DEF TypeOK, Control, Ids, RetryUnchanged, HeldCopies, Outstanding
<1>5. OneUnsettledBatch'
  BY DEF TypeOK, Control, Ids, OneUnsettledBatch, Outstanding
<1>6. Conservation'
  BY DEF TypeOK, Control, Ids, Conservation, Unsettled, Outstanding, SeenBound
<1>7. FlushLeft' /\ SeenBound'
  BY DEF TypeOK, Control, Ids, FlushLeft, SeenBound
<1> QED
  BY <1>1, <1>2, <1>3, <1>4, <1>5, <1>6, <1>7 DEF IInv

LEMMA OnFailureStep ==
  ASSUME IInv, OnFailure PROVE IInv'
<1> USE NoBatchFacts DEF IInv, OnFailure, kernelVars, trackerVars, batchVars, pusherVars, mainVars, panelVars
<1>1. TypeOK'
  BY DEF TypeOK, Control
<1>2. Control'
  BY DEF TypeOK, Control
<1>3. Ids'
  BY DEF TypeOK, Control, Ids
<1>4. RetryUnchanged' /\ HeldCopies'
  BY DEF TypeOK, Control, Ids, RetryUnchanged, HeldCopies, Outstanding
<1>5. OneUnsettledBatch'
  BY DEF TypeOK, Control, Ids, OneUnsettledBatch, Outstanding
<1>6. Conservation'
  BY DEF TypeOK, Control, Ids, Conservation, Unsettled, Outstanding, SeenBound
<1>7. FlushLeft' /\ SeenBound'
  BY DEF TypeOK, Control, Ids, FlushLeft, SeenBound
<1> QED
  BY <1>1, <1>2, <1>3, <1>4, <1>5, <1>6, <1>7 DEF IInv

LEMMA OnSuccessStep ==
  ASSUME IInv, OnSuccess PROVE IInv'
<1> USE NoBatchFacts DEF IInv, OnSuccess, kernelVars, trackerVars, batchVars, pusherVars, mainVars, panelVars
<1>1. TypeOK'
  BY DEF TypeOK, Control
<1>2. Control'
  BY DEF TypeOK, Control
<1>3. Ids'
  BY DEF TypeOK, Control, Ids
<1>4. RetryUnchanged' /\ HeldCopies'
  BY DEF TypeOK, Control, Ids, RetryUnchanged, HeldCopies, Outstanding
<1>5. OneUnsettledBatch'
  BY DEF TypeOK, Control, Ids, OneUnsettledBatch, Outstanding
<1>6. Conservation'
  BY DEF TypeOK, Control, Ids, Conservation, Unsettled, Outstanding, SeenBound
<1>7. FlushLeft' /\ SeenBound'
  BY DEF TypeOK, Control, Ids, FlushLeft, SeenBound
<1> QED
  BY <1>1, <1>2, <1>3, <1>4, <1>5, <1>6, <1>7 DEF IInv

LEMMA ClearActiveStep ==
  ASSUME IInv, ClearActive PROVE IInv'
<1> USE NoBatchFacts DEF IInv, ClearActive, kernelVars, trackerVars, batchVars, pusherVars, mainVars, panelVars
<1>1. TypeOK'
  BY DEF TypeOK, Control
<1>2. Control'
  BY DEF TypeOK, Control
<1>3. Ids'
  BY DEF TypeOK, Control, Ids
<1>4. RetryUnchanged' /\ HeldCopies'
  BY DEF TypeOK, Control, Ids, RetryUnchanged, HeldCopies, Outstanding
<1>5. OneUnsettledBatch'
  BY DEF TypeOK, Control, Ids, OneUnsettledBatch, Outstanding
<1>6. Conservation'
  BY DEF TypeOK, Control, Ids, Conservation, Unsettled, Outstanding, SeenBound
<1>7. FlushLeft' /\ SeenBound'
  BY DEF TypeOK, Control, Ids, FlushLeft, SeenBound
<1> QED
  BY <1>1, <1>2, <1>3, <1>4, <1>5, <1>6, <1>7 DEF IInv

LEMMA PushDoneStep ==
  ASSUME IInv, PushDone PROVE IInv'
<1> USE NoBatchFacts DEF IInv, PushDone, pushActive, kernelVars, trackerVars, batchVars, pusherVars, mainVars, panelVars
<1>1. TypeOK'
  BY DEF TypeOK, Control
<1>2. Control'
  BY DEF TypeOK, Control
<1>3. Ids'
  BY DEF TypeOK, Control, Ids
<1>4. RetryUnchanged' /\ HeldCopies'
  BY DEF TypeOK, Control, Ids, RetryUnchanged, HeldCopies, Outstanding
<1>5. OneUnsettledBatch'
  BY DEF TypeOK, Control, Ids, OneUnsettledBatch, Outstanding
<1>6. Conservation'
  BY DEF TypeOK, Control, Ids, Conservation, Unsettled, Outstanding, SeenBound
<1>7. FlushLeft' /\ SeenBound'
  BY DEF TypeOK, Control, Ids, FlushLeft, SeenBound
<1> QED
  BY <1>1, <1>2, <1>3, <1>4, <1>5, <1>6, <1>7 DEF IInv

LEMMA BeginShutdownStep ==
  ASSUME IInv, BeginShutdown PROVE IInv'
<1> USE NoBatchFacts DEF IInv, BeginShutdown, kernelVars, trackerVars, batchVars, pusherVars, mainVars, panelVars
<1>1. TypeOK'
  BY DEF TypeOK, Control
<1>2. Control'
  BY DEF TypeOK, Control
<1>3. Ids'
  BY DEF TypeOK, Control, Ids
<1>4. RetryUnchanged' /\ HeldCopies'
  BY DEF TypeOK, Control, Ids, RetryUnchanged, HeldCopies, Outstanding
<1>5. OneUnsettledBatch'
  BY DEF TypeOK, Control, Ids, OneUnsettledBatch, Outstanding
<1>6. Conservation'
  BY DEF TypeOK, Control, Ids, Conservation, Unsettled, Outstanding, SeenBound
<1>7. FlushLeft' /\ SeenBound'
  BY DEF TypeOK, Control, Ids, FlushLeft, SeenBound
<1> QED
  BY <1>1, <1>2, <1>3, <1>4, <1>5, <1>6, <1>7 DEF IInv

LEMMA FinalSampleStep ==
  ASSUME IInv, FinalSample PROVE IInv'
<1> USE NoBatchFacts DEF IInv, FinalSample, PushersGone, FinalBatches, SampleScopes, kernelVars, trackerVars, batchVars, pusherVars, mainVars, panelVars
<1>0. /\ lastSeen' \in [Keys -> Nat] /\ pending' \in [Keys -> Nat]
      /\ \A k \in Keys : lastSeen'[k] <= cum[k]
      /\ \A k \in Keys : lastSeen'[k] + pending[k] = lastSeen[k] + pending'[k]
  BY ProcessAdds
<1>1. TypeOK'
  BY <1>0 DEF TypeOK, Control
<1>2. Control'
  BY DEF TypeOK, Control
<1>3. Ids'
  BY DEF TypeOK, Control, Ids
<1>4. RetryUnchanged' /\ HeldCopies'
  BY DEF TypeOK, Control, Ids, RetryUnchanged, HeldCopies, Outstanding
<1>5. OneUnsettledBatch'
  BY DEF TypeOK, Control, Ids, OneUnsettledBatch, Outstanding
<1>6. Conservation'
  <2> SUFFICES ASSUME NEW k \in Keys
               PROVE  lastSeen'[k] = billed'[k] + pending'[k] + Unsettled(k)'
    BY DEF Conservation
  <2>1. Unsettled(k)' = Unsettled(k) /\ billed'[k] = billed[k]
    BY DEF Unsettled, Outstanding
  <2>2. lastSeen[k] = billed[k] + pending[k] + Unsettled(k)
    BY DEF Conservation
  <2>3. lastSeen'[k] + pending[k] = lastSeen[k] + pending'[k]
        /\ lastSeen'[k] \in Nat /\ pending'[k] \in Nat
    BY <1>0
  <2>4. Unsettled(k) \in Nat /\ lastSeen[k] \in Nat /\ billed[k] \in Nat
        /\ pending[k] \in Nat
    BY UnsettledNat
  <2> HIDE DEF IInv
  <2> QED
    BY <2>1, <2>2, <2>3, <2>4
<1>7. FlushLeft' /\ SeenBound'
  BY <1>0 DEF TypeOK, Control, Ids, FlushLeft, SeenBound
<1> QED
  BY <1>1, <1>2, <1>3, <1>4, <1>5, <1>6, <1>7 DEF IInv

LEMMA FinalTakeStep ==
  ASSUME IInv, FinalTake PROVE IInv'
<1> USE NoBatchFacts DEF IInv, FinalTake, kernelVars, trackerVars, batchVars, pusherVars, mainVars, panelVars
<1>0. /\ sending' \in Batches /\ sending' # NoBatch
      /\ pending' \in [Keys -> Nat] /\ reportSeq' \in Nat
      /\ \/ /\ retryReport # NoBatch /\ sending' = retryReport
            /\ pending' = pending /\ reportSeq' = reportSeq
         \/ /\ retryReport = NoBatch /\ reportSeq' = reportSeq + 1
            /\ sending'.id = reportSeq + 1 /\ sending'.traffic = pending
            /\ pending' = Zero
  BY TakeFacts
<1>1. TypeOK'
  BY <1>0 DEF TypeOK, Control
<1>2. Control'
  BY <1>0 DEF TypeOK, Control
<1>3. Ids'
  BY <1>0 DEF TypeOK, Control, Ids
<1>4. RetryUnchanged' /\ HeldCopies'
  BY <1>0 DEF TypeOK, Control, Ids, RetryUnchanged, HeldCopies, Outstanding
<1>5. OneUnsettledBatch'
  BY <1>0 DEF TypeOK, Control, Ids, OneUnsettledBatch, Outstanding
<1>6. Conservation'
  BY <1>0 DEF TypeOK, Control, Ids, Conservation, Unsettled, Outstanding, SeenBound
<1>7. FlushLeft' /\ SeenBound'
  BY <1>0 DEF TypeOK, Control, Ids, FlushLeft, SeenBound
<1> QED
  BY <1>1, <1>2, <1>3, <1>4, <1>5, <1>6, <1>7 DEF IInv

LEMMA FinalFailsStep ==
  ASSUME IInv, FinalFails PROVE IInv'
<1> USE NoBatchFacts DEF IInv, FinalFails, RememberFailed, kernelVars, trackerVars, batchVars, pusherVars, mainVars, panelVars
<1>1. TypeOK'
  BY DEF TypeOK, Control
<1>2. Control'
  BY DEF TypeOK, Control
<1>3. Ids'
  BY DEF TypeOK, Control, Ids
<1>4. RetryUnchanged' /\ HeldCopies'
  BY DEF TypeOK, Control, Ids, RetryUnchanged, HeldCopies, Outstanding
<1>5. OneUnsettledBatch'
  BY DEF TypeOK, Control, Ids, OneUnsettledBatch, Outstanding
<1>6. Conservation'
  BY DEF TypeOK, Control, Ids, Conservation, Unsettled, Outstanding, SeenBound
<1>7. FlushLeft' /\ SeenBound'
  BY DEF TypeOK, Control, Ids, FlushLeft, SeenBound
<1> QED
  BY <1>1, <1>2, <1>3, <1>4, <1>5, <1>6, <1>7 DEF IInv

LEMMA FinalSucceedsStep ==
  ASSUME IInv, FinalSucceeds PROVE IInv'
<1> USE NoBatchFacts DEF IInv, FinalSucceeds, ForgetCompleted, kernelVars, trackerVars, batchVars, pusherVars, mainVars, panelVars
<1>1. TypeOK'
  BY DEF TypeOK, Control
<1>2. Control'
  BY DEF TypeOK, Control
<1>3. Ids'
  BY DEF TypeOK, Control, Ids
<1>4. RetryUnchanged' /\ HeldCopies'
  BY DEF TypeOK, Control, Ids, RetryUnchanged, HeldCopies, Outstanding
<1>5. OneUnsettledBatch'
  BY DEF TypeOK, Control, Ids, OneUnsettledBatch, Outstanding
<1>6. Conservation'
  BY DEF TypeOK, Control, Ids, Conservation, Unsettled, Outstanding, SeenBound
<1>7. FlushLeft' /\ SeenBound'
  BY DEF TypeOK, Control, Ids, FlushLeft, SeenBound
<1> QED
  BY <1>1, <1>2, <1>3, <1>4, <1>5, <1>6, <1>7 DEF IInv

-----------------------------------------------------------------------------
LEMMA NextIInv == IInv /\ [Next]_vars => IInv'
<1> SUFFICES ASSUME IInv, [Next]_vars PROVE IInv'
  OBVIOUS
<1>1. CASE UNCHANGED vars
  BY <1>1 DEF vars, IInv, TypeOK, Control, Ids, HeldCopies, RetryUnchanged,
       OneUnsettledBatch, Conservation, Unsettled, Outstanding, FlushLeft, SeenBound
<1>2. CASE \E k \in Keys : Carry(k)
  BY <1>2, CarryStep
<1>3. CASE TrackTick
  BY <1>3, TrackTickStep
<1>4. CASE SkipReport \/ StartReport
  BY <1>4, SkipReportStep, StartReportStep
<1>5. CASE \E delivered \in BOOLEAN : Post(delivered)
  BY <1>5, PostStep
<1>6. CASE \E batch \in net : PanelAccept(batch)
  BY <1>6, PanelAcceptStep
<1>7. CASE Pusher
  BY <1>7, ReportFailsStep, ReportSucceedsStep, OnFailureStep, OnSuccessStep,
     ClearActiveStep, PushDoneStep DEF Pusher
<1>8. CASE BeginShutdown \/ Shutdown
  BY <1>8, BeginShutdownStep, FinalSampleStep, FinalTakeStep, FinalFailsStep,
     FinalSucceedsStep DEF Shutdown
<1> QED
  BY <1>1, <1>2, <1>3, <1>4, <1>5, <1>6, <1>7, <1>8 DEF Next

THEOREM Invariant == Spec => []IInv
<1>1. Init => IInv
  BY InitIInv
<1>2. IInv /\ [Next]_vars => IInv'
  BY NextIInv
<1> QED
  BY <1>1, <1>2, PTL DEF Spec

\* Every variable keeps its type.
THEOREM TypeCorrect == Spec => []TypeOK
BY Invariant, PTL DEF IInv

\* Accounting is exact at every moment: what the tracker has seen is billed,
\* pending, or in the one batch under way.
THEOREM ConservationHolds == Spec => []Conservation
BY Invariant, PTL DEF IInv

\* A report id never names two different batches, and an unsettled batch is
\* never dropped: together they make resending a batch safe and sufficient.
THEOREM BatchesSafe == Spec => [](RetryUnchanged /\ OneUnsettledBatch)
BY Invariant, PTL DEF IInv

\* The final flush never overlaps an asynchronous push.
THEOREM FinalFlushIsAlone == Spec => []FinalFlushAlone
<1>1. IInv => FinalFlushAlone
  BY DEF IInv, Control, FinalFlushAlone, pushActive
<1> QED
  BY <1>1, Invariant, PTL

\* After a clean exit the panel has billed exactly what the kernel carried.
LEMMA CleanFacts == IInv => CleanExitBilled
<1> SUFFICES ASSUME IInv, Clean PROVE billed = cum
  BY DEF CleanExitBilled
<1>1. retryReport = NoBatch /\ pending = Zero /\ sending = NoBatch
  BY DEF IInv, FlushLeft, Control, Clean
<1>2. \A k \in Keys : Unsettled(k) = 0
  BY <1>1, NoBatchFacts DEF Unsettled, Outstanding
<1>3. \A k \in Keys : cum[k] = billed[k]
  BY <1>1, <1>2, NoBatchFacts DEF IInv, TypeOK, Conservation, Clean
<1> QED
  BY <1>3 DEF IInv, TypeOK

THEOREM CleanExitIsBilled == Spec => []CleanExitBilled
BY CleanFacts, Invariant, PTL

-----------------------------------------------------------------------------
(* TrafficReport implements TrafficBilling.                                *)

BilledBounded == \A k \in Keys : billed[k] <= cum[k]

LEMMA BilledBound == IInv => BilledBounded
<1> SUFFICES ASSUME IInv, NEW k \in Keys PROVE billed[k] <= cum[k]
  BY DEF BilledBounded
<1>1. Unsettled(k) \in Nat /\ lastSeen[k] \in Nat /\ billed[k] \in Nat
      /\ pending[k] \in Nat /\ cum[k] \in Nat
  BY UnsettledNat DEF IInv
<1>2. lastSeen[k] = billed[k] + pending[k] + Unsettled(k) /\ lastSeen[k] <= cum[k]
  BY DEF IInv, Conservation, SeenBound
<1> QED
  BY <1>1, <1>2

LEMMA BillStep ==
  ASSUME IInv, IInv', NEW batch \in net, PanelAccept(batch) PROVE Billing!Bill
<1>1. ~Clean
  <2>1. batch = Outstanding /\ batch.id \in 1..reportSeq
    BY DEF IInv, OneUnsettledBatch, Ids, PanelAccept
  <2>2. Outstanding # NoBatch
    BY <2>1, NoBatchFacts DEF IInv, TypeOK
  <2>3. Clean => Outstanding = NoBatch
    BY DEF Clean, IInv, FlushLeft, Control, Outstanding
  <2> QED
    BY <2>1, <2>2, <2>3
<1>2. Clean' = Clean /\ cum' = cum
  BY DEF PanelAccept, Clean, kernelVars, mainVars, trackerVars
<1>3. \A k \in Keys : billed[k] <= billed'[k]
  <2>1. batch.traffic \in [Keys -> Nat]
    BY BatchFields DEF IInv, TypeOK
  <2> QED
    BY <2>1 DEF PanelAccept, IInv, TypeOK
<1>4. BilledBounded'
  BY BilledBound, PTL
<1>5. billed' \in [Keys -> Nat]
  BY DEF IInv, TypeOK
<1> QED
  BY <1>1, <1>2, <1>3, <1>4, <1>5 DEF Billing!Bill, BilledBounded

LEMMA SettleStep ==
  ASSUME IInv, IInv', FinalSucceeds PROVE [Billing!Next]_Billing!vars
<1>1. ~Clean /\ UNCHANGED <<cum, billed>>
  BY DEF FinalSucceeds, Clean, kernelVars, panelVars
<1>2. CASE ~Clean'
  <2>1. Clean \in BOOLEAN /\ Clean' \in BOOLEAN
    BY DEF Clean
  <2>2. Clean' = Clean
    BY <1>1, <1>2, <2>1
  <2> QED
    BY <1>1, <2>2 DEF Billing!vars
<1>3. CASE Clean'
  <2>1. CleanExitBilled'
    BY CleanFacts, PTL
  <2>2. billed = cum
    BY <1>1, <1>3, <2>1 DEF CleanExitBilled
  <2> QED
    BY <1>1, <1>3, <2>2 DEF Billing!Next, Billing!Settle
<1> QED
  BY <1>2, <1>3

\* Every other step leaves the bill, the counters and the clean exit alone.
LEMMA SilentStep ==
  ASSUME IInv, IInv',
         \/ TrackTick \/ SkipReport \/ StartReport \/ Post(TRUE) \/ Post(FALSE)
         \/ Pusher \/ BeginShutdown \/ FinalSample \/ FinalTake \/ FinalFails
  PROVE  UNCHANGED Billing!vars
<1> USE DEF Billing!vars, Clean, kernelVars, trackerVars, batchVars, pusherVars,
            mainVars, panelVars
<1>1. CASE TrackTick \/ SkipReport \/ StartReport \/ BeginShutdown
  BY <1>1 DEF TrackTick, SkipReport, StartReport, BeginShutdown
<1>2. CASE Post(TRUE) \/ Post(FALSE)
  BY <1>2 DEF Post
<1>3. CASE Pusher
  BY <1>3 DEF Pusher, ReportFails, ReportSucceeds, OnFailure, OnSuccess,
       ClearActive, PushDone
<1>4. CASE FinalSample \/ FinalTake
  BY <1>4 DEF FinalSample, FinalTake
<1>5. CASE FinalFails
  BY <1>5 DEF FinalFails, IInv, Control
<1> QED
  BY <1>1, <1>2, <1>3, <1>4, <1>5

\* The bill never exceeds what the kernel carried, never shrinks, and is final
\* and exact after a clean exit.
THEOREM BillingRefined == Spec => ImplementsBilling
<1>1. Init => Billing!Init
  BY DEF Init, Billing!Init, Clean, Zero
<1>2. IInv /\ IInv' /\ [Next]_vars => [Billing!Next]_Billing!vars
  <2> SUFFICES ASSUME IInv, IInv', [Next]_vars PROVE [Billing!Next]_Billing!vars
    OBVIOUS
  <2>1. CASE UNCHANGED vars
    BY <2>1 DEF vars, Billing!vars, Clean
  <2>2. ASSUME NEW k \in Keys, Carry(k) PROVE Billing!Carry
    BY <2>2 DEF Carry, Billing!Carry, Clean, mainVars, panelVars
  <2>3. ASSUME NEW delivered \in BOOLEAN, Post(delivered)
        PROVE UNCHANGED Billing!vars
    BY <2>3, SilentStep
  <2>4. ASSUME NEW batch \in net, PanelAccept(batch) PROVE Billing!Bill
    BY <2>4, BillStep
  <2>5. CASE FinalSucceeds
    BY <2>5, SettleStep
  <2> QED
    BY <2>1, <2>2, <2>3, <2>4, <2>5, SilentStep DEF Next, Shutdown, Billing!Next
<1> QED
  BY <1>1, <1>2, Invariant, PTL DEF Spec, ImplementsBilling, Billing!Spec
=============================================================================
