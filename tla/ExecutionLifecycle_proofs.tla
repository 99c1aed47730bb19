--------------------- MODULE ExecutionLifecycle_proofs ---------------------
(***************************************************************************)
(* Proofs about ExecutionLifecycle for any number of Workers, passes,      *)
(* Steps, retries, Operations and faults.                                  *)
(***************************************************************************)
EXTENDS ExecutionLifecycle, TLAPS

----------------------------------------------------------------------------
(* The ways an action changes the local state of a job or a pass. *)

\* Every ending a run can be given is an ending.
LEMMA EndingType ==
    /\ NoEnding \in Ending
    /\ Retaining \in Ending
    /\ \A s \in RetryStrategy : Failing(s) \in Ending
    /\ RestartStrategy \in RetryStrategy
    /\ FailureStrategies \subseteq RetryStrategy
BY DEF NoEnding, Retaining, Failing, Ending, RetryStrategy, CleanupStatus,
       AbortStatus, RestartStrategy, FailureStrategies

\* An idle job, and the job of a dead Worker, are jobs.
LEMMA IdleType == Idle \in Job /\ Dead \in Job
<1>1. 0 \in 0 .. NumSteps /\ {"idle", "dead"} \subseteq Pc
  BY StepsAssumption DEF Pc
<1> QED
  BY <1>1, EndingType DEF Idle, Dead, Job, NoSession

\* Moving a job to another phase keeps its type.
LEMMA GoType ==
    ASSUME job \in [Workers -> Job], NEW w \in Workers, NEW pc \in Pc,
           Go(w, pc)
    PROVE  job' \in [Workers -> Job]
BY DEF Go, Job

\* ... also when the move decides how the run will end.
LEMMA GoEndingType ==
    ASSUME job \in [Workers -> Job], NEW w \in Workers, NEW pc \in Pc,
           NEW end \in Ending, GoEnding(w, pc, end)
    PROVE  job' \in [Workers -> Job]
BY DEF GoEnding, Job

\* A job that ends leaves its Worker idle or dead.
LEMMA JobEndsType ==
    ASSUME job \in [Workers -> Job], NEW w \in Workers, JobEnds(w)
    PROVE  job' \in [Workers -> Job]
BY IdleType DEF JobEnds

\* A claim gives its Worker a job.
LEMMA ClaimedType ==
    ASSUME job \in [Workers -> Job], NEW w \in Workers, NEW pc \in Pc,
           NEW session \in Nat, NEW seq \in 0 .. NumSteps, lease' \in Lease,
           Claimed(w, pc, session, seq)
    PROVE  job' \in [Workers -> Job]
BY IdleType DEF Claimed, Job, Lease

\* What a pass observes of a well typed row is an observation.
LEMMA CaptureType ==
    ASSUME cleaner \in [Cleaners -> Observation], NEW c \in Cleaners,
           NEW pc \in CleanerPc, row' \in Row, lease' \in Lease,
           Capture(c, pc)
    PROVE  cleaner' \in [Cleaners -> Observation]
BY DEF Capture, Observation, Row, Lease, CleanupStatus

\* A pass that ends observes nothing.
LEMMA PassEndsType ==
    ASSUME cleaner \in [Cleaners -> Observation], NEW c \in Cleaners,
           PassEnds(c)
    PROVE  cleaner' \in [Cleaners -> Observation]
BY DEF PassEnds, Observation, NoObservation, NoSession, CleanerPc,
       ExecutionStatus, CleanupStatus

----------------------------------------------------------------------------
(* The operators of ExecutionStore. *)

\* Releasing and fencing keep the lease columns well typed.
LEMMA ReleasedType ==
    ASSUME NEW l \in Lease
    PROVE  /\ Released(l) \in Lease
           /\ [Released(l) EXCEPT !.fence = @ + 1] \in Lease
           /\ [Released(l) EXCEPT !.cowner = NoWorker, !.clive = FALSE] \in Lease
<1>1. \A m \in Lease : m.fence + 1 \in Nat
  BY DEF Lease
<1>2. Released(l) \in Lease
  BY DEF Lease, Released
<1>3. \A m \in Lease, n \in Nat :
        /\ [m EXCEPT !.fence = n] \in Lease
        /\ [m EXCEPT !.cowner = NoWorker, !.clive = FALSE] \in Lease
  BY Zenon DEF Lease
<1> QED
  BY <1>1, <1>2, <1>3

\* So does granting a lease to a Worker.
LEMMA GrantedType ==
    ASSUME NEW l \in Lease, NEW w \in Workers
    PROVE  Granted(l, w) \in Lease /\ CancellationGranted(l, w) \in Lease
<1>1. \A m \in Lease : m.fence + 1 \in Nat
  BY DEF Lease
<1>2. \A m \in Lease, n \in Nat :
        /\ [m EXCEPT !.owner = w, !.live = TRUE, !.fence = n] \in Lease
        /\ [m EXCEPT !.fence = n, !.cowner = w, !.clive = TRUE] \in Lease
  BY Zenon DEF Lease
<1> QED
  BY <1>1, <1>2, ReleasedType DEF Granted, CancellationGranted

\* Continuing or ending an Attempt keeps it an Attempt.
LEMMA AttemptType ==
    ASSUME NEW a \in Attempt, NEW w \in Workers, NEW fence \in Nat,
           NEW ending \in {"SUCCEEDED", "FAILED", "CANCELLED"}
    PROVE  /\ AttemptContinued(a, w, fence) \in Attempt
           /\ EndedAttempt(a, ending) \in Attempt
BY DEF Attempt, AttemptStatus, AttemptContinued, EndedAttempt

\* So does ending the Steps and the Operation, and settling the session.
LEMMA EndedType ==
    ASSUME NEW ss \in [Seqs -> StepStatus], NEW o \in OperationStatus,
           NEW ending \in {"SUCCEEDED", "FAILED", "CANCELLED"}
    PROVE  /\ EndedSteps(ss, ending) \in [Seqs -> StepStatus]
           /\ EndedOperation(o, ending) \in OperationStatus
BY DEF EndedSteps, EndedOperation, StepStatus, OperationStatus

\* Settling a session leaves well typed abort and session columns.
LEMMA SettledType ==
    ASSUME NEW a \in AbortStatus, NEW c \in CleanupStatus, NEW k \in Nat
    PROVE  ResolvedAbort(a, c) \in AbortStatus /\ SessionAfter(k, c) \in Nat
BY DEF AbortStatus, CleanupStatus, ResolvedAbort, SessionAfter, NoSession

----------------------------------------------------------------------------
(* Type correctness. *)

\* Commands of the caller keep every variable well typed.
LEMMA CommandType == TypeOK /\ Command => TypeOK'
<1> SUFFICES ASSUME TypeOK, Command PROVE TypeOK'
  OBVIOUS
<1> USE DEF TypeOK, db, runtime
<1>1. CASE RequestCancel
  BY <1>1 DEF RequestCancel, Row, ExecutionStatus, CancelReason
<1>2. CASE RequestRetry
  <2> DEFINE restart == row.strategy = "FROM_START"
             from == IF restart THEN 1 ELSE row.from
  <2>a. row.retries + 1 \in 0 .. MaxRetries /\ from \in 0 .. NumSteps
    BY <1>2, StepsAssumption, BoundsAssumption DEF RequestRetry, Row
  <2>b. row' = [row EXCEPT
                  !.status = "QUEUED", !.from = from,
                  !.retained = IF restart THEN "NONE" ELSE @,
                  !.cleanup = IF restart THEN "NOT_REQUIRED" ELSE @,
                  !.retries = @ + 1]
    BY <1>2 DEF RequestRetry
  <2>1. row' \in Row
    BY <2>a, <2>b, Zenon
       DEF Row, ExecutionStatus, Retention, CleanupStatus
  <2>2. steps' \in [Seqs -> StepStatus]
    BY <1>2 DEF RequestRetry, StepStatus
  <2>3. lease' \in Lease
    BY <1>2, ReleasedType DEF RequestRetry
  <2> QED
    BY <1>2, <2>1, <2>2, <2>3 DEF RequestRetry, OperationStatus
<1>3. CASE RequestOperation
  <2>a. row.ops + 1 \in 1 .. MaxOperations
    BY <1>3, BoundsAssumption DEF RequestOperation, Row
  <2>1. row' \in Row
    BY <1>3, <2>a, Zenon DEF RequestOperation, Row, ExecutionStatus
  <2> QED
    BY <1>3, <2>1 DEF RequestOperation, OperationStatus, StepStatus
<1>4. CASE RequestFinalization
  BY <1>4 DEF RequestFinalization, Row, ExecutionStatus, FinalizedBy
<1> QED
  BY <1>1, <1>2, <1>3, <1>4 DEF Command

\* So do the claims of a Worker.
LEMMA ClaimType ==
    ASSUME TypeOK, NEW w \in Workers, Claim(w)
    PROVE  TypeOK'
<1> USE DEF TypeOK, db, runtime
<1>a. {"check", "prepare", "takeover", "cancelStop"} \subseteq Pc
  BY DEF Pc, RunPc, BodyPc, CancelPc
<1>b. /\ NoSession \in Nat /\ row.session \in Nat
      /\ {0, 1, row.from} \subseteq 0 .. NumSteps
  BY StepsAssumption DEF NoSession, Row
<1>1. CASE ClaimWaiting(w)
  <2>1. lease' \in Lease /\ lease'.fence \in Nat
    BY <1>1, GrantedType DEF ClaimWaiting, Lease
  <2>2. attempt' \in Attempt
    BY <1>1, <2>1, AttemptType DEF ClaimWaiting
  <2>3. row' \in Row
    BY <1>1, Zenon
       DEF ClaimWaiting, Row, ExecutionStatus, CleanupStatus, AbortStatus
  <2>4. job' \in [Workers -> Job]
    BY <1>1, <2>1, <1>a, <1>b, ClaimedType DEF ClaimWaiting
  <2> QED
    BY <1>1, <2>1, <2>2, <2>3, <2>4 DEF ClaimWaiting, OperationStatus
<1>2. CASE ClaimNew(w)
  <2>1. lease' \in Lease /\ lease'.fence \in Nat
    BY <1>2, GrantedType DEF ClaimNew, Lease
  <2>2. attempt' \in Attempt
    BY <1>2, <2>1 DEF ClaimNew, Attempt, AttemptStatus
  <2>3. row' \in Row
    BY <1>2, Zenon
       DEF ClaimNew, Row, ExecutionStatus, CleanupStatus, AbortStatus, Retention
  <2>4. job' \in [Workers -> Job]
    BY <1>2, <2>1, <1>a, <1>b, ClaimedType DEF ClaimNew
  <2> QED
    BY <1>2, <2>1, <2>2, <2>3, <2>4 DEF ClaimNew, OperationStatus
<1>3. CASE ClaimHandover(w)
  <2>1. lease' \in Lease /\ lease'.fence \in Nat
    BY <1>3, GrantedType DEF ClaimHandover, Lease
  <2>2. attempt' \in Attempt
    BY <1>3, <2>1, AttemptType DEF ClaimHandover
  <2>3. job' \in [Workers -> Job]
    BY <1>3, <2>1, <1>a, <1>b, ClaimedType DEF ClaimHandover
  <2> QED
    BY <1>3, <2>1, <2>2, <2>3 DEF ClaimHandover
<1>4. CASE ClaimCancellation(w)
  <2>1. lease' \in Lease
    BY <1>4, GrantedType DEF ClaimCancellation
  <2>2. job' \in [Workers -> Job]
    BY <1>4, <2>1, <1>a, <1>b, ClaimedType DEF ClaimCancellation
  <2> QED
    BY <1>4, <2>1, <2>2 DEF ClaimCancellation
<1> QED
  BY <1>1, <1>2, <1>3, <1>4 DEF Claim

\* So do the steps of a run that touch no row: the calls to the Jupyter
\* server and the decisions between two transactions.
LEMMA LocalStepType ==
    ASSUME TypeOK, NEW w \in Workers,
           \/ Preflight(w) \/ KeepSession(w) \/ LoadRun(w)
           \/ ExecuteSucceeds(w) \/ ExecuteToolError(w) \/ ExecuteHitsLimit(w)
           \/ ExecuteLosesSession(w) \/ PublishSuccess(w)
           \/ RecordFailureEvidence(w) \/ AbortIdle(w) \/ AbortMissing(w)
           \/ AssertLease(w) \/ StopSession(w) \/ LoseLease(w)
           \/ HandOffCancelled(w)
    PROVE  TypeOK'
<1> USE DEF TypeOK, db, runtime
<1>p. BodyPc \subseteq Pc /\ AbortPc \subseteq Pc /\ HandlerPc \subseteq Pc
      /\ InterruptedPc \subseteq Pc
  BY DEF Pc, RunPc
<1>j. job[w] \in Job /\ job[w].end \in Ending /\ job[w].session \in Nat
      /\ job[w].seq \in 0 .. NumSteps
  BY DEF Job
<1>1. CASE Preflight(w)
  <2>a. Failing("FROM_START") \in Ending
    BY EndingType DEF RetryStrategy
  <2>1. job' \in [Workers -> Job]
    BY <1>1, <1>p, <2>a, GoType, GoEndingType DEF Preflight, BodyPc, HandlerPc
  <2> QED
    BY <1>1, <2>1 DEF Preflight
<1>2. CASE KeepSession(w)
  <2>1. job' \in [Workers -> Job]
    BY <1>2, <1>p, GoType DEF KeepSession, BodyPc
  <2> QED
    BY <1>2, <2>1 DEF KeepSession
<1>3. CASE LoadRun(w)
  <2>1. Seqs \subseteq 0 .. NumSteps /\ "execute" \in Pc
    BY <1>p, StepsAssumption DEF Seqs, BodyPc
  <2>a. PICK s \in Seqs :
          job' = [job EXCEPT ![w].pc = "execute", ![w].seq = s]
    BY <1>3 DEF LoadRun, RunningSteps
  <2>b. s \in 0 .. NumSteps
    BY <2>1
  <2>2. job' \in [Workers -> Job]
    BY <2>1, <2>a, <2>b DEF Job
  <2> QED
    BY <1>3, <2>2 DEF LoadRun
<1>4. CASE ExecuteSucceeds(w)
  <2>1. job' \in [Workers -> Job]
    BY <1>4, <1>p, GoType DEF ExecuteSucceeds, BodyPc
  <2>2. <<job[w].session, row.ops, job[w].seq>> \in Nat \X Nat \X Nat
    BY <1>j, BoundsAssumption, StepsAssumption DEF Row
  <2> QED
    BY <1>4, <2>1, <2>2 DEF ExecuteSucceeds
<1>5. CASE ExecuteToolError(w)
  <2>1. job' \in [Workers -> Job]
    BY <1>5, <1>p, GoType DEF ExecuteToolError, BodyPc
  <2> QED
    BY <1>5, <2>1 DEF ExecuteToolError
<1>6. CASE ExecuteHitsLimit(w)
  <2>1. job' \in [Workers -> Job]
    BY <1>6, <1>p, GoType, GoEndingType, EndingType
       DEF ExecuteHitsLimit, AbortPc, HandlerPc
  <2> QED
    BY <1>6, <2>1 DEF ExecuteHitsLimit
<1>7. CASE ExecuteLosesSession(w)
  <2>1. job' \in [Workers -> Job]
    BY <1>7, <1>p, GoEndingType, EndingType
       DEF ExecuteLosesSession, BodyPc, HandlerPc
  <2> QED
    BY <1>7, <2>1 DEF ExecuteLosesSession
<1>8. CASE PublishSuccess(w)
  <2>1. MoreSteps(w) => job[w].seq + 1 \in 0 .. NumSteps
    BY <1>j, StepsAssumption DEF MoreSteps
  <2>2. [NoEnding EXCEPT !.status = "SUCCEEDED"] \in Ending
    BY EndingType DEF Ending
  <2>3. {"next", "complete", "opDone"} \subseteq Pc
    BY <1>p DEF BodyPc
  <2>4. job' \in [Workers -> Job]
    BY <1>8, <1>j, <2>1, <2>2, <2>3 DEF PublishSuccess, Job
  <2> QED
    BY <1>8, <2>4 DEF PublishSuccess
<1>9. CASE RecordFailureEvidence(w)
  <2>1. job' \in [Workers -> Job]
    BY <1>9, <1>p, GoType DEF RecordFailureEvidence, HandlerPc
  <2> QED
    BY <1>9, <2>1 DEF RecordFailureEvidence
<1>10. CASE AbortIdle(w)
  <2>1. [Retaining EXCEPT !.abort = "IDLE_CONFIRMED"] \in Ending
    BY EndingType DEF Ending, AbortStatus
  <2>2. job' \in [Workers -> Job]
    BY <1>10, <2>1, <1>p, GoEndingType DEF AbortIdle, AbortPc
  <2> QED
    BY <1>10, <2>2 DEF AbortIdle
<1>11. CASE AbortMissing(w)
  <2>1. [Failing(RestartStrategy) EXCEPT !.abort = "SESSION_MISSING",
                                         !.cleanup = "SUCCEEDED"] \in Ending
    BY EndingType DEF Ending, AbortStatus, CleanupStatus
  <2>2. job' \in [Workers -> Job]
    BY <1>11, <2>1, <1>p, GoEndingType DEF AbortMissing, AbortPc
  <2> QED
    BY <1>11, <2>2 DEF AbortMissing
<1>12. CASE AssertLease(w)
  <2>1. job' \in [Workers -> Job]
    BY <1>12, <1>p, GoType DEF AssertLease, BodyPc
  <2> QED
    BY <1>12, <2>1 DEF AssertLease
<1>13. CASE StopSession(w)
  <2>1. job' \in [Workers -> Job]
    BY <1>13, <1>p, GoType DEF StopSession, HandlerPc
  <2> QED
    BY <1>13, <2>1 DEF StopSession
<1>14. CASE LoseLease(w)
  BY <1>14, JobEndsType DEF LoseLease
<1>15. CASE HandOffCancelled(w)
  <2>1. job' \in [Workers -> Job]
    BY <1>15, <1>p, GoType, GoEndingType, EndingType
       DEF HandOffCancelled, HandlerPc, InterruptedPc
  <2> QED
    BY <1>15, <2>1 DEF HandOffCancelled
<1> QED
  BY <1>1, <1>2, <1>3, <1>4, <1>5, <1>6, <1>7, <1>8, <1>9, <1>10, <1>11,
     <1>12, <1>13, <1>14, <1>15

\* So do the calls that start or delete a kernel.
LEMMA KernelStepType ==
    ASSUME TypeOK, NEW w \in Workers,
           \/ StartSession(w) \/ AbortDeletes(w) \/ ReleaseSession(w)
           \/ StopSucceeds(w) \/ CancelStop(w)
    PROVE  TypeOK'
<1> USE DEF TypeOK, db, runtime
<1>j. job[w] \in Job /\ job[w].end \in Ending
  BY DEF Job
<1>1. CASE StartSession(w)
  <2>1. started' \in Nat /\ kernels' \subseteq 1 .. started'
    BY <1>1 DEF StartSession
  <2>2. "record" \in Pc
    BY DEF Pc, RunPc, BodyPc
  <2>3. job' \in [Workers -> Job]
    BY <1>1, <2>1, <2>2 DEF StartSession, Job
  <2> QED
    BY <1>1, <2>1, <2>3 DEF StartSession
<1>2. CASE AbortDeletes(w)
  <2>1. [Failing(RestartStrategy) EXCEPT !.abort = "SESSION_DELETED",
                                         !.cleanup = "SUCCEEDED"] \in Ending
    BY EndingType DEF Ending, AbortStatus, CleanupStatus
  <2>2. job' \in [Workers -> Job]
    BY <1>2, <2>1, GoEndingType DEF AbortDeletes, Pc, RunPc, AbortPc
  <2> QED
    BY <1>2, <2>2 DEF AbortDeletes
<1>3. CASE ReleaseSession(w)
  <2>1. [NoEnding EXCEPT !.status = "SUCCEEDED",
                         !.cleanup = "SUCCEEDED"] \in Ending
    BY EndingType DEF Ending, CleanupStatus
  <2>2. job' \in [Workers -> Job]
    BY <1>3, <2>1, GoEndingType DEF ReleaseSession, Pc, RunPc, BodyPc
  <2> QED
    BY <1>3, <2>2 DEF ReleaseSession
<1>4. CASE StopSucceeds(w)
  <2>1. [job[w].end EXCEPT !.cleanup = "SUCCEEDED"] \in Ending
    BY <1>j DEF Ending, CleanupStatus
  <2>2. job' \in [Workers -> Job]
    BY <1>4, <2>1, GoEndingType DEF StopSucceeds, Pc, RunPc, HandlerPc
  <2> QED
    BY <1>4, <2>2 DEF StopSucceeds
<1>5. CASE CancelStop(w)
  <2>1. [NoEnding EXCEPT !.cleanup = "SUCCEEDED"] \in Ending
    BY EndingType DEF Ending, CleanupStatus
  <2>2. job' \in [Workers -> Job]
    BY <1>5, <2>1, GoEndingType, EndingType DEF CancelStop, Pc, CancelPc
  <2> QED
    BY <1>5, <2>2 DEF CancelStop
<1> QED
  BY <1>1, <1>2, <1>3, <1>4, <1>5

\* So do the transactions that record the progress of a Step.
LEMMA StepWriteType ==
    ASSUME TypeOK, NEW w \in Workers,
           \/ RecordRuntimeSession(w) \/ MarkStarted(w) \/ MarkSucceeded(w)
           \/ MarkFailed(w) \/ SkipStepsAfter(w) \/ AbortBegin(w)
           \/ AbortRecord(w) \/ AbortMark(w)
    PROVE  TypeOK'
<1> USE DEF TypeOK, db, runtime
<1>p. BodyPc \subseteq Pc /\ AbortPc \subseteq Pc /\ HandlerPc \subseteq Pc
  BY DEF Pc, RunPc
<1>j. job[w] \in Job /\ job[w].end \in Ending /\ job[w].session \in Nat
  BY DEF Job
<1>1. CASE RecordRuntimeSession(w)
  <2>1. job' \in [Workers -> Job]
    BY <1>1, <1>p, GoType DEF RecordRuntimeSession, BodyPc
  <2>2. row' \in Row
    BY <1>1, <1>j DEF RecordRuntimeSession, Row
  <2> QED
    BY <1>1, <2>1, <2>2 DEF RecordRuntimeSession
<1>2. CASE MarkStarted(w)
  <2>1. job' \in [Workers -> Job]
    BY <1>2, <1>p, GoType DEF MarkStarted, BodyPc
  <2> QED
    BY <1>2, <2>1 DEF MarkStarted, StepStatus
<1>3. CASE MarkSucceeded(w)
  <2>1. job' \in [Workers -> Job]
    BY <1>3, <1>p, GoType DEF MarkSucceeded, BodyPc
  <2> QED
    BY <1>3, <2>1 DEF MarkSucceeded, StepStatus
<1>4. CASE MarkFailed(w)
  <2>1. job' \in [Workers -> Job]
    BY <1>4, <1>p, GoType, GoEndingType, EndingType
       DEF MarkFailed, BodyPc, HandlerPc
  <2> QED
    BY <1>4, <2>1 DEF MarkFailed, StepStatus
<1>5. CASE SkipStepsAfter(w)
  <2>1. job' \in [Workers -> Job]
    BY <1>5, <1>p, GoType DEF SkipStepsAfter, BodyPc, AbortPc
  <2>2. steps' \in [Seqs -> StepStatus]
    BY <1>5 DEF SkipStepsAfter, StepStatus
  <2> QED
    BY <1>5, <2>1, <2>2 DEF SkipStepsAfter
<1>6. CASE AbortBegin(w)
  <2>1. job' \in [Workers -> Job]
    BY <1>6, <1>p, GoType DEF AbortBegin, AbortPc
  <2>2. row' \in Row
    BY <1>6 DEF AbortBegin, Row, AbortStatus, CleanupStatus
  <2> QED
    BY <1>6, <2>1, <2>2 DEF AbortBegin
<1>7. CASE AbortRecord(w)
  <2>1. job' \in [Workers -> Job]
    BY <1>7, <1>p, GoType DEF AbortRecord, AbortPc
  <2>2. row' \in Row
    BY <1>7, <1>j DEF AbortRecord, Row, Ending
  <2> QED
    BY <1>7, <2>1, <2>2 DEF AbortRecord
<1>8. CASE AbortMark(w)
  <2>1. job' \in [Workers -> Job]
    BY <1>8, <1>p, GoType DEF AbortMark, AbortPc, HandlerPc
  <2> QED
    BY <1>8, <2>1 DEF AbortMark, StepStatus
<1> QED
  BY <1>1, <1>2, <1>3, <1>4, <1>5, <1>6, <1>7, <1>8

\* So do the transactions that end a run or let it go.
LEMMA RunEndType ==
    ASSUME TypeOK, NEW w \in Workers,
           \/ DeferRetainedRetry(w) \/ CompleteOperation(w) \/ Finalize(w)
           \/ ReleaseForCancellation(w) \/ ReleaseForHandover(w)
           \/ CancelFinalize(w)
    PROVE  TypeOK'
<1> USE DEF TypeOK, db, runtime
<1>j. job[w] \in Job /\ job[w].end \in Ending /\ job[w].seq \in 0 .. NumSteps
  BY DEF Job
<1>e. /\ job[w].end.status \in {"SUCCEEDED", "FAILED"}
      /\ job[w].end.strategy \in RetryStrategy
      /\ job[w].end.cleanup \in CleanupStatus
  BY <1>j DEF Ending
<1>a. \A a \in Attempt :
        /\ [a EXCEPT !.owner = NoWorker] \in Attempt
        /\ [a EXCEPT !.status = "WAITING", !.owner = NoWorker] \in Attempt
        /\ EndedAttempt(a, "FAILED") \in Attempt
  BY DEF Attempt, AttemptStatus, EndedAttempt
<1>1. CASE DeferRetainedRetry(w)
  <2>1. job' \in [Workers -> Job]
    BY <1>1, JobEndsType DEF DeferRetainedRetry
  <2>2. row' \in Row
    BY <1>1 DEF DeferRetainedRetry, Row, ExecutionStatus
  <2>3. lease' \in Lease /\ attempt' \in Attempt
    BY <1>1, <1>a, ReleasedType DEF DeferRetainedRetry
  <2> QED
    BY <1>1, <2>1, <2>2, <2>3 DEF DeferRetainedRetry, OperationStatus
<1>2. CASE CompleteOperation(w)
  <2>1. job' \in [Workers -> Job]
    BY <1>2, JobEndsType DEF CompleteOperation
  <2>2. row' \in Row
    BY <1>2, Zenon DEF CompleteOperation, Row, ExecutionStatus
  <2>3. lease' \in Lease /\ attempt' \in Attempt
    BY <1>2, <1>a, ReleasedType DEF CompleteOperation
  <2>4. op' \in OperationStatus
    BY <1>2, <1>e DEF CompleteOperation, OperationStatus
  <2> QED
    BY <1>2, <2>1, <2>2, <2>3, <2>4 DEF CompleteOperation
<1>3. CASE Finalize(w)
  <2> DEFINE end == job[w].end
             cleanup == FinalCleanup(w)
             from == CASE end.strategy = "FROM_FAILED_STEP" -> job[w].seq
                       [] end.strategy = "FROM_START" -> 1
                       [] OTHER -> 0
  <2>1. job' \in [Workers -> Job]
    BY <1>3, JobEndsType DEF Finalize
  <2>2. /\ cleanup \in CleanupStatus /\ end.status \in ExecutionStatus
        /\ ResolvedAbort(row.abort, cleanup) \in AbortStatus
        /\ SessionAfter(row.session, cleanup) \in Nat
    BY <1>e, SettledType
       DEF FinalCleanup, CleanupStatus, Row, ExecutionStatus
  <2>3. from \in 0 .. NumSteps
    BY <1>j, StepsAssumption
  <2>4. row' = [row EXCEPT
                  !.status = end.status, !.strategy = end.strategy,
                  !.from = from,
                  !.retained = IF end.retain THEN "OPEN" ELSE "NONE",
                  !.cleanup = cleanup,
                  !.abort = ResolvedAbort(@, cleanup),
                  !.session = IF end.retain THEN @ ELSE SessionAfter(@, cleanup)]
    BY <1>3 DEF Finalize
  <2>5. row' \in Row
    BY <1>e, <2>2, <2>3, <2>4 DEF Row, Retention
  <2>6. lease' \in Lease
    BY <1>3, ReleasedType DEF Finalize
  <2>7. attempt' \in Attempt
    BY <1>3, <1>e DEF Finalize, EndedAttempt, Attempt, AttemptStatus
  <2>8. op' \in OperationStatus /\ steps' \in [Seqs -> StepStatus]
    BY <1>3, <1>e, EndedType DEF Finalize
  <2> QED
    BY <1>3, <2>1, <2>5, <2>6, <2>7, <2>8 DEF Finalize
<1>4. CASE ReleaseForCancellation(w)
  <2>1. job' \in [Workers -> Job]
    BY <1>4, JobEndsType DEF ReleaseForCancellation
  <2>2. lease' \in Lease /\ attempt' \in Attempt
    BY <1>4, <1>a, ReleasedType DEF ReleaseForCancellation
  <2> QED
    BY <1>4, <2>1, <2>2 DEF ReleaseForCancellation
<1>5. CASE ReleaseForHandover(w)
  <2>1. job' \in [Workers -> Job]
    BY <1>5, JobEndsType, GoEndingType, EndingType
       DEF ReleaseForHandover, Pc, RunPc, HandlerPc
  <2>2. lease' \in Lease /\ attempt' \in Attempt
    BY <1>5, <1>a, ReleasedType DEF ReleaseForHandover, BeginHandover
  <2> QED
    BY <1>5, <2>1, <2>2 DEF ReleaseForHandover, BeginHandover
<1>6. CASE CancelFinalize(w)
  <2> DEFINE ending == IF row.finBy = "MAX_RUNTIME" THEN "FAILED" ELSE "CANCELLED"
             cleanup == job[w].end.cleanup
  <2>1. job' \in [Workers -> Job]
    BY <1>6, JobEndsType DEF CancelFinalize
  <2>2. /\ ResolvedAbort(row.abort, cleanup) \in AbortStatus
        /\ SessionAfter(row.session, cleanup) \in Nat
    BY <1>e, SettledType DEF Row
  <2>3. row' = [row EXCEPT
                  !.status = ending, !.strategy = "NOT_RETRYABLE", !.from = 0,
                  !.retained = "NONE", !.cleanup = cleanup,
                  !.abort = ResolvedAbort(@, cleanup),
                  !.session = SessionAfter(@, cleanup)]
    BY <1>6 DEF CancelFinalize
  <2>a. ending \in ExecutionStatus /\ 0 \in 0 .. NumSteps
    BY StepsAssumption DEF ExecutionStatus
  <2> HIDE DEF ending
  <2>4. row' \in Row
    BY <1>e, <2>2, <2>3, <2>a DEF Row, Retention, RetryStrategy
  <2>5. lease' \in Lease
    BY <1>6, ReleasedType DEF CancelFinalize
  <2>6. attempt' \in Attempt
    BY <1>6 DEF CancelFinalize, EndedAttempt, Attempt, AttemptStatus
  <2>7. op' \in OperationStatus /\ steps' \in [Seqs -> StepStatus]
    BY <1>6, EndedType DEF CancelFinalize
  <2> QED
    BY <1>6, <2>1, <2>4, <2>5, <2>6, <2>7 DEF CancelFinalize
<1> QED
  BY <1>1, <1>2, <1>3, <1>4, <1>5, <1>6

\* So do the faults of a job and its interruption.
LEMMA JobFaultType ==
    ASSUME TypeOK, NEW w \in Workers, JobFault(w) \/ DispatchCancellation(w)
    PROVE  TypeOK'
<1> USE DEF TypeOK, db, runtime
<1>f. Fault => faults' \in 0 .. MaxFaults
  BY BoundsAssumption DEF Fault
<1>j. job[w] \in Job /\ job[w].end \in Ending /\ job[w].session \in Nat
  BY DEF Job
<1>k. MaybeStartedKernel(w) => started' \in Nat /\ kernels' \subseteq 1 .. started'
  <2>1. CASE UNCHANGED <<kernels, started>>
    BY <2>1
  <2>2. CASE started' = started + 1 /\ kernels' = kernels \cup {started'}
    BY <2>2
  <2> QED
    BY <2>1, <2>2 DEF MaybeStartedKernel
<1>i. \A shut \in BOOLEAN : Interrupted(w, shut) => job' \in [Workers -> Job]
  <2> SUFFICES ASSUME NEW shut \in BOOLEAN, Interrupted(w, shut)
               PROVE  job' \in [Workers -> Job]
    OBVIOUS
  <2>1. PICK session \in LocalSessions(w) :
          job' = [job EXCEPT ![w] =
                    IF @.pc \in CatchesInterrupt
                    THEN [@ EXCEPT
                            !.pc = IF @ \in InFlightPc THEN "interruptedRun"
                                   ELSE "interrupted",
                            !.session = session,
                            !.shut = @ \/ shut,
                            !.end = NoEnding]
                    ELSE IF shut \/ @.shut THEN Dead ELSE Idle]
    BY DEF Interrupted
  <2>2. session \in Nat
    BY <1>j DEF LocalSessions, NoSession
  <2>3. {"interrupted", "interruptedRun"} \subseteq Pc
    BY DEF Pc, RunPc, InterruptedPc
  <2>4. \A x \in BOOLEAN, pc \in Pc :
          [job[w] EXCEPT !.pc = pc, !.session = session, !.shut = x,
                         !.end = NoEnding] \in Job
    BY <1>j, <2>2, EndingType, Zenon DEF Job
  <2>5. (job[w].shut \/ shut) \in BOOLEAN
    BY <1>j, Zenon DEF Job
  <2> QED
    BY <2>1, <2>3, <2>4, <2>5, IdleType
<1>1. CASE PreflightUnreachable(w)
  <2>1. job' \in [Workers -> Job]
    BY <1>1, GoType DEF PreflightUnreachable, Pc, RunPc, BodyPc
  <2> QED
    BY <1>1, <2>1, <1>f DEF PreflightUnreachable
<1>2. CASE ExecuteBreaks(w)
  <2>1. job' \in [Workers -> Job]
    BY <1>2, GoEndingType, EndingType
       DEF ExecuteBreaks, Pc, RunPc, BodyPc, HandlerPc
  <2> QED
    BY <1>2, <2>1, <1>f DEF ExecuteBreaks
<1>3. CASE AbortFails(w)
  <2>1. [Failing(RestartStrategy) EXCEPT !.abort = "FAILED",
                                         !.cleanup = "FAILED"] \in Ending
    BY EndingType DEF Ending, AbortStatus, CleanupStatus
  <2>2. job' \in [Workers -> Job]
    BY <1>3, <2>1, GoEndingType DEF AbortFails, Pc, RunPc, AbortPc
  <2> QED
    BY <1>3, <2>2, <1>f DEF AbortFails
<1>4. CASE RunBreaks(w)
  <2>1. PICK strategy \in FailureStrategies, session \in LocalSessions(w) :
          job' = [job EXCEPT ![w].pc = "stop", ![w].session = session,
                             ![w].end = Failing(strategy)]
    BY <1>4 DEF RunBreaks
  <2>2. session \in Nat /\ Failing(strategy) \in Ending
    BY <1>j, EndingType DEF LocalSessions, NoSession
  <2>3. "stop" \in Pc
    BY DEF Pc, RunPc, HandlerPc
  <2>4. job' \in [Workers -> Job]
    BY <2>1, <2>2, <2>3 DEF Job
  <2> QED
    BY <1>4, <2>4, <1>f DEF RunBreaks
<1>5. CASE StopFails(w)
  <2>1. [job[w].end EXCEPT !.cleanup = "FAILED"] \in Ending
    BY <1>j DEF Ending, CleanupStatus
  <2>2. job' \in [Workers -> Job]
    BY <1>5, <2>1, GoEndingType DEF StopFails, Pc, RunPc, HandlerPc
  <2> QED
    BY <1>5, <2>2, <1>f DEF StopFails
<1>6. CASE CancelStopFails(w)
  <2>1. [NoEnding EXCEPT !.cleanup = "FAILED"] \in Ending
    BY EndingType DEF Ending, CleanupStatus
  <2>2. job' \in [Workers -> Job]
    BY <1>6, <2>1, GoEndingType DEF CancelStopFails, Pc, CancelPc
  <2> QED
    BY <1>6, <2>2, <1>f DEF CancelStopFails
<1>7. CASE Shutdown(w)
  BY <1>7, <1>f, <1>i, <1>k DEF Shutdown
<1>8. CASE Crash(w)
  <2>1. job' \in [Workers -> Job]
    BY <1>8, IdleType DEF Crash
  <2> QED
    BY <1>8, <2>1, <1>f, <1>k DEF Crash
<1>9. CASE DispatchCancellation(w)
  BY <1>9, <1>i, <1>k DEF DispatchCancellation
<1> QED
  BY <1>1, <1>2, <1>3, <1>4, <1>5, <1>6, <1>7, <1>8, <1>9 DEF JobFault

\* So do the background passes.
LEMMA PassType ==
    ASSUME TypeOK, NEW c \in Cleaners,
           StartPass(c) \/ PassStep(c) \/ Audit(c) \/ PassFault(c)
    PROVE  TypeOK'
<1> USE DEF TypeOK, db, runtime
<1>f. Fault => faults' \in 0 .. MaxFaults
  BY BoundsAssumption DEF Fault
<1>o. cleaner[c] \in Observation /\ cleaner[c].out \in CleanupStatus
  BY DEF Observation
<1>p. {"audit", "lost", "validate", "delete", "record"} \subseteq CleanerPc
  BY DEF CleanerPc
<1>z. {0, 1} \subseteq 0 .. NumSteps /\ NoSession \in Nat
  BY StepsAssumption DEF NoSession
<1>a. \A a \in Attempt : EndedAttempt(a, "FAILED") \in Attempt
  BY DEF Attempt, AttemptStatus, EndedAttempt
<1>1. CASE FailExpired(c)
  <2>1. RestartStrategy \in RetryStrategy /\ CleanupOfAbandoned \in CleanupStatus
    BY EndingType DEF CleanupOfAbandoned, CleanupStatus
  <2>2. row' \in Row
    BY <1>1, <1>z, <2>1 DEF FailExpired, Row, ExecutionStatus, Retention
  <2>3. lease' \in Lease /\ attempt' \in Attempt
    BY <1>1, <1>a, ReleasedType DEF FailExpired
  <2>4. op' \in OperationStatus /\ steps' \in [Seqs -> StepStatus]
    BY <1>1, EndedType DEF FailExpired
  <2>5. cleaner' \in [Cleaners -> Observation]
    BY <1>1, <1>p, <2>2, <2>3, CaptureType DEF FailExpired
  <2> QED
    BY <1>1, <2>2, <2>3, <2>4, <2>5 DEF FailExpired
<1>2. CASE CleanupExpired(c)
  <2>1. row' \in Row
    BY <1>2, <1>z
       DEF CleanupExpired, Row, ExecutionStatus, RetryStrategy, Retention,
           CleanupStatus
  <2>2. op' \in OperationStatus /\ steps' \in [Seqs -> StepStatus]
    BY <1>2, EndedType DEF CleanupExpired, StepStatus
  <2>3. cleaner' \in [Cleaners -> Observation]
    BY <1>2, <1>p, <2>1, CaptureType DEF CleanupExpired
  <2> QED
    BY <1>2, <2>1, <2>2, <2>3 DEF CleanupExpired
<1>3. CASE RetryUnresolved(c)
  <2>1. row' \in Row
    BY <1>3 DEF RetryUnresolved, Row, CleanupStatus
  <2>2. cleaner' \in [Cleaners -> Observation]
    BY <1>3, <1>p, <2>1, CaptureType DEF RetryUnresolved
  <2> QED
    BY <1>3, <2>1, <2>2 DEF RetryUnresolved
<1>4. CASE ValidateObservation(c)
  <2>1. cleaner' \in [Cleaners -> Observation]
    BY <1>4, <1>p, PassEndsType DEF ValidateObservation, Observation
  <2> QED
    BY <1>4, <2>1 DEF ValidateObservation
<1>5. CASE DeleteObserved(c)
  <2>1. cleaner' \in [Cleaners -> Observation]
    BY <1>5, <1>p DEF DeleteObserved, Observation, CleanupStatus
  <2> QED
    BY <1>5, <2>1 DEF DeleteObserved
<1>6. CASE RecordResult(c)
  <2>1. /\ ResolvedAbort(row.abort, cleaner[c].out) \in AbortStatus
        /\ SessionAfter(row.session, cleaner[c].out) \in Nat
    BY <1>o, SettledType DEF Row
  <2>2. row' \in Row
    BY <1>6, <1>o, <2>1 DEF RecordResult, Row
  <2>3. cleaner' \in [Cleaners -> Observation]
    BY <1>6, PassEndsType DEF RecordResult
  <2> QED
    BY <1>6, <2>2, <2>3 DEF RecordResult
<1>7. CASE AuditProbe(c)
  <2>1. cleaner' \in [Cleaners -> Observation]
    BY <1>7, <1>p, PassEndsType DEF AuditProbe, Observation
  <2> QED
    BY <1>7, <2>1 DEF AuditProbe
<1>w. \A by \in FinalizedBy, lost \in BOOLEAN :
        FailWaiting(c, by, lost) => TypeOK'
  <2> SUFFICES ASSUME NEW by \in FinalizedBy, NEW lost \in BOOLEAN,
                      FailWaiting(c, by, lost)
               PROVE  TypeOK'
    OBVIOUS
  <2>1. row' \in Row
    BY <1>z
       DEF FailWaiting, Row, ExecutionStatus, RetryStrategy, Retention,
           CleanupStatus
  <2>2. lease' \in Lease /\ attempt' \in Attempt
    BY <1>a, ReleasedType DEF FailWaiting
  <2>3. cleaner' \in [Cleaners -> Observation]
    BY <1>p, <2>1, <2>2, CaptureType, PassEndsType DEF FailWaiting
  <2> QED
    BY <2>1, <2>2, <2>3 DEF FailWaiting
<1>8. CASE AuditLost(c)
  <2>1. CASE CurrentWaiting(c) /\ FailWaiting(c, "NONE", TRUE)
    BY <2>1, <1>w DEF FinalizedBy
  <2>2. CASE PassEnds(c) /\ UNCHANGED <<db, runtime, job, faults>>
    BY <2>2, PassEndsType
  <2> QED
    BY <1>8, <2>1, <2>2 DEF AuditLost
<1>9. CASE AuditCapture(c)
  <2>1. cleaner' \in [Cleaners -> Observation]
    BY <1>9, <1>p, CaptureType DEF AuditCapture
  <2> QED
    BY <1>9, <2>1 DEF AuditCapture
<1>10. ASSUME NEW by \in {"WAIT_TIMEOUT", "MAX_RUNTIME"}, AuditEnd(c, by)
       PROVE  TypeOK'
  <2>1. CASE op = "SUCCEEDED"
    <3>1. row' \in Row
      BY <1>10, <2>1, Zenon DEF AuditEnd, Row, ExecutionStatus, FinalizedBy
    <3>2. cleaner' \in [Cleaners -> Observation]
      BY <1>10, <2>1, PassEndsType DEF AuditEnd
    <3> QED
      BY <1>10, <2>1, <3>1, <3>2 DEF AuditEnd
  <2>2. CASE op # "SUCCEEDED"
    BY <1>10, <2>2, <1>w DEF AuditEnd, FinalizedBy
  <2> QED
    BY <2>1, <2>2
<1>11. CASE AuditTargetGone(c)
  BY <1>11, <1>w DEF AuditTargetGone, FinalizedBy
<1>12. CASE DeleteObservedFails(c)
  <2>1. cleaner' \in [Cleaners -> Observation]
    BY <1>12, <1>p DEF DeleteObservedFails, Observation, CleanupStatus
  <2> QED
    BY <1>12, <2>1, <1>f DEF DeleteObservedFails
<1>13. CASE PassBreaks(c)
  BY <1>13, <1>f, PassEndsType DEF PassBreaks
<1> QED
  BY <1>1, <1>2, <1>3, <1>4, <1>5, <1>6, <1>7, <1>8, <1>9, <1>10, <1>11,
     <1>12, <1>13 DEF StartPass, PassStep, Audit, PassFault

\* So do the passing of time and the faults of the environment.
LEMMA EnvironmentType ==
    ASSUME TypeOK, HandOverExpired \/ Deadlines \/ Expiry \/ Environment
    PROVE  TypeOK'
<1> USE DEF TypeOK, db, runtime
<1>f. Fault => faults' \in 0 .. MaxFaults
  BY BoundsAssumption DEF Fault
<1>z. 0 \in 0 .. NumSteps /\ 1 \in 0 .. NumSteps
  BY StepsAssumption
<1>l. \A l \in Lease :
        [l EXCEPT !.live = FALSE] \in Lease /\ [l EXCEPT !.clive = FALSE] \in Lease
  BY Zenon DEF Lease
<1>1. CASE HandOverExpired
  <2>1. attempt' \in Attempt
    BY <1>1 DEF HandOverExpired, BeginHandover, Attempt
  <2>2. lease' \in Lease
    BY <1>1, ReleasedType DEF HandOverExpired, BeginHandover
  <2> QED
    BY <1>1, <2>1, <2>2 DEF HandOverExpired, BeginHandover
<1>2. CASE FailQueueTimeout
  <2>1. row' \in Row
    BY <1>2, <1>z DEF FailQueueTimeout, Row, ExecutionStatus, RetryStrategy
  <2>2. op' \in OperationStatus /\ steps' \in [Seqs -> StepStatus]
    BY <1>2, EndedType DEF FailQueueTimeout, StepStatus
  <2> QED
    BY <1>2, <2>1, <2>2 DEF FailQueueTimeout
<1>3. CASE RequestExpiredCancellation
  <2>1. row' \in Row
    BY <1>3
       DEF RequestExpiredCancellation, Row, ExecutionStatus, FinalizedBy,
           CancelReason
  <2> QED
    BY <1>3, <2>1 DEF RequestExpiredCancellation
<1>4. CASE RetentionPasses
  <2>1. row' \in Row
    BY <1>4 DEF RetentionPasses, Row, Retention
  <2> QED
    BY <1>4, <2>1 DEF RetentionPasses
<1>5. CASE LeaseExpires
  BY <1>5, <1>l DEF LeaseExpires
<1>6. CASE CancellationLeaseExpires
  BY <1>6, <1>l DEF CancellationLeaseExpires
<1>7. CASE LeaseStalls
  BY <1>7, <1>f, <1>l DEF LeaseStalls
<1>8. CASE CancellationLeaseStalls
  BY <1>8, <1>f, <1>l DEF CancellationLeaseStalls
<1>9. CASE ClaimUnavailable
  <2>1. row' \in Row
    BY <1>9, <1>z
       DEF ClaimUnavailable, Row, ExecutionStatus, RetryStrategy, Retention,
           CleanupStatus
  <2>2. lease' \in Lease
    BY <1>9, ReleasedType DEF ClaimUnavailable
  <2>3. op' \in OperationStatus /\ steps' \in [Seqs -> StepStatus]
    BY <1>9, EndedType DEF ClaimUnavailable, StepStatus
  <2> QED
    BY <1>9, <1>f, <2>1, <2>2, <2>3 DEF ClaimUnavailable
<1>10. CASE \E k \in kernels : KernelDies(k) \/ KernelRestarts(k)
  <2>1. ASSUME NEW k \in kernels, KernelDies(k)
        PROVE  TypeOK'
    BY <2>1, <1>f DEF KernelDies
  <2>2. ASSUME NEW k \in kernels, KernelRestarts(k)
        PROVE  TypeOK'
    <3>1. k \in Nat
      BY DEF TypeOK
    <3>2. <<k, 0, 0>> \in Nat \X Nat \X Nat
      BY <3>1
    <3>3. done' \subseteq Nat \X Nat \X Nat
      BY <2>2, <3>2 DEF KernelRestarts, TypeOK
    <3> QED
      BY <2>2, <3>3, <1>f DEF KernelRestarts
  <2> QED
    BY <1>10, <2>1, <2>2
<1> QED
  BY <1>1, <1>2, <1>3, <1>4, <1>5, <1>6, <1>7, <1>8, <1>9, <1>10
     DEF Deadlines, Expiry, Environment

\* The initial row is well typed, nothing runs and nothing was started.
LEMMA InitType == Init => TypeOK
<1> SUFFICES ASSUME Init PROVE TypeOK
  OBVIOUS
<1> USE DEF Init
<1>1. 0 \in 0 .. NumSteps /\ 0 \in 0 .. MaxRetries /\ 1 \in 1 .. MaxOperations
      /\ 0 \in 0 .. MaxFaults /\ 0 \in Nat
  BY StepsAssumption, BoundsAssumption
<1>2. row \in Row
  <2>1. PICK mode \in OperationMode : row = Submitted(mode)
    OBVIOUS
  <2>2. Submitted(mode) \in Row
    BY <1>1, Zenon
       DEF Submitted, Row, NoSession, ExecutionStatus, CleanupStatus,
           AbortStatus, RetryStrategy, Retention, FinalizedBy, CancelReason
  <2> QED
    BY <2>1, <2>2
<1>3. lease \in Lease /\ attempt \in Attempt
  BY <1>1, Zenon DEF NoLease, Lease, NoAttempt, Attempt, AttemptStatus
<1>4. job \in [Workers -> Job]
  BY IdleType
<1>5. cleaner \in [Cleaners -> Observation]
  BY <1>1, Zenon
     DEF NoObservation, Observation, NoSession, CleanerPc, ExecutionStatus,
         CleanupStatus
<1> QED
  BY <1>1, <1>2, <1>3, <1>4, <1>5 DEF TypeOK, OperationStatus, StepStatus

\* Every step of the system keeps it well typed.
LEMMA NextType == TypeOK /\ [Next]_vars => TypeOK'
<1> SUFFICES ASSUME TypeOK, [Next]_vars PROVE TypeOK'
  OBVIOUS
<1>1. CASE Command
  BY <1>1, CommandType
<1>2. ASSUME NEW w \in Workers,
             Claim(w) \/ JobStep(w) \/ JobFault(w) \/ DispatchCancellation(w)
      PROVE  TypeOK'
  BY <1>2, ClaimType, LocalStepType, KernelStepType, StepWriteType, RunEndType,
     JobFaultType DEF JobStep
<1>3. ASSUME NEW c \in Cleaners,
             StartPass(c) \/ PassStep(c) \/ Audit(c) \/ PassFault(c)
      PROVE  TypeOK'
  BY <1>3, PassType
<1>4. CASE HandOverExpired \/ Deadlines \/ Expiry \/ Environment
  BY <1>4, EnvironmentType
<1>5. CASE UNCHANGED vars
  BY <1>5 DEF TypeOK, vars, db, runtime
<1> QED
  BY <1>1, <1>2, <1>3, <1>4, <1>5 DEF Next

\* Every reachable state is well typed: in particular a Worker only ever
\* works on a Step of the plan, and every kernel in use was started.
THEOREM TypeCorrect == Spec => []TypeOK
<1>1. Init => TypeOK
  BY InitType
<1>2. TypeOK /\ [Next]_vars => TypeOK'
  BY NextType
<1> QED
  BY <1>1, <1>2, PTL DEF Spec

----------------------------------------------------------------------------
(* The lease on the row and the lease on its Attempt. *)

\* The steps of a run and of its faults that leave the status, the lease and
\* the Attempt alone, so that the two leases still agree afterwards.
LEMMA JobLeavesLease ==
    ASSUME TypeOK, NEW w \in Workers, JobStep(w) \/ JobFault(w)
                                        \/ DispatchCancellation(w)
    PROVE  \/ lease' = lease /\ attempt' = attempt /\ row'.status = row.status
           \/ DeferRetainedRetry(w) \/ CompleteOperation(w) \/ Finalize(w)
           \/ ReleaseForCancellation(w) \/ ReleaseForHandover(w)
           \/ CancelFinalize(w)
<1> USE DEF TypeOK, db, runtime
<1>1. CASE \/ RecordRuntimeSession(w) \/ AbortBegin(w) \/ AbortRecord(w)
  BY <1>1 DEF RecordRuntimeSession, AbortBegin, AbortRecord, Row
<1>2. CASE \/ MarkStarted(w) \/ MarkSucceeded(w) \/ MarkFailed(w)
           \/ SkipStepsAfter(w) \/ AbortMark(w)
  BY <1>2 DEF MarkStarted, MarkSucceeded, MarkFailed, SkipStepsAfter, AbortMark
<1>3. CASE \/ Preflight(w) \/ StartSession(w) \/ KeepSession(w) \/ LoadRun(w)
           \/ ExecuteSucceeds(w) \/ ExecuteToolError(w) \/ ExecuteHitsLimit(w)
           \/ ExecuteLosesSession(w) \/ PublishSuccess(w)
           \/ RecordFailureEvidence(w) \/ HandOffCancelled(w)
  BY <1>3 DEF Preflight, StartSession, KeepSession, LoadRun, ExecuteSucceeds,
              ExecuteToolError, ExecuteHitsLimit, ExecuteLosesSession,
              PublishSuccess, RecordFailureEvidence, HandOffCancelled
<1>4. CASE \/ AbortIdle(w) \/ AbortMissing(w) \/ AbortDeletes(w)
           \/ AssertLease(w) \/ ReleaseSession(w) \/ StopSession(w)
           \/ StopSucceeds(w) \/ LoseLease(w) \/ CancelStop(w)
  BY <1>4 DEF AbortIdle, AbortMissing, AbortDeletes, AssertLease,
              ReleaseSession, StopSession, StopSucceeds, LoseLease, CancelStop
<1>5. CASE JobFault(w) \/ DispatchCancellation(w)
  BY <1>5 DEF JobFault, PreflightUnreachable, ExecuteBreaks, AbortFails,
              RunBreaks, StopFails, CancelStopFails, Shutdown, Crash,
              DispatchCancellation
<1> QED
  BY <1>1, <1>2, <1>3, <1>4, <1>5 DEF JobStep

\* Every step keeps the two leases, and the Attempt and the status, in accord.
LEMMA LeaseMatchesAttemptStep ==
    TypeOK /\ LeaseMatchesAttempt /\ [Next]_vars => LeaseMatchesAttempt'
<1> SUFFICES ASSUME TypeOK, LeaseMatchesAttempt, [Next]_vars
             PROVE  LeaseMatchesAttempt'
  OBVIOUS
<1> USE DEF TypeOK, LeaseMatchesAttempt
<1>r. row \in Row /\ lease \in Lease /\ attempt \in Attempt
  OBVIOUS
<1>n. \A l \in Lease : Released(l).owner = NoWorker
  BY DEF Lease, Released
<1>u. lease' = lease /\ attempt' = attempt /\ row'.status = row.status
        => LeaseMatchesAttempt'
  OBVIOUS
<1>1. CASE Command
  <2>1. CASE RequestCancel
    BY <2>1, <1>r DEF RequestCancel, Row
  <2>2. CASE RequestRetry
    <3>1. row'.status = "QUEUED"
      BY <2>2, <1>r DEF RequestRetry, Row
    <3> QED
      BY <2>2, <3>1, <1>n DEF RequestRetry
  <2>3. CASE RequestOperation
    BY <2>3, <1>r DEF RequestOperation, Row
  <2>4. CASE RequestFinalization
    BY <2>4, <1>r DEF RequestFinalization, Row
  <2> QED
    BY <1>1, <2>1, <2>2, <2>3, <2>4 DEF Command
<1>2. ASSUME NEW w \in Workers, Claim(w)
      PROVE  LeaseMatchesAttempt'
  <2>g. /\ Granted(lease, w).owner = w
        /\ Granted(lease, w).fence = lease.fence + 1
    BY <1>r DEF Granted, Lease
  <2>a. /\ AttemptContinued(attempt, w, lease'.fence).status = "RUNNING"
        /\ AttemptContinued(attempt, w, lease'.fence).owner = w
        /\ AttemptContinued(attempt, w, lease'.fence).fence = lease'.fence
    BY <1>r DEF AttemptContinued, Attempt
  <2>1. CASE ClaimWaiting(w)
    <3>1. row'.status = "RUNNING"
      BY <2>1, <1>r DEF ClaimWaiting, Row
    <3> QED
      BY <2>1, <2>g, <2>a, <3>1 DEF ClaimWaiting
  <2>2. CASE ClaimNew(w)
    <3>1. row'.status = "RUNNING"
      BY <2>2, <1>r DEF ClaimNew, Row
    <3> QED
      BY <2>2, <2>g, <3>1 DEF ClaimNew
  <2>3. CASE ClaimHandover(w)
    BY <2>3, <2>g, <2>a DEF ClaimHandover
  <2>4. CASE ClaimCancellation(w)
    <3>1. CancellationGranted(lease, w).owner = NoWorker
      BY <1>r DEF CancellationGranted, Released, Lease
    <3> QED
      BY <2>4, <3>1 DEF ClaimCancellation
  <2> QED
    BY <1>2, <2>1, <2>2, <2>3, <2>4 DEF Claim
<1>3. ASSUME NEW w \in Workers,
             JobStep(w) \/ JobFault(w) \/ DispatchCancellation(w)
      PROVE  LeaseMatchesAttempt'
  <2>1. CASE DeferRetainedRetry(w)
    <3>1. row'.status = "QUEUED" /\ attempt'.status = "FAILED"
      BY <2>1, <1>r
         DEF DeferRetainedRetry, HoldsRun, Holds, EndedAttempt, ActiveAttempt,
             Row, Attempt
    <3> QED
      BY <2>1, <3>1, <1>n DEF DeferRetainedRetry
  <2>2. CASE CompleteOperation(w)
    <3>1. row'.status = "WAITING_FOR_OPERATION" /\ attempt'.status = "WAITING"
      BY <2>2, <1>r DEF CompleteOperation, Row, Attempt
    <3> QED
      BY <2>2, <3>1, <1>n DEF CompleteOperation
  <2>3. CASE Finalize(w)
    <3>e. job[w].end.status \in {"SUCCEEDED", "FAILED"}
      BY DEF Job, Ending
    <3>1. row'.status \in {"SUCCEEDED", "FAILED"}
      BY <2>3, <1>r, <3>e DEF Finalize, Row
    <3>2. attempt'.status \in {"SUCCEEDED", "FAILED"}
      BY <2>3, <1>r, <3>e
         DEF Finalize, HoldsRun, Holds, EndedAttempt, ActiveAttempt, Attempt
    <3> QED
      BY <2>3, <3>1, <3>2, <1>n DEF Finalize
  <2>4. CASE ReleaseForCancellation(w)
    BY <2>4, <1>r, <1>n DEF ReleaseForCancellation, Attempt
  <2>5. CASE ReleaseForHandover(w)
    <3>1. CASE BeginHandover /\ UNCHANGED row
      <4>1. lease'.owner = NoWorker
        BY <3>1, <1>r DEF BeginHandover, Released, Lease
      <4> QED
        BY <3>1, <4>1, <1>r DEF BeginHandover, Attempt
    <3> QED
      BY <2>5, <3>1, <1>u DEF ReleaseForHandover
  <2>6. CASE CancelFinalize(w)
    <3>1. row'.status \in {"FAILED", "CANCELLED"}
      BY <2>6, <1>r DEF CancelFinalize, Row
    <3>2. attempt'.status \notin ActiveAttempt
      BY <2>6, <1>r DEF CancelFinalize, EndedAttempt, ActiveAttempt, Attempt
    <3>3. lease'.owner = NoWorker
      BY <2>6, <1>r DEF CancelFinalize, Released, Lease
    <3> QED
      BY <3>1, <3>2, <3>3 DEF ActiveAttempt
  <2> QED
    BY <1>3, <1>u, <2>1, <2>2, <2>3, <2>4, <2>5, <2>6, JobLeavesLease
<1>4. ASSUME NEW c \in Cleaners,
             StartPass(c) \/ PassStep(c) \/ Audit(c) \/ PassFault(c)
      PROVE  LeaseMatchesAttempt'
  <2>1. CASE FailExpired(c)
    <3>1. row'.status = "FAILED"
      BY <2>1, <1>r DEF FailExpired, Row
    <3>2. attempt'.status = "FAILED"
      BY <2>1, <1>r DEF FailExpired, Expired, EndedAttempt, ActiveAttempt, Attempt
    <3>3. lease'.owner = NoWorker
      BY <2>1, <1>r DEF FailExpired, Released, Lease
    <3> QED
      BY <3>1, <3>2, <3>3
  <2>2. CASE CleanupExpired(c)
    <3>1. row'.status = "FAILED"
      BY <2>2, <1>r DEF CleanupExpired, Row
    <3> QED
      BY <2>2, <3>1 DEF CleanupExpired, RetentionOver
  <2>3. CASE RetryUnresolved(c) \/ RecordResult(c)
    BY <2>3, <1>r, <1>u DEF RetryUnresolved, RecordResult, Row
  <2>4. CASE \/ ValidateObservation(c) \/ DeleteObserved(c) \/ AuditProbe(c)
             \/ AuditCapture(c) \/ PassFault(c)
    BY <2>4, <1>u DEF ValidateObservation, DeleteObserved, AuditProbe,
                      AuditCapture, PassFault, DeleteObservedFails, PassBreaks,
                      db
  <2>w. \A by, lost : CurrentWaiting(c) /\ FailWaiting(c, by, lost)
                        => LeaseMatchesAttempt'
    <3> SUFFICES ASSUME NEW by, NEW lost, CurrentWaiting(c),
                        FailWaiting(c, by, lost)
                 PROVE  LeaseMatchesAttempt'
      OBVIOUS
    <3>1. row'.status = "FAILED"
      BY <1>r DEF FailWaiting, Row
    <3>2. attempt'.status = "FAILED"
      BY <1>r DEF FailWaiting, CurrentWaiting, EndedAttempt, ActiveAttempt,
                  Attempt
    <3> QED
      BY <3>1, <3>2, <1>n DEF FailWaiting
  <2>5. CASE AuditLost(c)
    BY <2>5, <2>w, <1>u DEF AuditLost, db
  <2>6. ASSUME NEW by, AuditEnd(c, by)
        PROVE  LeaseMatchesAttempt'
    <3>1. CASE op = "SUCCEEDED"
      <4>1. row'.status = "FINALIZING"
        BY <2>6, <3>1, <1>r DEF AuditEnd, Row
      <4> QED
        BY <2>6, <3>1, <4>1 DEF AuditEnd, CurrentWaiting
    <3> QED
      BY <2>6, <2>w, <3>1 DEF AuditEnd
  <2>7. CASE AuditTargetGone(c)
    BY <2>7, <2>w DEF AuditTargetGone
  <2> QED
    BY <1>4, <2>1, <2>2, <2>3, <2>4, <2>5, <2>6, <2>7
       DEF StartPass, PassStep, Audit
<1>5. CASE HandOverExpired \/ Deadlines \/ Expiry \/ Environment
  <2>1. CASE HandOverExpired
    <3>1. lease'.owner = NoWorker
      BY <2>1, <1>r DEF HandOverExpired, BeginHandover, Released, Lease
    <3> QED
      BY <2>1, <3>1, <1>r DEF HandOverExpired, BeginHandover, Attempt
  <2>2. CASE FailQueueTimeout
    <3>1. row'.status = "FAILED"
      BY <2>2, <1>r DEF FailQueueTimeout, Row
    <3> QED
      BY <2>2, <3>1 DEF FailQueueTimeout
  <2>3. CASE RequestExpiredCancellation
    <3>1. row'.status = "CANCEL_REQUESTED"
      BY <2>3, <1>r DEF RequestExpiredCancellation, Row
    <3> QED
      BY <2>3, <3>1 DEF RequestExpiredCancellation
  <2>4. CASE RetentionPasses
    BY <2>4, <1>r, <1>u DEF RetentionPasses, Row
  <2>5. CASE Expiry \/ LeaseStalls \/ CancellationLeaseStalls
    <3>1. lease'.owner = lease.owner /\ lease'.fence = lease.fence
      BY <2>5, <1>r
         DEF Expiry, LeaseExpires, CancellationLeaseExpires, LeaseStalls,
             CancellationLeaseStalls, Lease
    <3> QED
      BY <2>5, <3>1
         DEF Expiry, LeaseExpires, CancellationLeaseExpires, LeaseStalls,
             CancellationLeaseStalls
  <2>6. CASE ClaimUnavailable
    <3>1. row'.status = "FAILED"
      BY <2>6, <1>r DEF ClaimUnavailable, Row
    <3> QED
      BY <2>6, <3>1, <1>n DEF ClaimUnavailable
  <2>7. CASE \E k \in kernels : KernelDies(k) \/ KernelRestarts(k)
    BY <2>7, <1>u DEF KernelDies, KernelRestarts, db
  <2> QED
    BY <1>5, <2>1, <2>2, <2>3, <2>4, <2>5, <2>6, <2>7 DEF Deadlines, Environment
<1>6. CASE UNCHANGED vars
  BY <1>6, <1>u DEF vars, db
<1> QED
  BY <1>1, <1>2, <1>3, <1>4, <1>5, <1>6 DEF Next

\* In every reachable state the lease on the execution row and the one on its
\* newest Attempt name the same owner and token: what require_active_lease
\* reads of one is true of the other, for any number of Workers and faults.
THEOREM LeaseAgreement == Spec => []LeaseMatchesAttempt
<1>1. Init => LeaseMatchesAttempt
  BY DEF Init, LeaseMatchesAttempt, Submitted, NoLease, NoAttempt
<1>2. TypeOK /\ LeaseMatchesAttempt /\ [Next]_vars => LeaseMatchesAttempt'
  BY LeaseMatchesAttemptStep
<1> QED
  BY <1>1, <1>2, TypeCorrect, PTL DEF Spec

----------------------------------------------------------------------------
(* Fencing tokens. *)

\* A job keeps its token until it ends; only a claim gives out a token.
LEMMA JobKeepsToken ==
    ASSUME TypeOK, NEW w \in Workers, JobStep(w) \/ JobFault(w)
                                        \/ DispatchCancellation(w)
    PROVE  \A v \in Workers : job'[v].fence = job[v].fence \/ job'[v].fence = 0
<1> DEFINE Kept == \A v \in Workers :
                     job'[v].fence = job[v].fence \/ job'[v].fence = 0
<1> SUFFICES Kept
  OBVIOUS
<1> USE DEF TypeOK
<1>j. job \in [Workers -> Job]
  OBVIOUS
<1>1. \A pc : Go(w, pc) => Kept
  BY <1>j DEF Go, Job
<1>2. \A pc, end : GoEnding(w, pc, end) => Kept
  BY <1>j DEF GoEnding, Job
<1>3. JobEnds(w) => Kept
  BY <1>j DEF JobEnds, Job, Idle, Dead
<1>4. \A shut : Interrupted(w, shut) => Kept
  BY <1>j DEF Interrupted, Job, Idle, Dead
<1> HIDE DEF TypeOK, Kept
<1>5. CASE \/ Preflight(w) \/ KeepSession(w) \/ RecordRuntimeSession(w)
           \/ MarkStarted(w) \/ ExecuteSucceeds(w) \/ ExecuteToolError(w)
           \/ ExecuteHitsLimit(w) \/ ExecuteLosesSession(w) \/ MarkSucceeded(w)
           \/ MarkFailed(w) \/ RecordFailureEvidence(w) \/ SkipStepsAfter(w)
  BY <1>5, <1>1, <1>2
     DEF Preflight, KeepSession, RecordRuntimeSession, MarkStarted,
         ExecuteSucceeds, ExecuteToolError, ExecuteHitsLimit,
         ExecuteLosesSession, MarkSucceeded, MarkFailed, RecordFailureEvidence,
         SkipStepsAfter
<1>6. CASE \/ AbortBegin(w) \/ AbortIdle(w) \/ AbortMissing(w)
           \/ AbortDeletes(w) \/ AbortRecord(w) \/ AbortMark(w)
           \/ AssertLease(w) \/ ReleaseSession(w) \/ StopSession(w)
           \/ StopSucceeds(w) \/ HandOffCancelled(w) \/ CancelStop(w)
  BY <1>6, <1>1, <1>2
     DEF AbortBegin, AbortIdle, AbortMissing, AbortDeletes, AbortRecord,
         AbortMark, AssertLease, ReleaseSession, StopSession, StopSucceeds,
         HandOffCancelled, CancelStop
<1>7. CASE \/ DeferRetainedRetry(w) \/ CompleteOperation(w) \/ Finalize(w)
           \/ LoseLease(w) \/ ReleaseForCancellation(w)
           \/ ReleaseForHandover(w) \/ CancelFinalize(w)
  BY <1>7, <1>2, <1>3
     DEF DeferRetainedRetry, CompleteOperation, Finalize, LoseLease,
         ReleaseForCancellation, ReleaseForHandover, CancelFinalize
<1>8. CASE StartSession(w)
  BY <1>8, <1>j DEF StartSession, Job, Kept
<1>9. CASE LoadRun(w)
  <2>1. PICK s : job' = [job EXCEPT ![w].pc = "execute", ![w].seq = s]
    BY <1>9 DEF LoadRun
  <2> QED
    BY <2>1, <1>j DEF Job, Kept
<1>10. CASE PublishSuccess(w)
  BY <1>10, <1>j DEF PublishSuccess, Job, Kept
<1>11. CASE \/ PreflightUnreachable(w) \/ ExecuteBreaks(w) \/ AbortFails(w)
            \/ StopFails(w) \/ CancelStopFails(w)
  BY <1>11, <1>1, <1>2
     DEF PreflightUnreachable, ExecuteBreaks, AbortFails, StopFails,
         CancelStopFails
<1>12. CASE RunBreaks(w)
  <2>1. PICK session, end :
          job' = [job EXCEPT ![w].pc = "stop", ![w].session = session,
                             ![w].end = end]
    BY <1>12 DEF RunBreaks
  <2> QED
    BY <2>1, <1>j DEF Job, Kept
<1>13. CASE Shutdown(w) \/ DispatchCancellation(w)
  BY <1>13, <1>4 DEF Shutdown, DispatchCancellation
<1>14. CASE Crash(w)
  BY <1>14, <1>j DEF Crash, Job, Idle, Dead, Kept
<1> QED
  BY <1>5, <1>6, <1>7, <1>8, <1>9, <1>10, <1>11, <1>12, <1>13, <1>14
     DEF JobStep, JobFault

\* Tokens stay unique when none is given out, if the row's token does not fall
\* and a cancellation keeps its owner or loses it.
LEMMA NoTokenGiven ==
    ASSUME TypeOK, TypeOK', TokensUnique,
           \A v \in Workers : job'[v].fence = job[v].fence \/ job'[v].fence = 0,
           lease'.fence >= lease.fence,
           lease'.cowner # NoWorker =>
             lease'.cowner = lease.cowner /\ row'.status = "CANCEL_REQUESTED"
    PROVE  TokensUnique'
<1>1. /\ lease.fence \in Nat /\ lease'.fence \in Nat
      /\ \A v \in Workers : job[v].fence \in Nat /\ job'[v].fence \in Nat
  BY DEF TypeOK, Lease, Job
<1>2. \A v \in Workers : job'[v].fence <= lease'.fence
  BY <1>1 DEF TokensUnique
<1>3. \A u, v \in Workers :
        u # v /\ job'[u].fence # 0 => job'[u].fence # job'[v].fence
  BY <1>1 DEF TokensUnique
<1>4. ASSUME lease'.cowner # NoWorker, NEW v \in Workers, v # lease'.cowner
      PROVE  job'[v].fence # lease'.fence
  <2>1. job[v].fence # lease.fence /\ job[v].fence <= lease.fence
    BY <1>4 DEF TokensUnique
  <2> QED
    BY <1>1, <2>1
<1> QED
  BY <1>2, <1>3, <1>4 DEF TokensUnique

\* Tokens stay unique when one Worker is given a token above the row's.
LEMMA TokenGiven ==
    ASSUME TypeOK, TypeOK', TokensUnique, NEW w \in Workers,
           lease'.fence = lease.fence + 1, job'[w].fence = lease'.fence,
           \A v \in Workers : v # w => job'[v].fence = job[v].fence,
           lease'.cowner # NoWorker =>
             lease'.cowner = w /\ row'.status = "CANCEL_REQUESTED"
    PROVE  TokensUnique'
<1>1. /\ lease.fence \in Nat
      /\ \A v \in Workers : job[v].fence \in Nat /\ job[v].fence <= lease.fence
  BY DEF TypeOK, Lease, Job, TokensUnique
<1>2. \A v \in Workers : job'[v].fence <= lease'.fence
  BY <1>1
<1>3. \A v \in Workers : v # w => job'[v].fence < lease'.fence
  BY <1>1
<1>4. \A u, v \in Workers :
        u # v /\ job'[u].fence # 0 => job'[u].fence # job'[v].fence
  BY <1>1, <1>3 DEF TokensUnique
<1>5. \A v \in Workers : v # w => job'[v].fence # lease'.fence
  BY <1>1
<1> QED
  BY <1>2, <1>4, <1>5 DEF TokensUnique

\* Every step keeps the tokens unique.
LEMMA TokensUniqueStep ==
    TypeOK /\ TypeOK' /\ TokensUnique /\ [Next]_vars => TokensUnique'
<1> SUFFICES ASSUME TypeOK, TypeOK', TokensUnique, [Next]_vars
             PROVE  TokensUnique'
  OBVIOUS
<1>t. /\ row \in Row /\ lease \in Lease /\ attempt \in Attempt
      /\ job \in [Workers -> Job] /\ lease.fence \in Nat
      /\ lease.fence + 1 >= lease.fence /\ lease.fence >= lease.fence
  BY DEF TypeOK, Lease
<1>c. lease.cowner # NoWorker => row.status = "CANCEL_REQUESTED"
  BY DEF TokensUnique
<1>r. /\ Released(lease).fence = lease.fence
      /\ Released(lease).cowner = lease.cowner
      /\ [Released(lease) EXCEPT !.fence = @ + 1].fence = lease.fence + 1
      /\ [Released(lease) EXCEPT !.fence = @ + 1].cowner = lease.cowner
  BY <1>t DEF Released, Lease
<1>s. row.status # "CANCEL_REQUESTED" => lease.cowner = NoWorker
  BY <1>c
<1>u. ASSUME job' = job, lease'.fence >= lease.fence,
             lease'.cowner = lease.cowner,
             \/ row.status # "CANCEL_REQUESTED"
             \/ row'.status = row.status
      PROVE  TokensUnique'
  BY <1>u, <1>s, <1>c, NoTokenGiven
<1>1. CASE Command
  <2>1. /\ job' = job /\ row.status # "CANCEL_REQUESTED"
        /\ lease' = lease \/ lease' = Released(lease)
    BY <1>1 DEF Command, RequestCancel, RequestRetry, RequestOperation,
                RequestFinalization
  <2> QED
    BY <2>1, <1>r, <1>t, <1>u
<1>2. ASSUME NEW w \in Workers, Claim(w)
      PROVE  TokensUnique'
  <2>g. /\ Granted(lease, w).fence = lease.fence + 1
        /\ Granted(lease, w).cowner = lease.cowner
    BY <1>t DEF Granted, Lease
  <2>k. ASSUME NEW pc, NEW session, NEW seq, Claimed(w, pc, session, seq)
        PROVE  /\ job'[w].fence = lease'.fence
               /\ \A v \in Workers : v # w => job'[v].fence = job[v].fence
    BY <2>k, <1>t DEF Claimed, Idle
  <2>1. CASE ClaimWaiting(w) \/ ClaimNew(w) \/ ClaimHandover(w)
    <3>1. /\ lease' = Granted(lease, w) /\ row.status # "CANCEL_REQUESTED"
          /\ \E pc, session, seq : Claimed(w, pc, session, seq)
      BY <2>1 DEF ClaimWaiting, ClaimNew, ClaimHandover, Claimable
    <3> QED
      BY <3>1, <2>g, <2>k, <1>s, TokenGiven
  <2>2. CASE ClaimCancellation(w)
    <3>1. Claimed(w, "cancelStop", row.session, 0) /\ row' = row
          /\ row.status = "CANCEL_REQUESTED"
      BY <2>2 DEF ClaimCancellation, CancellationClaimable
    <3>2. CASE CancelLeaseLive
      <4>1. lease' = lease /\ lease.cowner = w /\ lease.cowner # NoWorker
        BY <2>2, <3>2 DEF ClaimCancellation, CancellationClaimable, CancelLeaseLive
      <4>2. \A v \in Workers : v # w => job[v].fence # lease.fence
        BY <4>1 DEF TokensUnique
      <4>3. job'[w].fence = lease.fence
            /\ \A v \in Workers : v # w => job'[v].fence = job[v].fence
        BY <2>k, <3>1, <4>1
      <4>4. \A v \in Workers : job'[v].fence <= lease'.fence
        BY <4>1, <4>3, <1>t DEF TokensUnique
      <4>5. \A u, v \in Workers :
              u # v /\ job'[u].fence # 0 => job'[u].fence # job'[v].fence
        BY <4>2, <4>3 DEF TokensUnique
      <4> QED
        BY <3>1, <4>1, <4>2, <4>3, <4>4, <4>5 DEF TokensUnique
    <3>3. CASE ~CancelLeaseLive
      <4>1. lease' = CancellationGranted(lease, w)
        BY <2>2, <3>3 DEF ClaimCancellation
      <4>2. lease'.fence = lease.fence + 1 /\ lease'.cowner = w
        BY <4>1, <1>t DEF CancellationGranted, Released, Lease
      <4> QED
        BY <3>1, <4>2, <2>k, TokenGiven
    <3> QED
      BY <3>2, <3>3
  <2> QED
    BY <1>2, <2>1, <2>2 DEF Claim
<1>3. ASSUME NEW w \in Workers,
             JobStep(w) \/ JobFault(w) \/ DispatchCancellation(w)
      PROVE  TokensUnique'
  <2>1. \A v \in Workers : job'[v].fence = job[v].fence \/ job'[v].fence = 0
    BY <1>3, JobKeepsToken
  <2>2. CASE lease' = lease /\ row'.status = row.status
    BY <2>1, <2>2, <1>t, <1>c, NoTokenGiven
  <2>3. CASE \/ DeferRetainedRetry(w) \/ CompleteOperation(w) \/ Finalize(w)
             \/ ReleaseForHandover(w)
    <3>1. /\ row.status = "RUNNING"
          /\ \/ lease' = lease
             \/ lease' = Released(lease)
             \/ lease' = [Released(lease) EXCEPT !.fence = @ + 1]
      BY <2>3 DEF DeferRetainedRetry, CompleteOperation, Finalize,
                  ReleaseForHandover, BeginHandover, HoldsRun, Holds
    <3>2. lease'.fence >= lease.fence /\ lease'.cowner = NoWorker
      BY <3>1, <1>r, <1>s, <1>t
    <3> QED
      BY <2>1, <3>2, NoTokenGiven
  <2>4. CASE ReleaseForCancellation(w)
    <3>1. lease' = Released(lease) /\ row' = row
      BY <2>4 DEF ReleaseForCancellation
    <3> QED
      BY <2>1, <3>1, <1>r, <1>t, <1>c, NoTokenGiven
  <2>5. CASE CancelFinalize(w)
    <3>1. lease'.fence = lease.fence /\ lease'.cowner = NoWorker
      BY <2>5, <1>t DEF CancelFinalize, Released, Lease
    <3> QED
      BY <2>1, <3>1, <1>t, NoTokenGiven
  <2> QED
    BY <1>3, <2>2, <2>3, <2>4, <2>5, JobLeavesLease
<1>4. ASSUME NEW c \in Cleaners,
             StartPass(c) \/ PassStep(c) \/ Audit(c) \/ PassFault(c)
      PROVE  TokensUnique'
  <2>1. job' = job
    BY <1>4 DEF StartPass, PassStep, Audit, PassFault, FailExpired,
                CleanupExpired, RetryUnresolved, ValidateObservation,
                DeleteObserved, RecordResult, AuditProbe, AuditLost,
                AuditCapture, AuditEnd, AuditTargetGone, FailWaiting,
                DeleteObservedFails, PassBreaks
  <2>2. CASE FailExpired(c)
    <3>1. /\ row.status = "RUNNING"
          /\ lease' = [Released(lease) EXCEPT !.fence = @ + 1]
      BY <2>2 DEF FailExpired, Expired
    <3> QED
      BY <2>1, <3>1, <1>r, <1>t, <1>u
  <2>3. CASE CleanupExpired(c)
    <3>1. row.status # "CANCEL_REQUESTED" /\ lease' = lease
      BY <2>3 DEF CleanupExpired, RetentionOver
    <3> QED
      BY <2>1, <3>1, <1>t, <1>u
  <2>4. CASE RetryUnresolved(c) \/ RecordResult(c)
    <3>1. row'.status = row.status /\ lease' = lease
      BY <2>4, <1>t DEF RetryUnresolved, RecordResult, Row
    <3> QED
      BY <2>1, <3>1, <1>t, <1>u
  <2>5. CASE \/ ValidateObservation(c) \/ DeleteObserved(c) \/ AuditProbe(c)
             \/ AuditCapture(c) \/ PassFault(c)
    <3>1. row' = row /\ lease' = lease
      BY <2>5 DEF ValidateObservation, DeleteObserved, AuditProbe, AuditCapture,
                  PassFault, DeleteObservedFails, PassBreaks, db
    <3> QED
      BY <2>1, <3>1, <1>t, <1>u
  <2>6. CASE \/ AuditLost(c) \/ AuditTargetGone(c)
             \/ \E by \in {"WAIT_TIMEOUT", "MAX_RUNTIME"} : AuditEnd(c, by)
    <3>1. \/ row' = row /\ lease' = lease
          \/ /\ row.status # "CANCEL_REQUESTED"
             /\ lease' = lease \/ lease' = Released(lease)
      BY <2>6 DEF AuditLost, AuditTargetGone, AuditEnd, CurrentWaiting,
                  FailWaiting, db
    <3> QED
      BY <2>1, <3>1, <1>r, <1>t, <1>u
  <2> QED
    BY <1>4, <2>2, <2>3, <2>4, <2>5, <2>6 DEF StartPass, PassStep, Audit
<1>5. CASE HandOverExpired \/ Deadlines \/ Expiry \/ Environment
  <2>1. CASE HandOverExpired
    <3>1. /\ row' = row /\ job' = job
          /\ lease' = [Released(lease) EXCEPT !.fence = @ + 1]
      BY <2>1 DEF HandOverExpired, BeginHandover
    <3> QED
      BY <3>1, <1>r, <1>t, <1>u
  <2>2. CASE FailQueueTimeout \/ RequestExpiredCancellation \/ ClaimUnavailable
    <3>1. /\ row.status # "CANCEL_REQUESTED" /\ job' = job
          /\ lease' = lease \/ lease' = Released(lease)
      BY <2>2 DEF FailQueueTimeout, RequestExpiredCancellation, PastMaximum,
                  ClaimUnavailable
    <3> QED
      BY <3>1, <1>r, <1>t, <1>u
  <2>3. CASE RetentionPasses
    <3>1. row'.status = row.status /\ job' = job /\ lease' = lease
      BY <2>3, <1>t DEF RetentionPasses, Row
    <3> QED
      BY <3>1, <1>t, <1>u
  <2>4. CASE Expiry \/ LeaseStalls \/ CancellationLeaseStalls
    <3>1. lease'.fence = lease.fence /\ lease'.cowner = lease.cowner
      BY <2>4, <1>t
         DEF Expiry, LeaseExpires, CancellationLeaseExpires, LeaseStalls,
             CancellationLeaseStalls, Lease
    <3>2. row' = row /\ job' = job
      BY <2>4
         DEF Expiry, LeaseExpires, CancellationLeaseExpires, LeaseStalls,
             CancellationLeaseStalls
    <3> QED
      BY <3>1, <3>2, <1>t, <1>u
  <2>5. CASE \E k \in kernels : KernelDies(k) \/ KernelRestarts(k)
    <3>1. row' = row /\ job' = job /\ lease' = lease
      BY <2>5 DEF KernelDies, KernelRestarts, db
    <3> QED
      BY <3>1, <1>t, <1>u
  <2> QED
    BY <1>5, <2>1, <2>2, <2>3, <2>4, <2>5 DEF Deadlines, Environment
<1>6. CASE UNCHANGED vars
  <2>1. row' = row /\ job' = job /\ lease' = lease
    BY <1>6 DEF vars, db
  <2> QED
    BY <2>1, <1>t, <1>u
<1> QED
  BY <1>1, <1>2, <1>3, <1>4, <1>5, <1>6 DEF Next

\* No two jobs ever hold the same fencing token, and while a cancellation has
\* an owner no other job holds the row's token: the checks of
\* require_active_lease and require_active_cancellation_lease can succeed for
\* one job only, for any number of Workers, crashes and takeovers.
THEOREM TokenUniqueness == Spec => []TokensUnique
<1>1. Init => TokensUnique
  <2> SUFFICES ASSUME Init PROVE TokensUnique
    OBVIOUS
  <2>1. lease.fence = 0 /\ lease.cowner = NoWorker
        /\ \A w \in Workers : job[w].fence = 0
    BY DEF Init, NoLease, Idle
  <2> QED
    BY <2>1 DEF TokensUnique
<1>2. TypeOK /\ TypeOK' /\ TokensUnique /\ [Next]_vars => TokensUnique'
  BY TokensUniqueStep
<1> QED
  BY <1>1, <1>2, TypeCorrect, PTL DEF Spec

----------------------------------------------------------------------------
(* What the rows, the jobs and the passes know of each other: the inductive *)
(* invariant behind EndedIsClosed and ImplementsContract.                   *)

\* In the Steps ss, Step n has the given status, those before it succeeded and
\* those after it were not started
At(ss, n, status) ==
    /\ n \in Seqs /\ ss[n] = status
    /\ \A s \in Seqs :
         (s < n => ss[s] = "SUCCEEDED") /\ (s > n => ss[s] = "PENDING")

\* Step n failed and those after it were given up
GivenUp(ss, n) ==
    /\ n \in Seqs /\ ss[n] = "FAILED"
    /\ \A s \in Seqs :
         (s < n => ss[s] = "SUCCEEDED") /\ (s > n => ss[s] = "SKIPPED")

All(ss, status) == \A s \in Seqs : ss[s] = status

NoneOpen(ss) == \A s \in Seqs : ss[s] \notin {"PENDING", "RUNNING"}

QueuedIsGood ==
    row.status = "QUEUED" =>
        /\ op = "QUEUED" /\ ~row.finReq /\ row.abort # "PENDING"
        /\ row.strategy = "FROM_FAILED_STEP" =>
             /\ row.session # NoSession /\ row.retries > 0
             /\ At(steps, row.from, "PENDING")
        /\ row.strategy # "FROM_FAILED_STEP" => All(steps, "PENDING")

RunningIsGood ==
    row.status = "RUNNING" =>
        /\ row.finReq => op = "SUCCEEDED" /\ All(steps, "SUCCEEDED")
        /\ ~row.finReq => op = "RUNNING"
        /\ row.abort = "PENDING" => row.session # NoSession
        /\ \A s \in Seqs : steps[s] = "RUNNING" => At(steps, s, "RUNNING")
        /\ handover => row.session # NoSession /\ row.abort # "PENDING"

WaitingIsGood ==
    row.status \in {"WAITING_FOR_OPERATION", "FINALIZING"} =>
        /\ row.session # NoSession /\ row.abort # "PENDING"
        /\ NoneOpen(steps) /\ op \notin OpenOperation
        /\ op = "SUCCEEDED" <=> All(steps, "SUCCEEDED")
        /\ row.finReq <=> row.status = "FINALIZING"
        /\ row.finReq => op = "SUCCEEDED"

EndIsGood ==
    row.status \in TerminalStatus =>
        /\ op \notin OpenOperation /\ NoneOpen(steps)
        /\ attempt.status # "WAITING"
        /\ row.abort = "PENDING" =>
             row.session # NoSession /\ row.cleanup = "PENDING"
        /\ row.status = "SUCCEEDED" =>
             /\ attempt.status = "SUCCEEDED" /\ op = "SUCCEEDED"
             /\ All(steps, "SUCCEEDED") /\ row.session = NoSession
        /\ row.status = "FAILED" /\ row.strategy = "FROM_FAILED_STEP" =>
             /\ row.from \in Seqs
             /\ \A s \in Seqs : s < row.from => steps[s] = "SUCCEEDED"
             /\ row.session # NoSession /\ row.abort # "PENDING"
             /\ row.cleanup = "NOT_REQUIRED"

ModeIsGood ==
    /\ row.mode = "MULTI" => row.strategy = "NOT_RETRYABLE"
    /\ row.mode = "SINGLE" =>
         /\ ~row.finReq /\ attempt.status # "WAITING"
         /\ row.status \notin {"WAITING_FOR_OPERATION", "FINALIZING"}
    /\ ~row.claimed =>
         /\ attempt.status = "NONE" /\ row.abort = "NOT_REQUIRED"
         /\ row.session = NoSession /\ row.strategy = "NOT_RETRYABLE"
         /\ row.status \notin {"RUNNING", "WAITING_FOR_OPERATION", "FINALIZING"}
    /\ handover =>
         /\ row.status \in {"RUNNING", "CANCEL_REQUESTED"}
         /\ lease.owner = NoWorker /\ lease.cowner = NoWorker

RowIsGood ==
    QueuedIsGood /\ RunningIsGood /\ WaitingIsGood /\ EndIsGood /\ ModeIsGood

\* A failure that keeps nothing for a retry from the failed Step
FailsPlainly(end, mode) ==
    /\ end.status = "FAILED" /\ ~end.retain
    /\ end.strategy # "FROM_FAILED_STEP"
    /\ mode = "MULTI" => end.strategy = "NOT_RETRYABLE"

\* ... or keeps the session for one
FailsRetaining(end) ==
    /\ end.status = "FAILED" /\ end.retain
    /\ end.strategy = "FROM_FAILED_STEP" /\ end.cleanup = "NOT_REQUIRED"

\* What a job in each phase has decided about its ending
JobIsGood(j, mode) ==
    /\ j.pc \in {"check", "defer", "evidence"} => mode = "SINGLE"
    /\ j.pc \in {"opSkip", "opDone", "abortSkip", "abortFinalize"} =>
         mode = "MULTI"
    /\ j.pc \in {"stop", "stopping", "stepFail", "abortFinalize"} =>
         FailsPlainly(j.end, mode)
    /\ j.pc = "evidence" => FailsRetaining(j.end)
    /\ j.pc \in {"abortRecord", "abortMark", "abortSkip", "finalize"} =>
         FailsPlainly(j.end, mode) \/ FailsRetaining(j.end)
    /\ j.pc = "finalize" /\ j.end.retain => mode = "SINGLE"
    /\ j.pc = "abortRecord" => j.end.abort # "PENDING"
    /\ j.pc = "opSkip" => j.end.status = "FAILED"
    /\ j.pc = "finalizeOk" =>
         /\ j.end.status = "SUCCEEDED" /\ ~j.end.retain
         /\ j.end.cleanup = "SUCCEEDED" /\ j.end.strategy = "NOT_RETRYABLE"
    /\ j.pc = "record" => j.session # NoSession

JobsAreGood == \A w \in Workers : JobIsGood(job[w], row.mode)

\* Phases of a run that is on its recorded session, without an abort
OnSessionPc ==
    {"check", "defer", "takeover", "next", "execute", "stored", "toolFail",
     "stepFail", "abortBegin", "abortMark", "publish", "evidence", "opSkip",
     "abortSkip", "opDone"}

RunsStepPc ==
    {"execute", "stored", "toolFail", "stepFail", "abortBegin", "aborting",
     "abortRecord", "abortMark"}

KeepsSession(j) == j.pc = "finalize" /\ j.end.retain

\* Where a job that may commit stands in the Steps of its Operation
Position(j, r, ss) ==
    /\ j.pc \in {"check", "defer"} =>
         /\ r.strategy = "FROM_FAILED_STEP" /\ r.retries > 0
         /\ r.from = j.seq
    /\ j.pc \in {"check", "defer", "next"} => At(ss, j.seq, "PENDING")
    /\ j.pc \in {"prepare", "record"} => r.finReq \/ At(ss, j.seq, "PENDING")
    /\ j.pc \in RunsStepPc => At(ss, j.seq, "RUNNING")
    /\ j.pc = "publish" => At(ss, j.seq, "SUCCEEDED")
    /\ j.pc \in {"evidence", "opSkip", "abortSkip"} \/ KeepsSession(j) =>
         At(ss, j.seq, "FAILED")
    /\ j.pc = "opDone" =>
         IF j.end.status = "SUCCEEDED" THEN All(ss, "SUCCEEDED")
         ELSE GivenUp(ss, j.seq)
    /\ \/ j.pc \in OnSessionPc \cup {"aborting", "abortRecord"}
       \/ KeepsSession(j)
       => r.session # NoSession
    /\ j.pc \in OnSessionPc \cup {"prepare", "record"} \/ KeepsSession(j) =>
         r.abort # "PENDING"

HoldersAreGood ==
    \A w \in Workers : HoldsRun(w) => Position(job[w], row, steps)

\* A pass whose copy is current cleans up a session that waits for it
PassesAreGood ==
    \A c \in Cleaners :
        c \in seen /\ cleaner[c].pc \in {"validate", "delete", "record"}
          /\ row.status \in {"FAILED", "CANCELLED"} => row.cleanup = "PENDING"

\* The inductive invariant
LifecycleIsGood == RowIsGood /\ JobsAreGood /\ HoldersAreGood /\ PassesAreGood

----------------------------------------------------------------------------
(* Jobs. *)

\* What a move to another phase leaves of a job.
LEMMA GoIs ==
    ASSUME job \in [Workers -> Job], NEW w \in Workers, NEW pc, Go(w, pc)
    PROVE  /\ job'[w].pc = pc /\ job'[w].end = job[w].end
           /\ job'[w].session = job[w].session /\ job'[w].seq = job[w].seq
           /\ job'[w].fence = job[w].fence /\ job'[w].shut = job[w].shut
           /\ \A v \in Workers : v # w => job'[v] = job[v]
BY DEF Go, Job

\* ... also when the move decides the ending.
LEMMA GoEndingIs ==
    ASSUME job \in [Workers -> Job], NEW w \in Workers, NEW pc, NEW end,
           GoEnding(w, pc, end)
    PROVE  /\ job'[w].pc = pc /\ job'[w].end = end
           /\ job'[w].session = job[w].session /\ job'[w].seq = job[w].seq
           /\ job'[w].fence = job[w].fence /\ job'[w].shut = job[w].shut
           /\ \A v \in Workers : v # w => job'[v] = job[v]
BY DEF GoEnding, Job

\* A job that ends leaves its Worker without one.
LEMMA JobEndsIs ==
    ASSUME job \in [Workers -> Job], NEW w \in Workers, JobEnds(w)
    PROVE  /\ job'[w].pc \in {"idle", "dead"}
           /\ \A v \in Workers : v # w => job'[v] = job[v]
BY DEF JobEnds, Idle, Dead

\* An interruption ends a job or leaves it to its handler.
LEMMA InterruptedIs ==
    ASSUME job \in [Workers -> Job], NEW w \in Workers, NEW shut,
           Interrupted(w, shut)
    PROVE  /\ job'[w].pc \in {"idle", "dead", "interrupted", "interruptedRun"}
           /\ \A v \in Workers : v # w => job'[v] = job[v]
BY DEF Interrupted, Job, Idle, Dead

\* The job a claim gives.
LEMMA ClaimedIs ==
    ASSUME job \in [Workers -> Job], NEW w \in Workers, NEW pc, NEW session,
           NEW seq, Claimed(w, pc, session, seq)
    PROVE  /\ job'[w].pc = pc /\ job'[w].session = session
           /\ job'[w].seq = seq /\ job'[w].fence = lease'.fence
           /\ \A v \in Workers : v # w => job'[v] = job[v]
BY DEF Claimed, Idle

\* The endings a run decides on.
LEMMA EndingIs ==
    /\ NoEnding.status = "FAILED" /\ ~NoEnding.retain
    /\ NoEnding.strategy = "NOT_RETRYABLE" /\ NoEnding.cleanup = "NOT_REQUIRED"
    /\ FailsRetaining(Retaining) /\ FailsPlainly(NoEnding, row.mode)
    /\ FailsPlainly(Failing(RestartStrategy), row.mode)
    /\ \A s \in FailureStrategies : FailsPlainly(Failing(s), row.mode)
BY DEF NoEnding, Retaining, Failing, FailsPlainly, FailsRetaining,
       RestartStrategy, FailureStrategies, Mode

\* No step writes operation_mode.
LEMMA ModeKept ==
    ASSUME TypeOK, [Next]_vars
    PROVE  row'.mode = row.mode
<1>r. row \in Row
  BY DEF TypeOK
<1> USE <1>r DEF Row
<1>1. CASE Command
  BY <1>1 DEF Command, RequestCancel, RequestRetry, RequestOperation,
              RequestFinalization
<1>2. ASSUME NEW w \in Workers, Claim(w)
      PROVE  row'.mode = row.mode
  BY <1>2 DEF Claim, ClaimWaiting, ClaimNew, ClaimHandover, ClaimCancellation
<1>3. ASSUME NEW w \in Workers,
             JobStep(w) \/ JobFault(w) \/ DispatchCancellation(w)
      PROVE  row'.mode = row.mode
  <2>1. CASE row' = row
    BY <2>1
  <2>2. CASE \/ DeferRetainedRetry(w) \/ RecordRuntimeSession(w)
             \/ CompleteOperation(w) \/ AbortBegin(w) \/ AbortRecord(w)
    BY <2>2 DEF DeferRetainedRetry, RecordRuntimeSession, CompleteOperation,
                AbortBegin, AbortRecord
  <2>3. CASE Finalize(w)
    BY <2>3 DEF Finalize
  <2>4. CASE CancelFinalize(w)
    BY <2>4 DEF CancelFinalize
  <2>5. CASE \/ Preflight(w) \/ StartSession(w) \/ KeepSession(w)
             \/ LoadRun(w) \/ MarkStarted(w) \/ ExecuteSucceeds(w)
             \/ ExecuteToolError(w) \/ ExecuteHitsLimit(w)
             \/ ExecuteLosesSession(w) \/ MarkSucceeded(w)
             \/ PublishSuccess(w) \/ MarkFailed(w) \/ RecordFailureEvidence(w)
             \/ SkipStepsAfter(w) \/ AbortIdle(w) \/ AbortMissing(w)
             \/ AbortDeletes(w) \/ AbortMark(w) \/ AssertLease(w)
             \/ ReleaseSession(w)
    BY <2>5, Zenon
       DEF Preflight, StartSession, KeepSession, LoadRun, MarkStarted,
           ExecuteSucceeds, ExecuteToolError, ExecuteHitsLimit,
           ExecuteLosesSession, MarkSucceeded, PublishSuccess, MarkFailed,
           RecordFailureEvidence, SkipStepsAfter, AbortIdle, AbortMissing,
           AbortDeletes, AbortMark, AssertLease, ReleaseSession, db
  <2>6. CASE \/ StopSession(w) \/ StopSucceeds(w) \/ LoseLease(w)
             \/ HandOffCancelled(w) \/ ReleaseForCancellation(w)
             \/ ReleaseForHandover(w) \/ CancelStop(w) \/ JobFault(w)
             \/ DispatchCancellation(w)
    BY <2>6, Zenon
       DEF StopSession, StopSucceeds, LoseLease, HandOffCancelled,
           ReleaseForCancellation, ReleaseForHandover, CancelStop, JobFault,
           PreflightUnreachable, ExecuteBreaks, AbortFails, RunBreaks,
           StopFails, CancelStopFails, Shutdown, Crash, DispatchCancellation, db
  <2> QED
    BY <1>3, <2>2, <2>3, <2>4, <2>5, <2>6 DEF JobStep
<1>4. ASSUME NEW c \in Cleaners,
             StartPass(c) \/ PassStep(c) \/ Audit(c) \/ PassFault(c)
      PROVE  row'.mode = row.mode
  BY <1>4 DEF StartPass, PassStep, Audit, PassFault, FailExpired,
              CleanupExpired, RetryUnresolved, ValidateObservation,
              DeleteObserved, RecordResult, AuditProbe, AuditLost,
              AuditCapture, AuditEnd, AuditTargetGone, FailWaiting,
              DeleteObservedFails, PassBreaks, db
<1>5. CASE HandOverExpired \/ Deadlines \/ Expiry \/ Environment
  BY <1>5 DEF HandOverExpired, Deadlines, Expiry, Environment,
              FailQueueTimeout, RequestExpiredCancellation, RetentionPasses,
              LeaseExpires, CancellationLeaseExpires, LeaseStalls,
              CancellationLeaseStalls, ClaimUnavailable, KernelDies,
              KernelRestarts, db
<1>6. CASE UNCHANGED vars
  BY <1>6 DEF vars, db
<1> QED
  BY <1>1, <1>2, <1>3, <1>4, <1>5, <1>6 DEF Next

\* The step of one Worker that leaves its own job good leaves all jobs good.
LEMMA OneJobChanges ==
    ASSUME JobsAreGood, row'.mode = row.mode, NEW w \in Workers,
           \A v \in Workers : v # w => job'[v] = job[v],
           JobIsGood(job'[w], row.mode)
    PROVE  JobsAreGood'
BY DEF JobsAreGood

\* Nothing is decided yet in the phases before and after a run's own ones.
LEMMA UndecidedJob ==
    ASSUME NEW j, NEW mode,
           j.pc \in {"idle", "dead", "interrupted", "interruptedRun",
                     "relCancel", "relHandover", "prepare", "takeover",
                     "next", "execute", "stored", "toolFail", "publish",
                     "complete", "release", "abortBegin", "aborting",
                     "cancelStop", "cancelFinalize"}
    PROVE  JobIsGood(j, mode)
BY DEF JobIsGood

\* Every step of a job leaves it in a phase that fits its ending.
LEMMA JobsStep ==
    ASSUME TypeOK, TypeOK', JobsAreGood, [Next]_vars
    PROVE  JobsAreGood'
<1>m. row'.mode = row.mode
  BY ModeKept
<1>j. job \in [Workers -> Job]
  BY DEF TypeOK
<1>g. \A v \in Workers : JobIsGood(job[v], row.mode)
  BY DEF JobsAreGood
<1>u. job' = job => JobsAreGood'
  BY <1>m, <1>g DEF JobsAreGood
<1>e. \A w \in Workers : JobEnds(w) => JobsAreGood'
  BY <1>m, <1>j, JobEndsIs, UndecidedJob, OneJobChanges
<1>i. \A w \in Workers, shut \in BOOLEAN : Interrupted(w, shut) => JobsAreGood'
  <2> SUFFICES ASSUME NEW w \in Workers, NEW shut \in BOOLEAN,
                      Interrupted(w, shut)
               PROVE  JobsAreGood'
    OBVIOUS
  <2>1. /\ job'[w].pc \in {"idle", "dead", "interrupted", "interruptedRun"}
        /\ \A v \in Workers : v # w => job'[v] = job[v]
    BY <1>j, InterruptedIs
  <2> QED
    BY <2>1, <1>m, UndecidedJob, OneJobChanges
<1>p. ASSUME NEW w \in Workers,
             NEW pc \in {"relCancel", "relHandover", "prepare", "next",
                         "execute", "stored", "toolFail", "publish",
                         "complete", "release", "abortBegin", "aborting"},
             Go(w, pc)
      PROVE  JobsAreGood'
  BY <1>p, <1>j, <1>m, GoIs, UndecidedJob, OneJobChanges
<1>s. ASSUME NEW w \in Workers, NEW pc \in {"stop", "stepFail"}, NEW end,
             FailsPlainly(end, row.mode), GoEnding(w, pc, end)
      PROVE  JobsAreGood'
  <2>1. job'[w].pc = pc /\ job'[w].end = end
        /\ \A v \in Workers : v # w => job'[v] = job[v]
    BY <1>s, <1>j, GoEndingIs
  <2>2. JobIsGood(job'[w], row.mode)
    BY <1>s, <2>1 DEF JobIsGood
  <2> QED
    BY <2>1, <2>2, <1>m, OneJobChanges
<1>1. CASE Command
  BY <1>1, <1>u DEF Command, RequestCancel, RequestRetry, RequestOperation,
                    RequestFinalization
<1>2. ASSUME NEW w \in Workers, Claim(w)
      PROVE  JobsAreGood'
  <2>1. PICK pc \in {"prepare", "takeover", "cancelStop", "check"} :
          /\ \E session, seq : Claimed(w, pc, session, seq)
          /\ pc = "check" => row.mode = "SINGLE"
    BY <1>2, Zenon
       DEF Claim, ClaimWaiting, ClaimNew, ClaimHandover, ClaimCancellation,
           IsResume, Mode
  <2>2. job'[w].pc = pc /\ \A v \in Workers : v # w => job'[v] = job[v]
    BY <2>1, <1>j, ClaimedIs
  <2>3. JobIsGood(job'[w], row.mode)
    BY <2>1, <2>2 DEF JobIsGood
  <2> QED
    BY <2>2, <2>3, <1>m, OneJobChanges
<1>3. ASSUME NEW w \in Workers,
             JobStep(w) \/ JobFault(w) \/ DispatchCancellation(w)
      PROVE  JobsAreGood'
  <2>g. JobIsGood(job[w], row.mode) /\ job[w] \in Job
    BY <1>g, <1>j
  <2>k. row.mode \in {"SINGLE", "MULTI"}
    BY DEF TypeOK, Row, OperationMode
  <2>1. CASE Preflight(w) \/ PreflightUnreachable(w)
    <3>1. CASE Go(w, "prepare")
      BY <3>1, <1>p
    <3>2. CASE GoEnding(w, "stop", Failing("FROM_START")) /\ job[w].pc = "check"
      <4>1. FailsPlainly(Failing("FROM_START"), row.mode)
        BY <3>2, <2>g DEF JobIsGood, FailsPlainly, Failing, NoEnding
      <4> QED
        BY <3>2, <4>1, <1>s
    <3>3. CASE Go(w, "defer") /\ job[w].pc = "check"
      <4>1. job'[w].pc = "defer" /\ \A v \in Workers : v # w => job'[v] = job[v]
        BY <3>3, <1>j, GoIs
      <4>2. JobIsGood(job'[w], row.mode)
        BY <3>3, <4>1, <2>g DEF JobIsGood
      <4> QED
        BY <4>1, <4>2, <1>m, OneJobChanges
    <3> QED
      BY <2>1, <3>1, <3>2, <3>3 DEF Preflight, PreflightUnreachable
  <2>2. CASE \/ DeferRetainedRetry(w) \/ CompleteOperation(w) \/ Finalize(w)
             \/ LoseLease(w) \/ ReleaseForCancellation(w) \/ CancelFinalize(w)
    BY <2>2, <1>e
       DEF DeferRetainedRetry, CompleteOperation, Finalize, LoseLease,
           ReleaseForCancellation, CancelFinalize
  <2>3. CASE StartSession(w)
    <3>1. /\ job'[w].pc = "record" /\ job'[w].session = started'
          /\ \A v \in Workers : v # w => job'[v] = job[v]
      BY <2>3, <1>j DEF StartSession, Job
    <3>2. started' # NoSession
      BY <2>3 DEF StartSession, TypeOK, NoSession
    <3>3. JobIsGood(job'[w], row.mode)
      BY <3>1, <3>2 DEF JobIsGood
    <3> QED
      BY <3>1, <3>3, <1>m, OneJobChanges
  <2>4. CASE KeepSession(w)
    <3>1. /\ job'[w].pc = "record" /\ job'[w].session # NoSession
          /\ \A v \in Workers : v # w => job'[v] = job[v]
      BY <2>4, <1>j, GoIs DEF KeepSession
    <3>2. JobIsGood(job'[w], row.mode)
      BY <3>1 DEF JobIsGood
    <3> QED
      BY <3>1, <3>2, <1>m, OneJobChanges
  <2>5. CASE \/ RecordRuntimeSession(w) \/ MarkStarted(w) \/ ExecuteSucceeds(w)
             \/ ExecuteToolError(w) \/ MarkSucceeded(w) \/ AbortBegin(w)
             \/ AssertLease(w)
    BY <2>5, <1>p
       DEF RecordRuntimeSession, MarkStarted, ExecuteSucceeds,
           ExecuteToolError, MarkSucceeded, AbortBegin, AssertLease
  <2>6. CASE LoadRun(w)
    <3>1. job'[w].pc = "execute" /\ \A v \in Workers : v # w => job'[v] = job[v]
      BY <2>6, <1>j DEF LoadRun, Job
    <3> QED
      BY <3>1, <1>m, UndecidedJob, OneJobChanges
  <2>7. CASE \/ ExecuteHitsLimit(w) \/ ExecuteLosesSession(w)
             \/ ExecuteBreaks(w)
    <3>1. \/ Go(w, "abortBegin")
          \/ \E pc \in {"stop", "stepFail"} : \E strategy :
               /\ FailsPlainly(Failing(strategy), row.mode)
               /\ GoEnding(w, pc, Failing(strategy))
      BY <2>7, EndingIs
         DEF ExecuteHitsLimit, ExecuteLosesSession, ExecuteBreaks
    <3> QED
      BY <3>1, <1>p, <1>s
  <2>8. CASE PublishSuccess(w)
    <3>1. job'[w].pc \in {"next", "complete", "opDone"}
          /\ (job'[w].pc = "opDone" => row.mode = "MULTI")
          /\ \A v \in Workers : v # w => job'[v] = job[v]
      BY <2>8, <1>j, <2>k DEF PublishSuccess, Job, Mode
    <3>2. JobIsGood(job'[w], row.mode)
      BY <3>1 DEF JobIsGood
    <3> QED
      BY <3>1, <3>2, <1>m, OneJobChanges
  <2>9. CASE MarkFailed(w)
    <3>1. CASE job[w].pc = "stepFail"
      <4>1. /\ job'[w].pc = "stop" /\ job'[w].end = job[w].end
            /\ \A v \in Workers : v # w => job'[v] = job[v]
        BY <2>9, <3>1, <1>j, GoIs DEF MarkFailed
      <4>2. JobIsGood(job'[w], row.mode)
        BY <3>1, <4>1, <2>g DEF JobIsGood
      <4> QED
        BY <4>1, <4>2, <1>m, OneJobChanges
    <3>2. CASE job[w].pc # "stepFail" /\ row.mode = "SINGLE"
      <4>1. /\ job'[w].pc = "evidence" /\ job'[w].end = Retaining
            /\ \A v \in Workers : v # w => job'[v] = job[v]
        BY <2>9, <3>2, <1>j, GoEndingIs DEF MarkFailed, Mode
      <4>2. JobIsGood(job'[w], row.mode)
        BY <3>2, <4>1, EndingIs DEF JobIsGood
      <4> QED
        BY <4>1, <4>2, <1>m, OneJobChanges
    <3>3. CASE job[w].pc # "stepFail" /\ row.mode = "MULTI"
      <4>1. /\ job'[w].pc = "opSkip" /\ job'[w].end = NoEnding
            /\ \A v \in Workers : v # w => job'[v] = job[v]
        BY <2>9, <3>3, <1>j, GoEndingIs DEF MarkFailed, Mode
      <4>2. JobIsGood(job'[w], row.mode)
        BY <3>3, <4>1, EndingIs DEF JobIsGood
      <4> QED
        BY <4>1, <4>2, <1>m, OneJobChanges
    <3> QED
      BY <2>k, <3>1, <3>2, <3>3
  <2>10. CASE RecordFailureEvidence(w)
    <3>1. /\ job'[w].pc = "finalize" /\ job'[w].end = job[w].end
          /\ job[w].pc = "evidence"
          /\ \A v \in Workers : v # w => job'[v] = job[v]
      BY <2>10, <1>j, GoIs DEF RecordFailureEvidence
    <3>2. JobIsGood(job'[w], row.mode)
      BY <3>1, <2>g DEF JobIsGood
    <3> QED
      BY <3>1, <3>2, <1>m, OneJobChanges
  <2>11. CASE SkipStepsAfter(w)
    <3>1. /\ job'[w].pc \in {"opDone", "abortFinalize"}
          /\ job'[w].end = job[w].end
          /\ job[w].pc \in {"opSkip", "abortSkip"}
          /\ job'[w].pc = "abortFinalize" =>
               job[w].pc = "abortSkip" /\ ~job[w].end.retain
          /\ \A v \in Workers : v # w => job'[v] = job[v]
      BY <2>11, <1>j, GoIs DEF SkipStepsAfter
    <3>2. JobIsGood(job'[w], row.mode)
      BY <3>1, <2>g DEF JobIsGood, FailsRetaining
    <3> QED
      BY <3>1, <3>2, <1>m, OneJobChanges
  <2>12. CASE AbortIdle(w) \/ AbortMissing(w) \/ AbortDeletes(w) \/ AbortFails(w)
    <3>1. PICK end :
            /\ GoEnding(w, "abortRecord", end) /\ end.abort # "PENDING"
            /\ FailsPlainly(end, row.mode) \/ FailsRetaining(end)
      <4> DEFINE kept == [Retaining EXCEPT !.abort = "IDLE_CONFIRMED"]
      <4>1. kept.abort # "PENDING" /\ FailsRetaining(kept)
        BY DEF Retaining, NoEnding, FailsRetaining
      <4>2. ASSUME NEW a \in {"SESSION_MISSING", "SESSION_DELETED", "FAILED"},
                   NEW c \in {"SUCCEEDED", "FAILED"}
            PROVE  LET e == [Failing(RestartStrategy) EXCEPT !.abort = a,
                                                             !.cleanup = c]
                   IN  e.abort # "PENDING" /\ FailsPlainly(e, row.mode)
        BY <4>2 DEF Failing, NoEnding, FailsPlainly, RestartStrategy, Mode
      <4>3. CASE AbortIdle(w)
        BY <4>1, <4>3 DEF AbortIdle
      <4>4. CASE AbortMissing(w) \/ AbortDeletes(w) \/ AbortFails(w)
        BY <4>2, <4>4 DEF AbortMissing, AbortDeletes, AbortFails
      <4> QED
        BY <2>12, <4>3, <4>4
    <3>2. /\ job'[w].pc = "abortRecord" /\ job'[w].end = end
          /\ \A v \in Workers : v # w => job'[v] = job[v]
      BY <3>1, <1>j, GoEndingIs
    <3>3. JobIsGood(job'[w], row.mode)
      BY <3>1, <3>2 DEF JobIsGood
    <3> QED
      BY <3>2, <3>3, <1>m, OneJobChanges
  <2>13. CASE AbortRecord(w) \/ AbortMark(w)
    <3>1. /\ job[w].pc \in {"abortRecord", "abortMark"}
          /\ job'[w].pc \in {"abortMark", "finalize", "abortSkip"}
          /\ job'[w].pc = "finalize" => row.mode = "SINGLE"
          /\ job'[w].pc = "abortSkip" => row.mode = "MULTI"
          /\ job'[w].end = job[w].end
          /\ \A v \in Workers : v # w => job'[v] = job[v]
      BY <2>13, <1>j, <2>k, GoIs DEF AbortRecord, AbortMark, Mode
    <3>2. JobIsGood(job'[w], row.mode)
      BY <3>1, <2>g DEF JobIsGood
    <3> QED
      BY <3>1, <3>2, <1>m, OneJobChanges
  <2>14. CASE ReleaseSession(w)
    <3>1. /\ job'[w].pc = "finalizeOk"
          /\ job'[w].end = [NoEnding EXCEPT !.status = "SUCCEEDED",
                                            !.cleanup = "SUCCEEDED"]
          /\ \A v \in Workers : v # w => job'[v] = job[v]
      BY <2>14, <1>j, GoEndingIs DEF ReleaseSession
    <3>2. JobIsGood(job'[w], row.mode)
      BY <3>1 DEF JobIsGood, NoEnding
    <3> QED
      BY <3>1, <3>2, <1>m, OneJobChanges
  <2>15. CASE StopSession(w)
    <3>1. /\ job'[w].pc \in {"stopping", "finalize"}
          /\ job[w].pc = "stop" /\ job'[w].end = job[w].end
          /\ \A v \in Workers : v # w => job'[v] = job[v]
      BY <2>15, <1>j, GoIs DEF StopSession
    <3>2. JobIsGood(job'[w], row.mode)
      BY <3>1, <2>g DEF JobIsGood, FailsPlainly
    <3> QED
      BY <3>1, <3>2, <1>m, OneJobChanges
  <2>16. CASE StopSucceeds(w) \/ StopFails(w)
    <3>1. PICK c : /\ job[w].pc = "stopping"
                   /\ GoEnding(w, "finalize", [job[w].end EXCEPT !.cleanup = c])
      BY <2>16 DEF StopSucceeds, StopFails
    <3>2. /\ job'[w].pc = "finalize"
          /\ job'[w].end = [job[w].end EXCEPT !.cleanup = c]
          /\ \A v \in Workers : v # w => job'[v] = job[v]
      BY <3>1, <1>j, GoEndingIs
    <3>3. job[w].end \in Ending
      BY <2>g DEF Job
    <3>4. /\ job'[w].end.status = job[w].end.status
          /\ job'[w].end.retain = job[w].end.retain
          /\ job'[w].end.strategy = job[w].end.strategy
      BY <3>2, <3>3 DEF Ending
    <3>5. JobIsGood(job'[w], row.mode)
      BY <3>1, <3>2, <3>4, <2>g DEF JobIsGood, FailsPlainly
    <3> QED
      BY <3>2, <3>5, <1>m, OneJobChanges
  <2>17. CASE HandOffCancelled(w) \/ ReleaseForHandover(w)
    <3>1. \/ \E pc \in {"relCancel", "relHandover"} : Go(w, pc)
          \/ GoEnding(w, "stop", Failing(RestartStrategy))
          \/ JobEnds(w)
      BY <2>17 DEF HandOffCancelled, ReleaseForHandover
    <3> QED
      BY <3>1, <1>p, <1>s, <1>e, EndingIs
  <2>18. CASE CancelStop(w) \/ CancelStopFails(w)
    <3>1. PICK end : GoEnding(w, "cancelFinalize", end)
      BY <2>18 DEF CancelStop, CancelStopFails
    <3> QED
      BY <3>1, <1>j, <1>m, GoEndingIs, UndecidedJob, OneJobChanges
  <2>19. CASE RunBreaks(w)
    <3>1. PICK strategy \in FailureStrategies : \E session :
            job' = [job EXCEPT ![w].pc = "stop", ![w].session = session,
                               ![w].end = Failing(strategy)]
      BY <2>19 DEF RunBreaks
    <3>2. /\ job'[w].pc = "stop" /\ job'[w].end = Failing(strategy)
          /\ \A v \in Workers : v # w => job'[v] = job[v]
      BY <3>1, <1>j DEF Job
    <3>3. JobIsGood(job'[w], row.mode)
      BY <3>2, EndingIs DEF JobIsGood
    <3> QED
      BY <3>2, <3>3, <1>m, OneJobChanges
  <2>20. CASE Shutdown(w) \/ DispatchCancellation(w)
    BY <2>20, <1>i DEF Shutdown, DispatchCancellation
  <2>21. CASE Crash(w)
    <3>1. job'[w].pc = "dead" /\ \A v \in Workers : v # w => job'[v] = job[v]
      BY <2>21, <1>j DEF Crash, Dead, Idle
    <3> QED
      BY <3>1, <1>m, UndecidedJob, OneJobChanges
  <2> QED
    BY <1>3, <2>1, <2>2, <2>3, <2>4, <2>5, <2>6, <2>7, <2>8, <2>9, <2>10,
       <2>11, <2>12, <2>13, <2>14, <2>15, <2>16, <2>17, <2>18, <2>19, <2>20,
       <2>21
       DEF JobStep, JobFault
<1>4. ASSUME NEW c \in Cleaners,
             StartPass(c) \/ PassStep(c) \/ Audit(c) \/ PassFault(c)
      PROVE  JobsAreGood'
  BY <1>4, <1>u
     DEF StartPass, PassStep, Audit, PassFault, FailExpired,
         CleanupExpired, RetryUnresolved, ValidateObservation,
         DeleteObserved, RecordResult, AuditProbe, AuditLost,
         AuditCapture, AuditEnd, AuditTargetGone, FailWaiting,
         DeleteObservedFails, PassBreaks
<1>5. CASE HandOverExpired \/ Deadlines \/ Expiry \/ Environment
  BY <1>5, <1>u
     DEF HandOverExpired, Deadlines, Expiry, Environment,
         FailQueueTimeout, RequestExpiredCancellation, RetentionPasses,
         LeaseExpires, CancellationLeaseExpires, LeaseStalls,
         CancellationLeaseStalls, ClaimUnavailable, KernelDies, KernelRestarts
<1>6. CASE UNCHANGED vars
  BY <1>6, <1>u DEF vars
<1> QED
  BY <1>1, <1>2, <1>3, <1>4, <1>5, <1>6 DEF Next

----------------------------------------------------------------------------
(* The Worker that may commit, and where it stands. *)

\* Nothing is asked of a job outside the phases of a run that can continue.
LEMMA FreePosition ==
    ASSUME NEW j, NEW r, NEW ss,
           \/ j.pc \in {"idle", "dead", "interrupted", "interruptedRun",
                        "relCancel", "relHandover", "complete", "release",
                        "finalizeOk", "stop", "stopping", "abortFinalize",
                        "cancelStop", "cancelFinalize"}
           \/ j.pc = "finalize" /\ ~j.end.retain
    PROVE  Position(j, r, ss)
BY DEF Position, RunsStepPc, OnSessionPc, KeepsSession

\* The lease names one Worker: if it is w, or nobody may commit, the others
\* need not be looked at.
LEMMA OneHolder ==
    ASSUME NEW w \in Workers,
           \/ row'.status # "RUNNING" \/ ~lease'.live
           \/ lease'.owner = NoWorker
           \/ lease'.owner = w /\ Position(job'[w], row', steps')
    PROVE  HoldersAreGood'
BY WorkersAssumption DEF HoldersAreGood, HoldsRun, Holds

\* ... which is so when the Execution is not running or its lease is released.
LEMMA NoHolder ==
    ASSUME \/ row'.status # "RUNNING" \/ ~lease'.live
           \/ lease'.owner = NoWorker
    PROVE  HoldersAreGood'
BY WorkersAssumption DEF HoldersAreGood, HoldsRun, Holds

\* A step that touches no row concerns only the Worker that takes it.
LEMMA LocalPosition ==
    ASSUME HoldersAreGood, NEW w \in Workers, UNCHANGED db,
           \A v \in Workers : v # w => job'[v] = job[v],
           \/ Position(job'[w], row, steps)
           \/ /\ job'[w].fence = job[w].fence
              /\ HoldsRun(w) => Position(job'[w], row, steps)
    PROVE  HoldersAreGood'
<1>1. row' = row /\ steps' = steps /\ lease' = lease /\ attempt' = attempt
  BY DEF db
<1> SUFFICES ASSUME NEW v \in Workers, HoldsRun(v)'
             PROVE  Position(job'[v], row', steps')
  BY DEF HoldersAreGood
<1>2. CASE v # w
  <2>1. HoldsRun(v)
    BY <1>1, <1>2 DEF HoldsRun, Holds
  <2> QED
    BY <1>1, <1>2, <2>1 DEF HoldersAreGood
<1>3. CASE v = w
  <2>1. job'[w].fence = job[w].fence => HoldsRun(w)
    BY <1>1, <1>3 DEF HoldsRun, Holds
  <2> QED
    BY <1>1, <1>3, <2>1
<1> QED
  BY <1>2, <1>3

\* A Step that changes its status leaves the others where they were.
LEMMA StepMoves ==
    ASSUME NEW ss \in [Seqs -> StepStatus], NEW n, NEW old, NEW new,
           At(ss, n, old)
    PROVE  At([ss EXCEPT ![n] = new], n, new)
<1>1. n \in Seqs /\ n \in Nat /\ Seqs \subseteq Nat
  BY StepsAssumption DEF At, Seqs
<1> QED
  BY <1>1 DEF At

\* After the last success the run stands before the next Step, or has ended.
LEMMA StepAfter ==
    ASSUME NEW ss, NEW n, At(ss, n, "SUCCEEDED")
    PROVE  /\ n < NumSteps => At(ss, n + 1, "PENDING")
           /\ ~(n < NumSteps) => All(ss, "SUCCEEDED")
<1>1. n \in 1 .. NumSteps /\ NumSteps \in Nat
  BY StepsAssumption DEF At, Seqs
<1>2. ASSUME n < NumSteps PROVE At(ss, n + 1, "PENDING")
  <2>1. n + 1 \in Seqs /\ n + 1 > n
    BY <1>1, <1>2 DEF Seqs
  <2>2. \A s \in Seqs : (s < n + 1 => s < n \/ s = n) /\ (s > n + 1 => s > n)
    BY <1>1 DEF Seqs
  <2> QED
    BY <2>1, <2>2 DEF At
<1>3. ASSUME ~(n < NumSteps) PROVE All(ss, "SUCCEEDED")
  <2>1. \A s \in Seqs : s < n \/ s = n
    BY <1>1, <1>3 DEF Seqs
  <2> QED
    BY <2>1 DEF At, All
<1> QED
  BY <1>2, <1>3

\* Giving up the Steps after a failed one.
LEMMA RestGivenUp ==
    ASSUME NEW ss, NEW n, At(ss, n, "FAILED")
    PROVE  GivenUp([s \in Seqs |-> IF s > n /\ ss[s] = "PENDING" THEN "SKIPPED"
                                   ELSE ss[s]], n)
<1>1. n \in Seqs /\ n \in Nat /\ Seqs \subseteq Nat
  BY StepsAssumption DEF At, Seqs
<1>2. ~(n > n) /\ \A s \in Seqs : s < n => ~(s > n)
  BY <1>1
<1> QED
  BY <1>1, <1>2 DEF At, GivenUp

\* The steps of a job that touch no row: calls to the Jupyter server, decisions
\* between two transactions, interruptions
LocalStep(w) ==
    \/ Preflight(w) \/ StartSession(w) \/ KeepSession(w) \/ LoadRun(w)
    \/ ExecuteSucceeds(w) \/ ExecuteToolError(w) \/ ExecuteHitsLimit(w)
    \/ ExecuteLosesSession(w) \/ PublishSuccess(w) \/ RecordFailureEvidence(w)
    \/ AbortIdle(w) \/ AbortMissing(w) \/ AbortDeletes(w)
    \/ AssertLease(w) \/ ReleaseSession(w) \/ StopSession(w) \/ StopSucceeds(w)
    \/ LoseLease(w) \/ HandOffCancelled(w) \/ CancelStop(w)
    \/ JobFault(w) \/ DispatchCancellation(w)

\* ... and so none of them writes a row.
LEMMA LocalKeepsRows ==
    ASSUME NEW w \in Workers, LocalStep(w)
    PROVE  UNCHANGED db
BY Zenon
   DEF LocalStep, Preflight, StartSession, KeepSession, LoadRun,
       ExecuteSucceeds, ExecuteToolError, ExecuteHitsLimit,
       ExecuteLosesSession, PublishSuccess, RecordFailureEvidence, AbortIdle,
       AbortMissing, AbortDeletes, AssertLease, ReleaseSession, StopSession,
       StopSucceeds, LoseLease, HandOffCancelled, CancelStop, JobFault,
       PreflightUnreachable, ExecuteBreaks, AbortFails, RunBreaks, StopFails,
       CancelStopFails, Shutdown, Crash, DispatchCancellation

\* The steps of a run between two transactions keep its position.
LEMMA LocalHolderStep ==
    ASSUME TypeOK, LifecycleIsGood, NEW w \in Workers, LocalStep(w)
    PROVE  HoldersAreGood'
<1>d. UNCHANGED db
  BY LocalKeepsRows
<1>t. /\ job \in [Workers -> Job] /\ job[w] \in Job
      /\ steps \in [Seqs -> StepStatus] /\ row.mode \in {"SINGLE", "MULTI"}
  BY DEF TypeOK, Row, OperationMode
<1>g. /\ JobIsGood(job[w], row.mode) /\ HoldersAreGood
      /\ HoldsRun(w) => Position(job[w], row, steps)
  BY DEF LifecycleIsGood, JobsAreGood, HoldersAreGood
<1> DEFINE j == job[w]
           k == job'[w]
           Others == \A v \in Workers : v # w => job'[v] = job[v]
<1>e. JobEnds(w) => HoldersAreGood'
  <2> SUFFICES ASSUME JobEnds(w) PROVE HoldersAreGood'
    OBVIOUS
  <2>1. k.pc \in {"idle", "dead"} /\ Others
    BY <1>t, JobEndsIs
  <2> QED
    BY <2>1, <1>g, <1>d, FreePosition, LocalPosition
<1>f. ASSUME Others,
             \/ k.pc \in {"idle", "dead", "interrupted", "interruptedRun",
                          "relCancel", "relHandover", "complete", "release",
                          "finalizeOk", "stop", "stopping", "cancelStop",
                          "cancelFinalize"}
             \/ k.pc = "finalize" /\ ~k.end.retain
      PROVE  HoldersAreGood'
  BY <1>f, <1>g, <1>d, FreePosition, LocalPosition
<1>h. ASSUME Others, k.fence = j.fence,
             ASSUME HoldsRun(w), Position(j, row, steps)
             PROVE  Position(k, row, steps)
      PROVE  HoldersAreGood'
  BY <1>h, <1>g, <1>d, LocalPosition
<1>1. CASE Preflight(w) \/ PreflightUnreachable(w)
  <2>1. CASE k.pc = "stop"
    <3>1. Others
      BY <1>1, <1>t, GoIs, GoEndingIs DEF Preflight, PreflightUnreachable
    <3> QED
      BY <2>1, <3>1, <1>f
  <2>2. CASE k.pc # "stop"
    <3>1. /\ j.pc = "check" /\ k.pc \in {"prepare", "defer"}
          /\ k.seq = j.seq /\ k.end = j.end /\ k.fence = j.fence /\ Others
      BY <1>1, <2>2, <1>t, GoIs, GoEndingIs DEF Preflight, PreflightUnreachable
    <3>2. Position(j, row, steps) => Position(k, row, steps)
      BY <3>1 DEF Position, RunsStepPc, OnSessionPc, KeepsSession
    <3> QED
      BY <3>1, <3>2, <1>h
  <2> QED
    BY <2>1, <2>2
<1>2. CASE StartSession(w) \/ KeepSession(w)
  <2>1. /\ j.pc = "prepare" /\ k.pc = "record" /\ k.seq = j.seq
        /\ k.fence = j.fence /\ Others
    BY <1>2, <1>t, GoIs DEF StartSession, KeepSession, Job
  <2>2. Position(j, row, steps) => Position(k, row, steps)
    BY <2>1 DEF Position, RunsStepPc, OnSessionPc, KeepsSession
  <2> QED
    BY <2>1, <2>2, <1>h
<1>3. CASE LoadRun(w)
  <2>1. PICK s \in Seqs : steps[s] = "RUNNING" /\ HoldsRun(w)
                          /\ j.pc = "takeover"
                          /\ job' = [job EXCEPT ![w].pc = "execute", ![w].seq = s]
    BY <1>3 DEF LoadRun, RunningSteps
  <2>2. /\ k.pc = "execute" /\ k.seq = s /\ k.fence = j.fence /\ Others
    BY <2>1, <1>t DEF Job
  <2>3. At(steps, s, "RUNNING")
    BY <2>1 DEF LifecycleIsGood, RowIsGood, RunningIsGood, HoldsRun, Holds
  <2>4. Position(j, row, steps) => Position(k, row, steps)
    BY <2>1, <2>2, <2>3 DEF Position, RunsStepPc, OnSessionPc, KeepsSession
  <2> QED
    BY <2>2, <2>4, <1>h
<1>4. CASE \/ ExecuteSucceeds(w) \/ ExecuteToolError(w) \/ ExecuteHitsLimit(w)
           \/ ExecuteLosesSession(w) \/ ExecuteBreaks(w)
  <2>1. /\ j.pc = "execute"
        /\ \/ \E pc \in {"stored", "toolFail", "abortBegin"} : Go(w, pc)
           \/ \E pc \in {"stepFail", "stop"} : \E end : GoEnding(w, pc, end)
    BY <1>4 DEF ExecuteSucceeds, ExecuteToolError, ExecuteHitsLimit,
                ExecuteLosesSession, ExecuteBreaks
  <2>2. /\ k.pc \in {"stored", "toolFail", "abortBegin", "stepFail", "stop"}
        /\ k.seq = j.seq /\ k.fence = j.fence /\ Others
    BY <2>1, <1>t, GoIs, GoEndingIs
  <2>3. Position(j, row, steps) => Position(k, row, steps)
    BY <2>1, <2>2 DEF Position, RunsStepPc, OnSessionPc, KeepsSession
  <2> QED
    BY <2>2, <2>3, <1>h
<1>5. CASE PublishSuccess(w)
  <2>1. /\ j.pc = "publish" /\ k.fence = j.fence /\ Others
        /\ k.pc = IF MoreSteps(w) THEN "next"
                  ELSE IF Mode = "SINGLE" THEN "complete" ELSE "opDone"
        /\ k.seq = IF MoreSteps(w) THEN j.seq + 1 ELSE j.seq
        /\ k.end = [NoEnding EXCEPT !.status = "SUCCEEDED"]
    BY <1>5, <1>t DEF PublishSuccess, Job
  <2>2. k.end.status = "SUCCEEDED"
    BY <2>1 DEF NoEnding
  <2>3. ASSUME Position(j, row, steps) PROVE Position(k, row, steps)
    <3>1. At(steps, j.seq, "SUCCEEDED") /\ row.session # NoSession
          /\ row.abort # "PENDING"
      BY <2>1, <2>3 DEF Position, OnSessionPc
    <3>2. /\ MoreSteps(w) => At(steps, j.seq + 1, "PENDING")
          /\ ~MoreSteps(w) => All(steps, "SUCCEEDED")
      BY <3>1, StepAfter DEF MoreSteps
    <3>3. CASE MoreSteps(w)
      BY <2>1, <3>1, <3>2, <3>3
         DEF Position, RunsStepPc, OnSessionPc, KeepsSession
    <3>4. CASE ~MoreSteps(w)
      BY <2>1, <2>2, <3>1, <3>2, <3>4
         DEF Position, RunsStepPc, OnSessionPc, KeepsSession
    <3> QED
      BY <3>3, <3>4
  <2> QED
    BY <2>1, <2>3, <1>h
<1>6. CASE RecordFailureEvidence(w)
  <2>1. /\ j.pc = "evidence" /\ k.pc = "finalize" /\ k.seq = j.seq
        /\ k.fence = j.fence /\ Others
    BY <1>6, <1>t, GoIs DEF RecordFailureEvidence
  <2>2. Position(j, row, steps) => Position(k, row, steps)
    BY <2>1 DEF Position, RunsStepPc, OnSessionPc, KeepsSession
  <2> QED
    BY <2>1, <2>2, <1>h
<1>7. CASE AbortIdle(w) \/ AbortMissing(w) \/ AbortDeletes(w) \/ AbortFails(w)
  <2>1. j.pc = "aborting" /\ \E end : GoEnding(w, "abortRecord", end)
    BY <1>7 DEF AbortIdle, AbortMissing, AbortDeletes, AbortFails
  <2>2. k.pc = "abortRecord" /\ k.seq = j.seq /\ k.fence = j.fence /\ Others
    BY <2>1, <1>t, GoEndingIs
  <2>3. Position(j, row, steps) => Position(k, row, steps)
    BY <2>1, <2>2 DEF Position, RunsStepPc, OnSessionPc, KeepsSession
  <2> QED
    BY <2>2, <2>3, <1>h
<1>8. CASE AssertLease(w) \/ ReleaseSession(w) \/ CancelStop(w)
           \/ CancelStopFails(w) \/ HandOffCancelled(w)
  <2>1. \E pc \in {"release", "finalizeOk", "cancelFinalize", "relCancel",
                   "relHandover", "stop"} :
          Go(w, pc) \/ \E end : GoEnding(w, pc, end)
    BY <1>8 DEF AssertLease, ReleaseSession, CancelStop, CancelStopFails,
                HandOffCancelled
  <2>2. /\ k.pc \in {"release", "finalizeOk", "cancelFinalize", "relCancel",
                     "relHandover", "stop"}
        /\ Others
    BY <2>1, <1>t, GoIs, GoEndingIs
  <2> QED
    BY <2>2, <1>f
<1>9. CASE StopSession(w)
  <2>1. /\ j.pc = "stop" /\ k.pc \in {"stopping", "finalize"}
        /\ k.end = j.end /\ Others
    BY <1>9, <1>t, GoIs DEF StopSession
  <2>2. ~j.end.retain
    BY <2>1, <1>g DEF JobIsGood, FailsPlainly
  <2> QED
    BY <2>1, <2>2, <1>f
<1>10. CASE StopSucceeds(w) \/ StopFails(w)
  <2>1. PICK c : /\ j.pc = "stopping"
                 /\ GoEnding(w, "finalize", [j.end EXCEPT !.cleanup = c])
    BY <1>10 DEF StopSucceeds, StopFails
  <2>2. /\ k.pc = "finalize" /\ k.end = [j.end EXCEPT !.cleanup = c] /\ Others
    BY <2>1, <1>t, GoEndingIs
  <2>3. ~j.end.retain /\ j.end \in Ending
    BY <2>1, <1>g, <1>t DEF JobIsGood, FailsPlainly, Job
  <2>4. ~k.end.retain
    BY <2>2, <2>3 DEF Ending
  <2> QED
    BY <2>2, <2>4, <1>f
<1>11. CASE LoseLease(w)
  BY <1>11, <1>e DEF LoseLease
<1>12. CASE RunBreaks(w)
  <2>1. PICK session, end :
          job' = [job EXCEPT ![w].pc = "stop", ![w].session = session,
                             ![w].end = end]
    BY <1>12 DEF RunBreaks
  <2>2. k.pc = "stop" /\ Others
    BY <2>1, <1>t DEF Job
  <2> QED
    BY <2>2, <1>f
<1>13. CASE Shutdown(w) \/ DispatchCancellation(w)
  <2>1. \E shut : Interrupted(w, shut)
    BY <1>13 DEF Shutdown, DispatchCancellation
  <2>2. k.pc \in {"idle", "dead", "interrupted", "interruptedRun"} /\ Others
    BY <2>1, <1>t, InterruptedIs
  <2> QED
    BY <2>2, <1>f
<1>14. CASE Crash(w)
  <2>1. k.pc = "dead" /\ Others
    BY <1>14, <1>t DEF Crash, Dead, Idle
  <2> QED
    BY <2>1, <1>f
<1> QED
  BY <1>1, <1>2, <1>3, <1>4, <1>5, <1>6, <1>7, <1>8, <1>9, <1>10, <1>11,
     <1>12, <1>13, <1>14 DEF LocalStep, JobFault

----------------------------------------------------------------------------
(* The rows. *)

\* What a step leaves alone stays good.
LEMMA RowsKept ==
    ASSUME RowIsGood, UNCHANGED db
    PROVE  RowIsGood'
BY DEF RowIsGood, QueuedIsGood, RunningIsGood, WaitingIsGood, EndIsGood,
       ModeIsGood, db

\* No pass is concerned by a step that makes every copy of the row stale, or
\* leaves the columns a pass relies on.
LEMMA PassesKept ==
    ASSUME PassesAreGood,
           \/ seen' = {}
           \/ /\ seen' = seen /\ cleaner' = cleaner
              /\ row'.status = row.status /\ row'.cleanup = row.cleanup
    PROVE  PassesAreGood'
BY DEF PassesAreGood

\* At most one Step runs, and it is the one the run stands at.
LEMMA OneRuns ==
    ASSUME NEW ss, NEW n, NEW x, At(ss, n, x)
    PROVE  /\ \A s \in Seqs : ss[s] = "RUNNING" => s = n
           /\ x # "SUCCEEDED" => ~All(ss, "SUCCEEDED")
<1>1. n \in Seqs /\ \A s \in Seqs : s < n \/ s = n \/ s > n
  BY StepsAssumption DEF At, Seqs
<1> QED
  BY <1>1 DEF At, All

\* No Step is open once the rest of an Operation was given up.
LEMMA GivenUpIsClosed ==
    ASSUME NEW ss, NEW n, GivenUp(ss, n)
    PROVE  NoneOpen(ss) /\ ~All(ss, "SUCCEEDED")
<1>1. n \in Seqs /\ \A s \in Seqs : s < n \/ s = n \/ s > n
  BY StepsAssumption DEF GivenUp, Seqs
<1> QED
  BY <1>1 DEF GivenUp, All, NoneOpen

\* A run that moves its Step, and writes nothing else, keeps the rows good.
LEMMA StepWritten ==
    ASSUME RowIsGood, row.status = "RUNNING", NEW n, NEW x, NEW y,
           UNCHANGED <<row, lease, attempt, op, handover>>,
           At(steps, n, x), x # "SUCCEEDED",
           At(steps', n, y) \/ GivenUp(steps', n)
    PROVE  RowIsGood'
<1>1. ~row.finReq
  BY OneRuns DEF RowIsGood, RunningIsGood
<1>2. \A s \in Seqs : steps'[s] = "RUNNING" => At(steps', s, "RUNNING")
  <2>1. CASE At(steps', n, y)
    <3> SUFFICES ASSUME NEW s \in Seqs, steps'[s] = "RUNNING"
                 PROVE  At(steps', s, "RUNNING")
      OBVIOUS
    <3>1. s = n
      BY <2>1, OneRuns
    <3> QED
      BY <2>1, <3>1 DEF At
  <2>2. CASE GivenUp(steps', n)
    BY <2>2, GivenUpIsClosed DEF NoneOpen
  <2> QED
    BY <2>1, <2>2
<1>3. RunningIsGood'
  BY <1>1, <1>2 DEF RowIsGood, RunningIsGood
<1>4. ModeIsGood'
  BY DEF RowIsGood, ModeIsGood
<1>5. QueuedIsGood' /\ WaitingIsGood' /\ EndIsGood'
  BY DEF QueuedIsGood, WaitingIsGood, EndIsGood, TerminalStatus
<1> QED
  BY <1>3, <1>4, <1>5 DEF RowIsGood

\* The transactions that move one Step: start, success, failure, giving up.
LEMMA StepWrites ==
    ASSUME TypeOK, LifecycleIsGood, NEW w \in Workers,
           \/ MarkStarted(w) \/ MarkSucceeded(w) \/ MarkFailed(w)
           \/ AbortMark(w) \/ SkipStepsAfter(w)
    PROVE  RowIsGood' /\ HoldersAreGood' /\ PassesAreGood'
<1>t. /\ job \in [Workers -> Job] /\ job[w] \in Job
      /\ steps \in [Seqs -> StepStatus] /\ row.mode \in {"SINGLE", "MULTI"}
  BY DEF TypeOK, Row, OperationMode
<1>h. /\ HoldsRun(w) /\ row.status = "RUNNING" /\ lease.owner = w
      /\ UNCHANGED <<row, lease, attempt, op, handover, seen, cleaner>>
  BY DEF MarkStarted, MarkSucceeded, MarkFailed, AbortMark, SkipStepsAfter,
         HoldsRun, Holds
<1>g. /\ JobIsGood(job[w], row.mode) /\ Position(job[w], row, steps)
      /\ RowIsGood /\ PassesAreGood
  BY <1>h DEF LifecycleIsGood, JobsAreGood, HoldersAreGood
<1>p. PassesAreGood'
  BY <1>h, <1>g, PassesKept
<1> DEFINE j == job[w]
           k == job'[w]
<1>q. ASSUME NEW x, x # "SUCCEEDED", At(steps, j.seq, x),
             \/ \E y : At(steps', j.seq, y)
             \/ GivenUp(steps', j.seq),
             Position(k, row, steps')
      PROVE  RowIsGood' /\ HoldersAreGood' /\ PassesAreGood'
  BY <1>q, <1>h, <1>g, <1>p, StepWritten, OneHolder
<1>1. CASE MarkStarted(w)
  <2>1. /\ j.pc = "next" /\ k.pc = "execute" /\ k.seq = j.seq
        /\ steps' = [steps EXCEPT ![j.seq] = "RUNNING"]
    BY <1>1, <1>t, GoIs DEF MarkStarted
  <2>2. /\ At(steps, j.seq, "PENDING")
        /\ row.session # NoSession /\ row.abort # "PENDING"
    BY <1>g, <2>1 DEF Position, OnSessionPc
  <2>3. At(steps', j.seq, "RUNNING")
    BY <1>t, <2>1, <2>2, StepMoves
  <2>4. Position(k, row, steps')
    BY <2>1, <2>2, <2>3 DEF Position, RunsStepPc, OnSessionPc, KeepsSession
  <2> QED
    BY <2>2, <2>3, <2>4, <1>q
<1>2. CASE MarkSucceeded(w)
  <2>1. /\ j.pc = "stored" /\ k.pc = "publish" /\ k.seq = j.seq
        /\ steps' = [steps EXCEPT ![j.seq] = "SUCCEEDED"]
    BY <1>2, <1>t, GoIs DEF MarkSucceeded
  <2>2. /\ At(steps, j.seq, "RUNNING")
        /\ row.session # NoSession /\ row.abort # "PENDING"
    BY <1>g, <2>1 DEF Position, RunsStepPc, OnSessionPc
  <2>3. At(steps', j.seq, "SUCCEEDED")
    BY <1>t, <2>1, <2>2, StepMoves
  <2>4. Position(k, row, steps')
    BY <2>1, <2>2, <2>3 DEF Position, RunsStepPc, OnSessionPc, KeepsSession
  <2> QED
    BY <2>2, <2>3, <2>4, <1>q
<1>3. CASE MarkFailed(w) \/ AbortMark(w)
  <2>1. /\ j.pc \in {"toolFail", "stepFail", "abortMark"}
        /\ k.pc \in {"stop", "evidence", "opSkip", "finalize", "abortSkip"}
        /\ k.seq = j.seq
        /\ steps' = [steps EXCEPT ![j.seq] = "FAILED"]
    BY <1>3, <1>t, GoIs, GoEndingIs DEF MarkFailed, AbortMark
  <2>2. /\ At(steps, j.seq, "RUNNING")
        /\ row.session # NoSession /\ row.abort # "PENDING"
    BY <1>g, <2>1 DEF Position, RunsStepPc, OnSessionPc
  <2>3. At(steps', j.seq, "FAILED")
    BY <1>t, <2>1, <2>2, StepMoves
  <2>4. Position(k, row, steps')
    BY <2>1, <2>2, <2>3 DEF Position, RunsStepPc, OnSessionPc, KeepsSession
  <2> QED
    BY <2>2, <2>3, <2>4, <1>q
<1>4. CASE SkipStepsAfter(w)
  <2>1. /\ j.pc \in {"opSkip", "abortSkip"}
        /\ k.pc \in {"opDone", "abortFinalize"}
        /\ k.seq = j.seq /\ k.end = j.end
        /\ steps' = [s \in Seqs |->
                       IF s > j.seq /\ steps[s] = "PENDING" THEN "SKIPPED"
                       ELSE steps[s]]
    BY <1>4, <1>t, GoIs DEF SkipStepsAfter
  <2>2. /\ At(steps, j.seq, "FAILED")
        /\ row.session # NoSession /\ row.abort # "PENDING"
    BY <1>g, <2>1 DEF Position, OnSessionPc
  <2>3. GivenUp(steps', j.seq)
    BY <2>1, <2>2, RestGivenUp
  <2>4. j.end.status = "FAILED"
    BY <2>1, <1>g DEF JobIsGood, FailsPlainly, FailsRetaining
  <2>5. Position(k, row, steps')
    BY <2>1, <2>2, <2>3, <2>4
       DEF Position, RunsStepPc, OnSessionPc, KeepsSession
  <2> QED
    BY <2>2, <2>3, <2>5, <1>q
<1> QED
  BY <1>1, <1>2, <1>3, <1>4

\* The transactions of a run that write its session or its abort.
LEMMA ColumnWrites ==
    ASSUME TypeOK, LifecycleIsGood, NEW w \in Workers,
           RecordRuntimeSession(w) \/ AbortBegin(w) \/ AbortRecord(w)
    PROVE  RowIsGood' /\ HoldersAreGood' /\ PassesAreGood'
<1>t. /\ job \in [Workers -> Job] /\ job[w] \in Job /\ row \in Row
      /\ steps \in [Seqs -> StepStatus]
  BY DEF TypeOK
<1>h. /\ HoldsRun(w) /\ row.status = "RUNNING" /\ lease.owner = w
      /\ UNCHANGED <<lease, attempt, op, steps, handover, cleaner>>
  BY DEF RecordRuntimeSession, AbortBegin, AbortRecord, HoldsRun, Holds
<1>g. /\ JobIsGood(job[w], row.mode) /\ Position(job[w], row, steps)
      /\ RowIsGood /\ PassesAreGood
  BY <1>h DEF LifecycleIsGood, JobsAreGood, HoldersAreGood
<1>n. ~handover /\ row.claimed
  BY <1>h, <1>g, WorkersAssumption DEF RowIsGood, ModeIsGood
<1> DEFINE j == job[w]
           k == job'[w]
<1>r. ASSUME row'.status = "RUNNING", row'.mode = row.mode,
             row'.finReq = row.finReq, row'.strategy = row.strategy,
             row'.claimed = row.claimed,
             row'.abort = "PENDING" => row'.session # NoSession
      PROVE  RowIsGood'
  <2>1. RunningIsGood'
    BY <1>r, <1>h, <1>g, <1>n DEF RowIsGood, RunningIsGood
  <2>2. ModeIsGood'
    BY <1>r, <1>h, <1>g, <1>n DEF RowIsGood, ModeIsGood
  <2>3. QueuedIsGood' /\ WaitingIsGood' /\ EndIsGood'
    BY <1>r DEF QueuedIsGood, WaitingIsGood, EndIsGood, TerminalStatus
  <2> QED
    BY <2>1, <2>2, <2>3 DEF RowIsGood
<1>1. CASE RecordRuntimeSession(w)
  <2>1. /\ row'.status = "RUNNING" /\ row'.mode = row.mode
        /\ row'.finReq = row.finReq /\ row'.strategy = row.strategy
        /\ row'.claimed = row.claimed /\ row'.abort = row.abort
        /\ row'.cleanup = row.cleanup /\ row'.session = j.session
        /\ seen' = seen
    BY <1>1, <1>t, <1>h DEF RecordRuntimeSession, Row
  <2>2. /\ j.pc = "record" /\ k.seq = j.seq
        /\ k.pc = IF row.finReq THEN "complete" ELSE "next"
    BY <1>1, <1>t, GoIs DEF RecordRuntimeSession
  <2>3. /\ j.session # NoSession /\ row.abort # "PENDING"
        /\ row.finReq \/ At(steps, j.seq, "PENDING")
    BY <1>g, <2>2 DEF JobIsGood, Position
  <2>4. Position(k, row', steps')
    BY <1>h, <2>1, <2>2, <2>3 DEF Position, RunsStepPc, OnSessionPc, KeepsSession
  <2>5. HoldersAreGood'
    BY <1>h, <2>4, OneHolder
  <2>6. PassesAreGood'
    BY <1>h, <1>g, <2>1, PassesKept
  <2> QED
    BY <1>r, <2>1, <2>3, <2>5, <2>6
<1>2. CASE AbortBegin(w)
  <2>1. /\ row'.status = "RUNNING" /\ row'.mode = row.mode
        /\ row'.finReq = row.finReq /\ row'.strategy = row.strategy
        /\ row'.claimed = row.claimed /\ row'.session = row.session
        /\ seen' = {}
    BY <1>2, <1>t, <1>h DEF AbortBegin, Row
  <2>2. j.pc = "abortBegin" /\ k.seq = j.seq /\ k.pc = "aborting"
    BY <1>2, <1>t, GoIs DEF AbortBegin
  <2>3. row.session # NoSession /\ At(steps, j.seq, "RUNNING")
    BY <1>g, <2>2 DEF Position, RunsStepPc, OnSessionPc
  <2>4. Position(k, row', steps')
    BY <1>h, <2>1, <2>2, <2>3 DEF Position, RunsStepPc, OnSessionPc, KeepsSession
  <2>5. HoldersAreGood'
    BY <1>h, <2>4, OneHolder
  <2>6. PassesAreGood'
    BY <1>g, <2>1, PassesKept
  <2> QED
    BY <1>r, <2>1, <2>3, <2>5, <2>6
<1>3. CASE AbortRecord(w)
  <2>1. /\ row'.status = "RUNNING" /\ row'.mode = row.mode
        /\ row'.finReq = row.finReq /\ row'.strategy = row.strategy
        /\ row'.claimed = row.claimed /\ row'.session = row.session
        /\ row'.abort = j.end.abort /\ seen' = {}
    BY <1>3, <1>t, <1>h DEF AbortRecord, Row
  <2>2. j.pc = "abortRecord" /\ k.seq = j.seq /\ k.pc = "abortMark"
    BY <1>3, <1>t, GoIs DEF AbortRecord
  <2>3. /\ row.session # NoSession /\ At(steps, j.seq, "RUNNING")
        /\ j.end.abort # "PENDING"
    BY <1>g, <2>2 DEF JobIsGood, Position, RunsStepPc, OnSessionPc
  <2>4. Position(k, row', steps')
    BY <1>h, <2>1, <2>2, <2>3 DEF Position, RunsStepPc, OnSessionPc, KeepsSession
  <2>5. HoldersAreGood'
    BY <1>h, <2>4, OneHolder
  <2>6. PassesAreGood'
    BY <1>g, <2>1, PassesKept
  <2> QED
    BY <1>r, <2>1, <2>3, <2>5, <2>6
<1> QED
  BY <1>1, <1>2, <1>3

\* Nothing is open after the Steps were ended, and what had ended stays.
LEMMA EndedStepsIs ==
    ASSUME NEW ss \in [Seqs -> StepStatus],
           NEW ending \in {"FAILED", "CANCELLED"}
    PROVE  /\ NoneOpen(EndedSteps(ss, ending))
           /\ \A s \in Seqs :
                ss[s] = "SUCCEEDED" => EndedSteps(ss, ending)[s] = "SUCCEEDED"
BY DEF NoneOpen, EndedSteps

\* An Attempt that was ended neither runs nor waits.
LEMMA EndedAttemptIs ==
    ASSUME NEW a \in Attempt,
           NEW ending \in {"SUCCEEDED", "FAILED", "CANCELLED"}
    PROVE  EndedAttempt(a, ending).status \notin {"RUNNING", "WAITING"}
BY DEF EndedAttempt, ActiveAttempt, Attempt

\* A run that ends leaves good rows: put back in the queue, waiting for the
\* next Operation, or ended.
LEMMA RunEndWrites ==
    ASSUME TypeOK, TypeOK', LifecycleIsGood, LeaseMatchesAttempt, TokensUnique,
           NEW w \in Workers,
           \/ DeferRetainedRetry(w) \/ CompleteOperation(w) \/ Finalize(w)
           \/ ReleaseForHandover(w)
    PROVE  RowIsGood' /\ HoldersAreGood' /\ PassesAreGood'
<1>t. /\ job \in [Workers -> Job] /\ job[w] \in Job /\ row \in Row
      /\ lease \in Lease /\ attempt \in Attempt
      /\ steps \in [Seqs -> StepStatus] /\ job[w].end \in Ending
      /\ row.mode \in {"SINGLE", "MULTI"} /\ op \in OperationStatus
  BY DEF TypeOK, Job, Row, OperationMode
<1>h. /\ HoldsRun(w) /\ row.status = "RUNNING" /\ lease.owner = w
      /\ attempt.status = "RUNNING" /\ lease.cowner = NoWorker
  BY DEF DeferRetainedRetry, CompleteOperation, Finalize, ReleaseForHandover,
         HoldsRun, Holds, TokensUnique
<1>g. /\ JobIsGood(job[w], row.mode) /\ Position(job[w], row, steps)
      /\ RowIsGood /\ PassesAreGood
  BY <1>h DEF LifecycleIsGood, JobsAreGood, HoldersAreGood
<1>n. ~handover /\ row.claimed
  BY <1>h, <1>g, WorkersAssumption DEF RowIsGood, ModeIsGood
<1> DEFINE j == job[w]
<1>1. CASE DeferRetainedRetry(w)
  <2>1. /\ row'.status = "QUEUED" /\ row'.mode = row.mode
        /\ row'.finReq = row.finReq /\ row'.strategy = row.strategy
        /\ row'.claimed = row.claimed /\ row'.session = row.session
        /\ row'.abort = row.abort /\ row'.retries = row.retries
        /\ row'.from = row.from
    BY <1>1, <1>t DEF DeferRetainedRetry, Row
  <2>2. /\ j.pc = "defer" /\ seen' = {} /\ steps' = steps
        /\ handover' = handover /\ op' = IF op = "RUNNING" THEN "QUEUED" ELSE op
        /\ attempt'.status # "WAITING"
    BY <1>1, <1>t, EndedAttemptIs DEF DeferRetainedRetry
  <2>3. /\ row.mode = "SINGLE" /\ row.strategy = "FROM_FAILED_STEP"
        /\ row.retries > 0 /\ At(steps, row.from, "PENDING")
        /\ row.session # NoSession /\ row.abort # "PENDING"
    BY <2>2, <1>g DEF JobIsGood, Position, OnSessionPc
  <2>4. ~row.finReq /\ op = "RUNNING"
    BY <2>3, <1>h, <1>g DEF RowIsGood, ModeIsGood, RunningIsGood
  <2>5. QueuedIsGood'
    BY <2>1, <2>2, <2>3, <2>4 DEF QueuedIsGood
  <2>6. ModeIsGood'
    BY <2>1, <2>2, <2>3, <2>4, <1>n DEF ModeIsGood
  <2>7. RunningIsGood' /\ WaitingIsGood' /\ EndIsGood'
    BY <2>1 DEF RunningIsGood, WaitingIsGood, EndIsGood, TerminalStatus
  <2>8. HoldersAreGood' /\ PassesAreGood'
    BY <2>1, <2>2, <1>g, NoHolder, PassesKept
  <2> QED
    BY <2>5, <2>6, <2>7, <2>8 DEF RowIsGood
<1>2. CASE CompleteOperation(w)
  <2>1. /\ row'.status = "WAITING_FOR_OPERATION" /\ row'.mode = row.mode
        /\ row'.finReq = FALSE /\ row'.strategy = row.strategy
        /\ row'.claimed = row.claimed /\ row'.session = row.session
        /\ row'.abort = row.abort
    BY <1>2, <1>t DEF CompleteOperation, Row
  <2>2. /\ j.pc = "opDone" /\ seen' = {} /\ steps' = steps
        /\ handover' = handover /\ op' = j.end.status
        /\ j.end.status \in {"SUCCEEDED", "FAILED"}
    BY <1>2, <1>t DEF CompleteOperation, Ending
  <2>3. /\ row.mode = "MULTI" /\ row.session # NoSession
        /\ row.abort # "PENDING"
        /\ j.end.status = "SUCCEEDED" => All(steps, "SUCCEEDED")
        /\ j.end.status # "SUCCEEDED" => GivenUp(steps, j.seq)
    BY <2>2, <1>g DEF JobIsGood, Position, OnSessionPc
  <2>4. NoneOpen(steps) /\ (op' = "SUCCEEDED" <=> All(steps, "SUCCEEDED"))
        /\ op' \notin OpenOperation
    BY <2>2, <2>3, GivenUpIsClosed DEF NoneOpen, All, OpenOperation
  <2>5. WaitingIsGood'
    BY <2>1, <2>2, <2>3, <2>4 DEF WaitingIsGood
  <2>6. ModeIsGood'
    BY <2>1, <2>2, <2>3, <1>n, <1>g DEF RowIsGood, ModeIsGood
  <2>7. QueuedIsGood' /\ RunningIsGood' /\ EndIsGood'
    BY <2>1 DEF QueuedIsGood, RunningIsGood, EndIsGood, TerminalStatus
  <2>8. HoldersAreGood' /\ PassesAreGood'
    BY <2>1, <2>2, <1>g, NoHolder, PassesKept
  <2> QED
    BY <2>5, <2>6, <2>7, <2>8 DEF RowIsGood
<1>3. CASE Finalize(w)
  <2> DEFINE end == j.end
             cleanup == FinalCleanup(w)
  <2>1. PICK from :
          /\ end.strategy = "FROM_FAILED_STEP" => from = j.seq
          /\ row' = [row EXCEPT
                !.status = end.status, !.strategy = end.strategy,
                !.from = from,
                !.retained = IF end.retain THEN "OPEN" ELSE "NONE",
                !.cleanup = cleanup,
                !.abort = ResolvedAbort(@, cleanup),
                !.session = IF end.retain THEN @ ELSE SessionAfter(@, cleanup)]
    BY <1>3 DEF Finalize
  <2>2. /\ row'.status = end.status /\ row'.mode = row.mode
        /\ row'.finReq = row.finReq /\ row'.strategy = end.strategy
        /\ row'.claimed = row.claimed /\ row'.cleanup = cleanup
        /\ row'.abort = ResolvedAbort(row.abort, cleanup) /\ row'.from = from
        /\ row'.session = IF end.retain THEN row.session
                          ELSE SessionAfter(row.session, cleanup)
    BY <2>1, <1>t DEF Row
  <2>3. /\ j.pc \in {"finalize", "finalizeOk", "abortFinalize"} /\ seen' = {}
        /\ handover' = handover /\ op' = EndedOperation(op, end.status)
        /\ attempt' = EndedAttempt(attempt, end.status)
        /\ end.status = "SUCCEEDED" => CompletedResults
        /\ steps' = IF end.status = "FAILED" THEN EndedSteps(steps, "FAILED")
                    ELSE steps
        /\ end.status \in {"SUCCEEDED", "FAILED"}
    BY <1>3, <1>t DEF Finalize, Ending
  <2>4. row'.abort # "PENDING" /\ attempt'.status # "WAITING"
    BY <2>2, <2>3, <1>t, EndedAttemptIs DEF ResolvedAbort
  <2>5. op' \notin OpenOperation
    BY <2>3 DEF EndedOperation, OpenOperation
  <2>6. row.mode = "MULTI" => end.strategy = "NOT_RETRYABLE"
    BY <2>3, <1>g, <1>t DEF JobIsGood, FailsPlainly, FailsRetaining
  <2>7. ModeIsGood'
    BY <2>2, <2>3, <2>4, <2>6, <1>n, <1>g DEF RowIsGood, ModeIsGood
  <2>8. QueuedIsGood' /\ RunningIsGood' /\ WaitingIsGood'
    BY <2>2, <2>3 DEF QueuedIsGood, RunningIsGood, WaitingIsGood
  <2>9. HoldersAreGood' /\ PassesAreGood'
    BY <2>2, <2>3, <1>g, NoHolder, PassesKept
  <2>10. CASE end.status = "SUCCEEDED"
    <3>1. /\ ~end.retain /\ end.cleanup = "SUCCEEDED"
          /\ end.strategy = "NOT_RETRYABLE"
      BY <2>3, <2>10, <1>g DEF JobIsGood, FailsPlainly, FailsRetaining
    <3>2. cleanup = "SUCCEEDED" /\ row'.session = NoSession
      BY <2>2, <3>1 DEF FinalCleanup, SessionAfter
    <3>3. All(steps', "SUCCEEDED") /\ op' = "SUCCEEDED" /\ NoneOpen(steps')
      BY <2>3, <2>10
         DEF CompletedResults, All, NoneOpen, EndedOperation, OpenOperation
    <3>4. attempt'.status = "SUCCEEDED"
      BY <2>3, <2>10, <1>h, <1>t DEF EndedAttempt, ActiveAttempt, Attempt
    <3>5. EndIsGood'
      BY <2>2, <2>4, <2>5, <2>10, <3>1, <3>2, <3>3, <3>4 DEF EndIsGood
    <3> QED
      BY <2>7, <2>8, <2>9, <3>5 DEF RowIsGood
  <2>11. CASE end.status = "FAILED"
    <3>1. steps' = EndedSteps(steps, "FAILED")
      BY <2>3, <2>11
    <3>2. NoneOpen(steps')
      BY <3>1, <1>t, EndedStepsIs
    <3>3. ASSUME end.strategy = "FROM_FAILED_STEP"
          PROVE  /\ row'.from \in Seqs
                 /\ \A s \in Seqs : s < row'.from => steps'[s] = "SUCCEEDED"
                 /\ row'.session # NoSession
                 /\ row'.cleanup = "NOT_REQUIRED"
      <4>1. j.pc = "finalize" /\ end.retain /\ end.cleanup = "NOT_REQUIRED"
        BY <2>3, <2>11, <3>3, <1>g DEF JobIsGood, FailsPlainly, FailsRetaining
      <4>2. /\ At(steps, j.seq, "FAILED") /\ row.session # NoSession
            /\ row.abort # "PENDING"
        BY <4>1, <1>g DEF Position, KeepsSession
      <4>3. cleanup = "NOT_REQUIRED"
        BY <4>1, <4>2 DEF FinalCleanup
      <4>4. row'.from = j.seq
        BY <2>1, <2>2, <3>3
      <4>5. \A s \in Seqs : s < j.seq => steps'[s] = "SUCCEEDED"
        BY <3>1, <4>2, <1>t, EndedStepsIs DEF At
      <4> QED
        BY <2>2, <4>1, <4>2, <4>3, <4>4, <4>5 DEF At
    <3>4. EndIsGood'
      BY <2>2, <2>4, <2>5, <2>11, <3>2, <3>3 DEF EndIsGood
    <3> QED
      BY <2>7, <2>8, <2>9, <3>4 DEF RowIsGood
  <2> QED
    BY <2>3, <2>10, <2>11
<1>4. CASE ReleaseForHandover(w)
  <2>0. UNCHANGED <<row, op, steps, cleaner>>
    BY <1>4 DEF ReleaseForHandover
  <2>1. CASE UNCHANGED <<lease, attempt, handover, seen>>
             /\ GoEnding(w, "stop", Failing(RestartStrategy))
    <3>1. RowIsGood'
      BY <2>0, <2>1, <1>g, RowsKept DEF db
    <3>2. job'[w].pc = "stop"
      BY <2>1, <1>t, GoEndingIs
    <3>3. HoldersAreGood'
      BY <2>1, <3>2, <1>h, FreePosition, OneHolder
    <3> QED
      BY <2>0, <2>1, <3>1, <3>3, <1>g, PassesKept
  <2>2. CASE Transferable /\ BeginHandover
    <3>1. /\ lease'.owner = NoWorker /\ lease'.cowner = NoWorker
          /\ handover' = TRUE /\ seen' = {} /\ attempt'.status = attempt.status
      BY <2>2, <1>h, <1>t DEF BeginHandover, Released, Lease, Attempt
    <3>2. RunningIsGood'
      BY <2>0, <2>2, <3>1, <1>g, <1>h DEF RowIsGood, RunningIsGood, Transferable
    <3>3. ModeIsGood'
      BY <2>0, <3>1, <1>g, <1>h DEF RowIsGood, ModeIsGood
    <3>4. QueuedIsGood' /\ WaitingIsGood' /\ EndIsGood'
      BY <2>0, <1>h DEF QueuedIsGood, WaitingIsGood, EndIsGood, TerminalStatus
    <3>5. HoldersAreGood' /\ PassesAreGood'
      BY <3>1, <1>g, NoHolder, PassesKept
    <3> QED
      BY <3>2, <3>3, <3>4, <3>5 DEF RowIsGood
  <2> QED
    BY <1>4, <2>1, <2>2 DEF ReleaseForHandover
<1> QED
  BY <1>1, <1>2, <1>3, <1>4

\* The end of a cancellation closes the rows.
LEMMA CancellationWrites ==
    ASSUME TypeOK, LifecycleIsGood, LeaseMatchesAttempt, NEW w \in Workers,
           ReleaseForCancellation(w) \/ CancelFinalize(w)
    PROVE  RowIsGood' /\ HoldersAreGood' /\ PassesAreGood'
<1>t. /\ job[w] \in Job /\ row \in Row /\ lease \in Lease
      /\ attempt \in Attempt /\ steps \in [Seqs -> StepStatus]
  BY DEF TypeOK
<1>g. row.status = "CANCEL_REQUESTED" /\ RowIsGood /\ PassesAreGood
  BY DEF LifecycleIsGood, ReleaseForCancellation, CancelFinalize, Holds,
         HoldsCancellation
<1>1. CASE ReleaseForCancellation(w)
  <2>1. /\ UNCHANGED <<row, op, steps, handover, seen, cleaner>>
        /\ attempt'.status = attempt.status /\ lease.owner = w
        /\ lease'.owner = NoWorker
    BY <1>1, <1>t DEF ReleaseForCancellation, Holds, Released, Lease, Attempt
  <2>2. ~handover
    BY <2>1, <1>g, WorkersAssumption DEF RowIsGood, ModeIsGood
  <2>3. ModeIsGood'
    BY <2>1, <2>2, <1>g DEF RowIsGood, ModeIsGood
  <2>4. QueuedIsGood' /\ RunningIsGood' /\ WaitingIsGood' /\ EndIsGood'
    BY <2>1, <1>g DEF QueuedIsGood, RunningIsGood, WaitingIsGood, EndIsGood,
                      TerminalStatus
  <2> QED
    BY <2>1, <2>3, <2>4, <1>g, NoHolder, PassesKept DEF RowIsGood
<1>2. CASE CancelFinalize(w)
  <2> DEFINE cleanup == job[w].end.cleanup
  <2>1. PICK ending \in {"FAILED", "CANCELLED"} :
          /\ row' = [row EXCEPT
                !.status = ending, !.strategy = "NOT_RETRYABLE", !.from = 0,
                !.retained = "NONE", !.cleanup = cleanup,
                !.abort = ResolvedAbort(@, cleanup),
                !.session = SessionAfter(@, cleanup)]
          /\ attempt' = EndedAttempt(attempt, ending)
          /\ steps' = EndedSteps(steps, ending)
          /\ op' = EndedOperation(op, ending)
    BY <1>2 DEF CancelFinalize
  <2>2. /\ row'.status = ending /\ row'.mode = row.mode
        /\ row'.finReq = row.finReq /\ row'.strategy = "NOT_RETRYABLE"
        /\ row'.claimed = row.claimed
        /\ row'.abort = ResolvedAbort(row.abort, cleanup)
        /\ row'.session = SessionAfter(row.session, cleanup)
    BY <2>1, <1>t DEF Row
  <2>3. seen' = {} /\ handover' = handover /\ lease.cowner = w
    BY <1>2 DEF CancelFinalize, HoldsCancellation
  <2>4. ~handover
    BY <2>3, <1>g, WorkersAssumption DEF RowIsGood, ModeIsGood
  <2>5. /\ row'.abort # "PENDING" /\ op' \notin OpenOperation
        /\ NoneOpen(steps') /\ attempt'.status # "WAITING"
    BY <2>1, <2>2, <1>t, EndedStepsIs, EndedAttemptIs
       DEF ResolvedAbort, EndedOperation, OpenOperation
  <2>6. ~row.claimed => /\ row'.abort = "NOT_REQUIRED"
                        /\ row'.session = NoSession
                        /\ attempt'.status = "NONE"
    BY <2>1, <2>2, <1>g DEF RowIsGood, ModeIsGood, ResolvedAbort, SessionAfter,
                            EndedAttempt, ActiveAttempt
  <2>7. ModeIsGood'
    BY <2>2, <2>3, <2>4, <2>5, <2>6, <1>g DEF RowIsGood, ModeIsGood
  <2>8. EndIsGood'
    BY <2>2, <2>5 DEF EndIsGood
  <2>9. QueuedIsGood' /\ RunningIsGood' /\ WaitingIsGood'
    BY <2>2 DEF QueuedIsGood, RunningIsGood, WaitingIsGood
  <2> QED
    BY <2>2, <2>3, <2>7, <2>8, <2>9, <1>g, NoHolder, PassesKept DEF RowIsGood
<1> QED
  BY <1>1, <1>2

\* A run that was asked to stop has only its mode to keep to.
LEMMA CancelRequested ==
    ASSUME RowIsGood, row'.status = "CANCEL_REQUESTED",
           row'.mode = row.mode, row'.finReq = row.finReq,
           row'.strategy = row.strategy, row'.claimed = row.claimed,
           row'.abort = row.abort, row'.session = row.session,
           UNCHANGED <<lease, attempt, handover>>
    PROVE  RowIsGood' /\ HoldersAreGood'
<1>1. ModeIsGood'
  BY DEF RowIsGood, ModeIsGood
<1>2. QueuedIsGood' /\ RunningIsGood' /\ WaitingIsGood' /\ EndIsGood'
  BY DEF QueuedIsGood, RunningIsGood, WaitingIsGood, EndIsGood, TerminalStatus
<1> QED
  BY <1>1, <1>2, NoHolder DEF RowIsGood

\* Commands of the caller keep the rows good.
LEMMA CommandWrites ==
    ASSUME TypeOK, LifecycleIsGood, LeaseMatchesAttempt, Command
    PROVE  RowIsGood' /\ HoldersAreGood' /\ PassesAreGood'
<1>t. /\ row \in Row /\ steps \in [Seqs -> StepStatus]
      /\ row.mode \in {"SINGLE", "MULTI"}
  BY DEF TypeOK, Row, OperationMode
<1>g. RowIsGood /\ PassesAreGood
  BY DEF LifecycleIsGood
<1>p. PassesAreGood'
  BY <1>g, PassesKept DEF Command, RequestCancel, RequestRetry,
                          RequestOperation, RequestFinalization
<1>1. CASE RequestCancel
  <2>1. /\ row'.status = "CANCEL_REQUESTED"
        /\ row'.mode = row.mode /\ row'.finReq = row.finReq
        /\ row'.strategy = row.strategy /\ row'.claimed = row.claimed
        /\ row'.abort = row.abort /\ row'.session = row.session
        /\ UNCHANGED <<lease, attempt, handover>>
    BY <1>1, <1>t DEF RequestCancel, Row
  <2> QED
    BY <2>1, <1>g, <1>p, CancelRequested
<1>2. CASE RequestRetry
  <2>1. PICK from, retained, cleanup :
          /\ from = IF row.strategy = "FROM_START" THEN 1 ELSE row.from
          /\ row' = [row EXCEPT
                  !.status = "QUEUED", !.from = from, !.retained = retained,
                  !.cleanup = cleanup, !.retries = @ + 1]
          /\ steps' = [s \in Seqs |-> IF s < from THEN steps[s] ELSE "PENDING"]
    BY <1>2 DEF RequestRetry
  <2>2. /\ row'.status = "QUEUED" /\ row'.mode = row.mode
        /\ row'.finReq = row.finReq /\ row'.strategy = row.strategy
        /\ row'.claimed = row.claimed /\ row'.abort = row.abort
        /\ row'.session = row.session /\ row'.from = from
        /\ row'.retries = row.retries + 1
    BY <2>1, <1>t DEF Row
  <2>3. /\ row.status = "FAILED" /\ row.mode = "SINGLE" /\ op' = "QUEUED"
        /\ row.strategy # "NOT_RETRYABLE" /\ handover' = handover
        /\ attempt' = attempt
        /\ row.strategy = "FROM_START" =>
             ~(row.cleanup \in UnresolvedCleanup /\ row.session # NoSession)
        /\ row.strategy \in RetryStrategy /\ row.retries + 1 > 0
    BY <1>2, <1>t DEF RequestRetry, Mode, Row
  <2>4. ~row.finReq /\ row.claimed /\ ~handover
    BY <2>3, <1>g DEF RowIsGood, ModeIsGood
  <2>5. row.abort # "PENDING"
    BY <2>3, <1>g DEF RowIsGood, EndIsGood, TerminalStatus, UnresolvedCleanup,
                      RetryStrategy
  <2>6. ASSUME row.strategy = "FROM_FAILED_STEP"
        PROVE  row.session # NoSession /\ At(steps', from, "PENDING")
    <3>1. /\ row.from \in Seqs /\ row.session # NoSession /\ from = row.from
          /\ \A s \in Seqs : s < row.from => steps[s] = "SUCCEEDED"
      BY <2>1, <2>3, <2>6, <1>g DEF RowIsGood, EndIsGood, TerminalStatus
    <3>2. ~(from < from) /\ \A s \in Seqs : s > from => ~(s < from)
      BY <3>1, StepsAssumption DEF Seqs
    <3> QED
      BY <2>1, <3>1, <3>2 DEF At
  <2>7. ASSUME row.strategy # "FROM_FAILED_STEP"
        PROVE  All(steps', "PENDING")
    <3>1. from = 1 /\ \A s \in Seqs : ~(s < from)
      BY <2>1, <2>3, <2>7, StepsAssumption DEF Seqs, RetryStrategy
    <3> QED
      BY <2>1, <3>1 DEF All
  <2>8. QueuedIsGood'
    BY <2>2, <2>3, <2>4, <2>5, <2>6, <2>7 DEF QueuedIsGood
  <2>9. ModeIsGood'
    BY <2>2, <2>3, <2>4, <1>g DEF RowIsGood, ModeIsGood
  <2>10. RunningIsGood' /\ WaitingIsGood' /\ EndIsGood'
    BY <2>2 DEF RunningIsGood, WaitingIsGood, EndIsGood, TerminalStatus
  <2> QED
    BY <2>2, <2>8, <2>9, <2>10, <1>p, NoHolder DEF RowIsGood
<1>3. CASE RequestOperation
  <2>1. /\ row'.status = "QUEUED" /\ row'.mode = row.mode
        /\ row'.finReq = FALSE /\ row'.strategy = row.strategy
        /\ row'.claimed = row.claimed /\ row'.abort = row.abort
        /\ row'.session = row.session
    BY <1>3, <1>t DEF RequestOperation, Row
  <2>2. /\ row.status = "WAITING_FOR_OPERATION" /\ row.mode = "MULTI"
        /\ op' = "QUEUED" /\ handover' = handover /\ attempt' = attempt
        /\ All(steps', "PENDING")
    BY <1>3 DEF RequestOperation, Mode, All
  <2>3. /\ row.strategy = "NOT_RETRYABLE" /\ row.abort # "PENDING"
        /\ row.claimed /\ ~handover
    BY <2>2, <1>g DEF RowIsGood, ModeIsGood, WaitingIsGood
  <2>4. QueuedIsGood' /\ ModeIsGood'
    BY <2>1, <2>2, <2>3 DEF QueuedIsGood, ModeIsGood
  <2>5. RunningIsGood' /\ WaitingIsGood' /\ EndIsGood'
    BY <2>1 DEF RunningIsGood, WaitingIsGood, EndIsGood, TerminalStatus
  <2> QED
    BY <2>1, <2>4, <2>5, <1>p, NoHolder DEF RowIsGood
<1>4. CASE RequestFinalization
  <2>1. /\ row'.status = "FINALIZING" /\ row'.mode = row.mode
        /\ row'.finReq = TRUE /\ row'.strategy = row.strategy
        /\ row'.claimed = row.claimed /\ row'.abort = row.abort
        /\ row'.session = row.session
    BY <1>4, <1>t DEF RequestFinalization, Row
  <2>2. /\ row.status = "WAITING_FOR_OPERATION" /\ row.mode = "MULTI"
        /\ UNCHANGED <<op, steps, handover, attempt>>
        /\ All(steps, "SUCCEEDED")
    BY <1>4 DEF RequestFinalization, Mode, All
  <2>3. ~handover
    BY <2>2, <1>g DEF RowIsGood, ModeIsGood
  <2>4. WaitingIsGood' /\ ModeIsGood'
    BY <2>1, <2>2, <2>3, <1>g DEF RowIsGood, WaitingIsGood, ModeIsGood
  <2>5. QueuedIsGood' /\ RunningIsGood' /\ EndIsGood'
    BY <2>1 DEF QueuedIsGood, RunningIsGood, EndIsGood, TerminalStatus
  <2> QED
    BY <2>1, <2>4, <2>5, <1>p, NoHolder DEF RowIsGood
<1> QED
  BY <1>1, <1>2, <1>3, <1>4 DEF Command

\* A claim finds the rows as its job expects them.
LEMMA ClaimWrites ==
    ASSUME TypeOK, LifecycleIsGood, LeaseMatchesAttempt, TokensUnique,
           NEW w \in Workers, Claim(w)
    PROVE  RowIsGood' /\ HoldersAreGood' /\ PassesAreGood'
<1>t. /\ row \in Row /\ steps \in [Seqs -> StepStatus]
      /\ row.mode \in {"SINGLE", "MULTI"} /\ job \in [Workers -> Job]
      /\ lease \in Lease /\ attempt \in Attempt /\ row.finReq \in BOOLEAN
  BY DEF TypeOK, Row, OperationMode
<1>g. RowIsGood /\ PassesAreGood
  BY DEF LifecycleIsGood
<1>o. Granted(lease, w).owner = w /\ Granted(lease, w).cowner = lease.cowner
  BY <1>t DEF Granted, Lease
<1>a. All(steps, "PENDING") => At(steps, 1, "PENDING")
  <2>1. 1 \in Seqs /\ \A s \in Seqs : ~(s < 1)
    BY StepsAssumption DEF Seqs
  <2> QED
    BY <2>1 DEF All, At
<1> DEFINE k == job'[w]
<1>1. CASE ClaimWaiting(w)
  <2>1. /\ row'.status = "RUNNING" /\ row'.mode = row.mode
        /\ row'.finReq = row.finReq /\ row'.strategy = row.strategy
        /\ row'.claimed = TRUE /\ row'.abort = "NOT_REQUIRED"
        /\ row'.session = row.session
    BY <1>1, <1>t DEF ClaimWaiting, Row
  <2>2. /\ row.status \in {"QUEUED", "FINALIZING"} /\ row.mode = "MULTI"
        /\ (row.finReq \/ op = "QUEUED") /\ steps' = steps
        /\ op' = IF row.finReq THEN op ELSE "RUNNING"
        /\ handover' = handover /\ seen' = {} /\ lease' = Granted(lease, w)
    BY <1>1 DEF ClaimWaiting, Claimable, ContinuesAttempt, Mode
  <2>3. k.pc = "prepare" /\ k.seq = 1
    BY <1>1, <1>t, ClaimedIs DEF ClaimWaiting
  <2>4. /\ ~handover
        /\ row.finReq => op = "SUCCEEDED" /\ All(steps, "SUCCEEDED")
        /\ ~row.finReq => All(steps, "PENDING")
    BY <2>2, <1>g DEF RowIsGood, ModeIsGood, WaitingIsGood, QueuedIsGood
  <2>5. \A s \in Seqs : steps[s] # "RUNNING"
    BY <2>4 DEF All
  <2>6. RunningIsGood'
    BY <2>1, <2>2, <2>4, <2>5 DEF RunningIsGood
  <2>7. ModeIsGood'
    BY <2>1, <2>2, <2>4, <1>g DEF RowIsGood, ModeIsGood
  <2>8. QueuedIsGood' /\ WaitingIsGood' /\ EndIsGood'
    BY <2>1 DEF QueuedIsGood, WaitingIsGood, EndIsGood, TerminalStatus
  <2>9. Position(k, row', steps')
    BY <2>1, <2>2, <2>3, <2>4, <1>a
       DEF Position, RunsStepPc, OnSessionPc, KeepsSession
  <2>10. HoldersAreGood'
    BY <2>2, <2>9, <1>o, OneHolder
  <2> QED
    BY <2>2, <2>6, <2>7, <2>8, <2>10, <1>g, PassesKept DEF RowIsGood
<1>2. CASE ClaimNew(w)
  <2>1. /\ row'.status = "RUNNING" /\ row'.mode = row.mode
        /\ row'.finReq = row.finReq /\ row'.strategy = row.strategy
        /\ row'.claimed = TRUE /\ row'.abort = "NOT_REQUIRED"
        /\ row'.session = row.session /\ row'.from = row.from
        /\ row'.retries = row.retries
    BY <1>2, <1>t DEF ClaimNew, Row
  <2>2. /\ row.status \in {"QUEUED", "FINALIZING"}
        /\ ~(row.mode = "MULTI" /\ row.session # NoSession)
        /\ (row.finReq \/ op = "QUEUED") /\ steps' = steps /\ op' = "RUNNING"
        /\ handover' = handover /\ seen' = {} /\ lease' = Granted(lease, w)
        /\ attempt'.status = "RUNNING"
    BY <1>2 DEF ClaimNew, Claimable, ContinuesAttempt, Mode
  <2>3. /\ IsResume => k.pc = "check" /\ k.seq = row.from
        /\ ~IsResume => k.pc = "prepare" /\ k.seq = 1
    BY <1>2, <1>t, ClaimedIs DEF ClaimNew
  <2>4. row.status = "QUEUED" /\ ~handover /\ ~row.finReq
    BY <2>2, <1>g, <1>t DEF RowIsGood, ModeIsGood, WaitingIsGood, QueuedIsGood
  <2>5. /\ row.strategy = "FROM_FAILED_STEP" =>
             /\ row.session # NoSession /\ row.retries > 0
             /\ At(steps, row.from, "PENDING")
        /\ row.strategy # "FROM_FAILED_STEP" => All(steps, "PENDING")
        /\ row.mode = "MULTI" => row.strategy = "NOT_RETRYABLE"
    BY <2>4, <1>g DEF RowIsGood, QueuedIsGood, ModeIsGood
  <2>6. IsResume <=> row.strategy = "FROM_FAILED_STEP"
    <3>1. \A n \in Seqs : n # 0
      BY StepsAssumption DEF Seqs
    <3> QED
      BY <2>5, <3>1, <1>t DEF IsResume, Mode, At
  <2>7. \A s \in Seqs : steps[s] # "RUNNING"
    <3>1. CASE row.strategy # "FROM_FAILED_STEP"
      BY <2>5, <3>1 DEF All
    <3>2. CASE row.strategy = "FROM_FAILED_STEP"
      <4>1. At(steps, row.from, "PENDING")
        BY <2>5, <3>2
      <4>2. \A s \in Seqs : steps[s] = "RUNNING" => s = row.from
        BY <4>1, OneRuns
      <4> QED
        BY <4>1, <4>2 DEF At
    <3> QED
      BY <3>1, <3>2
  <2>8. RunningIsGood'
    BY <2>1, <2>2, <2>4, <2>7 DEF RunningIsGood
  <2>9. ModeIsGood'
    BY <2>1, <2>2, <2>4, <1>g DEF RowIsGood, ModeIsGood
  <2>10. QueuedIsGood' /\ WaitingIsGood' /\ EndIsGood'
    BY <2>1 DEF QueuedIsGood, WaitingIsGood, EndIsGood, TerminalStatus
  <2>11. Position(k, row', steps')
    BY <2>1, <2>2, <2>3, <2>5, <2>6, <1>a
       DEF Position, RunsStepPc, OnSessionPc, KeepsSession
  <2>12. HoldersAreGood'
    BY <2>2, <2>11, <1>o, OneHolder
  <2> QED
    BY <2>2, <2>8, <2>9, <2>10, <2>12, <1>g, PassesKept DEF RowIsGood
<1>3. CASE ClaimHandover(w)
  <2>1. /\ row' = row /\ row.status = "RUNNING" /\ handover
        /\ handover' = FALSE /\ seen' = {} /\ lease' = Granted(lease, w)
        /\ UNCHANGED <<op, steps>> /\ attempt'.status = "RUNNING"
    BY <1>3, <1>t DEF ClaimHandover, AttemptContinued, Attempt
  <2>2. k.pc = "takeover"
    BY <1>3, <1>t, ClaimedIs DEF ClaimHandover
  <2>3. row.session # NoSession /\ row.abort # "PENDING"
    BY <2>1, <1>g DEF RowIsGood, RunningIsGood
  <2>4. RunningIsGood'
    BY <2>1, <1>g DEF RowIsGood, RunningIsGood
  <2>5. ModeIsGood'
    BY <2>1, <1>g DEF RowIsGood, ModeIsGood
  <2>6. QueuedIsGood' /\ WaitingIsGood' /\ EndIsGood'
    BY <2>1 DEF QueuedIsGood, WaitingIsGood, EndIsGood, TerminalStatus
  <2>7. Position(k, row', steps')
    BY <2>1, <2>2, <2>3 DEF Position, RunsStepPc, OnSessionPc, KeepsSession
  <2>8. HoldersAreGood'
    BY <2>1, <2>7, <1>o, OneHolder
  <2> QED
    BY <2>1, <2>4, <2>5, <2>6, <2>8, <1>g, PassesKept DEF RowIsGood
<1>4. CASE ClaimCancellation(w)
  <2>1. /\ row.status = "CANCEL_REQUESTED"
        /\ UNCHANGED <<row, attempt, op, steps, seen, cleaner>>
        /\ handover' = (handover /\ CancelLeaseLive)
    BY <1>4 DEF ClaimCancellation, CancellationClaimable
  <2>2. ~handover'
    <3>1. CancelLeaseLive => lease.cowner # NoWorker
      BY DEF CancelLeaseLive
    <3>2. handover => lease.cowner = NoWorker
      BY <1>g DEF RowIsGood, ModeIsGood
    <3> QED
      BY <2>1, <3>1, <3>2
  <2>3. ModeIsGood'
    BY <2>1, <2>2, <1>g DEF RowIsGood, ModeIsGood
  <2>4. QueuedIsGood' /\ RunningIsGood' /\ WaitingIsGood' /\ EndIsGood'
    BY <2>1 DEF QueuedIsGood, RunningIsGood, WaitingIsGood, EndIsGood,
                TerminalStatus
  <2> QED
    BY <2>1, <2>3, <2>4, <1>g, NoHolder, PassesKept DEF RowIsGood
<1> QED
  BY <1>1, <1>2, <1>3, <1>4 DEF Claim

\* No Step runs while the Execution waits in the queue.
LEMMA NoneRunsInQueue ==
    ASSUME RowIsGood, row.status = "QUEUED"
    PROVE  /\ \A s \in Seqs : steps[s] # "RUNNING"
           /\ NoneOpen([s \in Seqs |-> IF steps[s] = "PENDING" THEN "SKIPPED"
                                       ELSE steps[s]])
<1>1. \A s \in Seqs : steps[s] # "RUNNING"
  <2>1. CASE row.strategy # "FROM_FAILED_STEP"
    BY <2>1 DEF RowIsGood, QueuedIsGood, All
  <2>2. CASE row.strategy = "FROM_FAILED_STEP"
    <3>1. At(steps, row.from, "PENDING")
      BY <2>2 DEF RowIsGood, QueuedIsGood
    <3>2. \A s \in Seqs : steps[s] = "RUNNING" => s = row.from
      BY <3>1, OneRuns
    <3> QED
      BY <3>1, <3>2 DEF At
  <2> QED
    BY <2>1, <2>2
<1> QED
  BY <1>1 DEF NoneOpen

\* An Execution that ends without success, and keeps nothing for a retry from
\* the failed Step, has good rows if it is closed and a pending abort is left
\* to a pending cleanup.
LEMMA EndsPlainly ==
    ASSUME RowIsGood, row'.status \in {"FAILED", "CANCELLED"},
           row'.strategy # "FROM_FAILED_STEP",
           row.mode = "MULTI" => row'.strategy = "NOT_RETRYABLE",
           row'.mode = row.mode, row'.finReq = row.finReq,
           row'.claimed = row.claimed,
           ~row.claimed => /\ attempt'.status = "NONE" /\ row'.abort = row.abort
                           /\ row'.session = row.session
                           /\ row'.strategy = "NOT_RETRYABLE",
           op' \notin OpenOperation, NoneOpen(steps'), ~handover',
           attempt'.status # "WAITING",
           row'.abort = "PENDING" =>
             row'.session # NoSession /\ row'.cleanup = "PENDING"
    PROVE  RowIsGood' /\ HoldersAreGood'
<1>1. EndIsGood'
  BY DEF EndIsGood
<1>2. ModeIsGood'
  BY DEF RowIsGood, ModeIsGood
<1>3. QueuedIsGood' /\ RunningIsGood' /\ WaitingIsGood'
  BY DEF QueuedIsGood, RunningIsGood, WaitingIsGood
<1> QED
  BY <1>1, <1>2, <1>3, NoHolder DEF RowIsGood

\* The background passes keep the rows good, and know what they clean up.
LEMMA PassWrites ==
    ASSUME TypeOK, LifecycleIsGood, LeaseMatchesAttempt, NEW c \in Cleaners,
           StartPass(c) \/ PassStep(c) \/ Audit(c) \/ PassFault(c)
    PROVE  RowIsGood' /\ HoldersAreGood' /\ PassesAreGood'
<1>t. /\ row \in Row /\ steps \in [Seqs -> StepStatus]
      /\ row.mode \in {"SINGLE", "MULTI"} /\ lease \in Lease
      /\ attempt \in Attempt /\ cleaner \in [Cleaners -> Observation]
      /\ op \in OperationStatus
  BY DEF TypeOK, Row, OperationMode
<1>g. RowIsGood /\ PassesAreGood /\ HoldersAreGood
  BY DEF LifecycleIsGood
<1>p. (seen' = {} \/ (seen' = {c} /\ row'.cleanup = "PENDING")) => PassesAreGood'
  BY DEF PassesAreGood
<1>j. job' = job
  BY DEF StartPass, PassStep, Audit, PassFault, FailExpired,
         CleanupExpired, RetryUnresolved, ValidateObservation, DeleteObserved,
         RecordResult, AuditProbe, AuditLost, AuditCapture, AuditEnd,
         AuditTargetGone, FailWaiting, DeleteObservedFails, PassBreaks
<1>u. UNCHANGED <<row, lease, attempt, steps>> => HoldersAreGood'
  BY <1>g, <1>j DEF HoldersAreGood, HoldsRun, Holds
<1>1. CASE FailExpired(c)
  <2>1. /\ row'.status = "FAILED" /\ row'.strategy = RestartStrategy
        /\ row'.mode = row.mode /\ row'.finReq = row.finReq
        /\ row'.claimed = row.claimed /\ row'.abort = row.abort
        /\ row'.session = row.session /\ row'.cleanup = CleanupOfAbandoned
    BY <1>1, <1>t DEF FailExpired, Row
  <2>2. /\ row.status = "RUNNING" /\ ~handover /\ handover' = handover
        /\ steps' = EndedSteps(steps, "FAILED")
        /\ op' = EndedOperation(op, "FAILED")
        /\ seen' = IF row.session # NoSession THEN {c} ELSE {}
    BY <1>1 DEF FailExpired, Expired
  <2>3. row.claimed /\ (row.abort = "PENDING" => row.session # NoSession)
    BY <2>2, <1>g DEF RowIsGood, ModeIsGood, RunningIsGood
  <2>4. /\ op' \notin OpenOperation /\ NoneOpen(steps')
        /\ attempt'.status # "WAITING"
    BY <1>1, <2>2, <1>t, EndedStepsIs, EndedAttemptIs
       DEF FailExpired, EndedOperation, OpenOperation, LeaseMatchesAttempt
  <2>5. /\ RestartStrategy # "FROM_FAILED_STEP"
        /\ row.mode = "MULTI" => RestartStrategy = "NOT_RETRYABLE"
    BY DEF RestartStrategy, Mode
  <2>6. row.session # NoSession => row'.cleanup = "PENDING"
    BY <2>1 DEF CleanupOfAbandoned
  <2>7. RowIsGood' /\ HoldersAreGood'
    BY <2>1, <2>2, <2>3, <2>4, <2>5, <2>6, <1>g, EndsPlainly
  <2> QED
    BY <2>2, <2>6, <2>7, <1>p
<1>2. CASE CleanupExpired(c)
  <2>1. /\ row'.status = "FAILED" /\ row'.strategy = "NOT_RETRYABLE"
        /\ row'.mode = row.mode /\ row'.finReq = row.finReq
        /\ row'.claimed = row.claimed /\ row'.abort = row.abort
        /\ row'.session = row.session /\ row'.cleanup = "PENDING"
    BY <1>2, <1>t DEF CleanupExpired, Row
  <2>2. /\ row.status \in {"FAILED", "QUEUED"} /\ row.session # NoSession
        /\ handover' = handover /\ seen' = {c} /\ attempt' = attempt
        /\ row.strategy = "FROM_FAILED_STEP"
        /\ op' = IF row.status = "QUEUED" THEN EndedOperation(op, "FAILED")
                 ELSE op
        /\ steps' = [s \in Seqs |->
                       IF row.status = "QUEUED" /\ steps[s] = "PENDING"
                       THEN "SKIPPED" ELSE steps[s]]
    BY <1>2 DEF CleanupExpired, RetentionOver
  <2>3. ~handover /\ row.claimed /\ attempt.status # "WAITING"
    BY <2>2, <1>g, <1>t DEF RowIsGood, ModeIsGood
  <2>4. op' \notin OpenOperation /\ NoneOpen(steps')
    <3>1. CASE row.status = "QUEUED"
      BY <2>2, <3>1, <1>g, NoneRunsInQueue
         DEF EndedOperation, OpenOperation, NoneOpen
    <3>2. CASE row.status = "FAILED"
      BY <2>2, <3>2, <1>g DEF RowIsGood, EndIsGood, TerminalStatus, NoneOpen
    <3> QED
      BY <2>2, <3>1, <3>2
  <2>5. RowIsGood' /\ HoldersAreGood'
    BY <2>1, <2>2, <2>3, <2>4, <1>g, EndsPlainly
  <2> QED
    BY <2>1, <2>2, <2>5, <1>p
<1>3. CASE RetryUnresolved(c)
  <2>1. /\ row'.status = row.status /\ row'.strategy = row.strategy
        /\ row'.mode = row.mode /\ row'.finReq = row.finReq
        /\ row'.claimed = row.claimed /\ row'.abort = row.abort
        /\ row'.session = row.session /\ row'.cleanup = "PENDING"
    BY <1>3, <1>t DEF RetryUnresolved, Row
  <2>2. /\ row.status \in {"FAILED", "CANCELLED"} /\ row.session # NoSession
        /\ row.cleanup # "NOT_REQUIRED" /\ seen' = {c}
        /\ UNCHANGED <<attempt, op, steps, handover>>
    BY <1>3 DEF RetryUnresolved, SessionUnresolved, UnresolvedCleanup
  <2>3. /\ ~handover /\ op \notin OpenOperation /\ NoneOpen(steps)
        /\ row.status = "FAILED" => row.strategy # "FROM_FAILED_STEP"
        /\ row.claimed /\ attempt.status # "WAITING"
    BY <2>2, <1>g DEF RowIsGood, ModeIsGood, EndIsGood, TerminalStatus
  <2>4. EndIsGood'
    BY <2>1, <2>2, <2>3 DEF EndIsGood
  <2>5. ModeIsGood'
    BY <2>1, <2>2, <2>3, <1>g DEF RowIsGood, ModeIsGood
  <2>6. QueuedIsGood' /\ RunningIsGood' /\ WaitingIsGood'
    BY <2>1, <2>2 DEF QueuedIsGood, RunningIsGood, WaitingIsGood
  <2>7. HoldersAreGood'
    BY <2>1, <2>2, NoHolder
  <2> QED
    BY <2>1, <2>2, <2>4, <2>5, <2>6, <2>7, <1>p DEF RowIsGood
<1>4. CASE RecordResult(c)
  <2>1. CASE Current(c) /\ row.status \in {"FAILED", "CANCELLED"}
    <3> DEFINE out == cleaner[c].out
    <3>1. /\ row'.status = row.status /\ row'.strategy = row.strategy
          /\ row'.mode = row.mode /\ row'.finReq = row.finReq
          /\ row'.claimed = row.claimed /\ row'.cleanup = out
          /\ row'.abort = ResolvedAbort(row.abort, out)
          /\ row'.session = SessionAfter(row.session, out)
      BY <1>4, <2>1, <1>t DEF RecordResult, Row
    <3>2. /\ UNCHANGED <<attempt, op, steps, handover>> /\ seen' = {}
          /\ row.cleanup = "PENDING"
      BY <1>4, <2>1, <1>g DEF RecordResult, Current, PassesAreGood
    <3>3. /\ ~handover /\ op \notin OpenOperation /\ NoneOpen(steps)
          /\ row.status = "FAILED" => row.strategy # "FROM_FAILED_STEP"
          /\ attempt.status # "WAITING"
      BY <2>1, <3>2, <1>g DEF RowIsGood, ModeIsGood, EndIsGood, TerminalStatus
    <3>4. /\ row'.abort # "PENDING"
          /\ row.abort = "NOT_REQUIRED" => row'.abort = "NOT_REQUIRED"
          /\ row.session = NoSession => row'.session = NoSession
      BY <3>1 DEF ResolvedAbort, SessionAfter
    <3>5. EndIsGood'
      BY <2>1, <3>1, <3>2, <3>3, <3>4 DEF EndIsGood
    <3>6. ModeIsGood'
      BY <2>1, <3>1, <3>2, <3>3, <3>4, <1>g DEF RowIsGood, ModeIsGood
    <3>7. QueuedIsGood' /\ RunningIsGood' /\ WaitingIsGood'
      BY <2>1, <3>1 DEF QueuedIsGood, RunningIsGood, WaitingIsGood
    <3>8. HoldersAreGood'
      BY <2>1, <3>1, NoHolder
    <3> QED
      BY <3>2, <3>5, <3>6, <3>7, <3>8, <1>p DEF RowIsGood
  <2>2. CASE ~(Current(c) /\ row.status \in {"FAILED", "CANCELLED"})
    <3>1. UNCHANGED db /\ PassEnds(c)
      BY <1>4, <2>2 DEF RecordResult, db
    <3>2. PassesAreGood'
      BY <3>1, <1>g, <1>t DEF PassesAreGood, PassEnds, NoObservation, db
    <3> QED
      BY <3>1, <3>2, <1>g, <1>u, RowsKept DEF db
  <2> QED
    BY <2>1, <2>2
<1>5. CASE \/ ValidateObservation(c) \/ DeleteObserved(c) \/ AuditProbe(c)
           \/ PassFault(c)
  <2>1. UNCHANGED db
    BY <1>5 DEF ValidateObservation, DeleteObserved, AuditProbe, PassFault,
                DeleteObservedFails, PassBreaks
  <2>2. /\ \A d \in Cleaners : d # c => cleaner'[d] = cleaner[d]
        /\ cleaner'[c].pc \in {"validate", "delete", "record"} =>
             cleaner[c].pc \in {"validate", "delete", "record"}
    BY <1>5, <1>t
       DEF ValidateObservation, DeleteObserved, AuditProbe, PassFault,
           DeleteObservedFails, PassBreaks, PassEnds, NoObservation, Observation
  <2>3. PassesAreGood'
    BY <2>1, <2>2, <1>g DEF PassesAreGood, db
  <2> QED
    BY <2>1, <2>3, <1>g, <1>u, RowsKept DEF db
<1>6. CASE AuditCapture(c)
  <2>1. /\ UNCHANGED <<row, lease, attempt, op, steps, handover>>
        /\ row.status = "WAITING_FOR_OPERATION"
    BY <1>6 DEF AuditCapture
  <2>2. RowIsGood'
    BY <2>1, <1>g
       DEF RowIsGood, QueuedIsGood, RunningIsGood, WaitingIsGood, EndIsGood,
           ModeIsGood
  <2> QED
    BY <2>1, <2>2, <1>u DEF PassesAreGood
<1>w. ASSUME NEW by, NEW lost \in BOOLEAN, CurrentWaiting(c),
             FailWaiting(c, by, lost)
      PROVE  RowIsGood' /\ HoldersAreGood' /\ PassesAreGood'
  <2>1. PICK cleanup, session :
          row' = [row EXCEPT
                 !.status = "FAILED", !.strategy = "NOT_RETRYABLE",
                 !.from = 0, !.retained = "NONE", !.finBy = by,
                 !.cleanup = cleanup, !.session = session]
    BY <1>w DEF FailWaiting
  <2>2. /\ row'.status = "FAILED" /\ row'.strategy = "NOT_RETRYABLE"
        /\ row'.mode = row.mode /\ row'.finReq = row.finReq
        /\ row'.claimed = row.claimed /\ row'.abort = row.abort
    BY <2>1, <1>t DEF Row
  <2>3. /\ UNCHANGED <<op, steps, handover>>
        /\ row.status = "WAITING_FOR_OPERATION"
        /\ seen' = {} \/ (seen' = {c} /\ row'.cleanup = "PENDING")
        /\ attempt'.status # "WAITING"
    BY <1>w, <1>t, EndedAttemptIs DEF FailWaiting, CurrentWaiting
  <2>4. /\ ~handover /\ op \notin OpenOperation /\ NoneOpen(steps)
        /\ row.abort # "PENDING" /\ row.claimed
    BY <2>3, <1>g DEF RowIsGood, ModeIsGood, WaitingIsGood
  <2>5. RowIsGood' /\ HoldersAreGood'
    BY <2>2, <2>3, <2>4, <1>g, EndsPlainly
  <2> QED
    BY <2>3, <2>5, <1>p
<1>7. CASE AuditLost(c)
  <2>1. CASE CurrentWaiting(c)
    BY <1>7, <2>1, <1>w DEF AuditLost
  <2>2. CASE ~CurrentWaiting(c)
    <3>1. UNCHANGED db /\ PassEnds(c)
      BY <1>7, <2>2 DEF AuditLost
    <3>2. PassesAreGood'
      BY <3>1, <1>g, <1>t DEF PassesAreGood, PassEnds, NoObservation, db
    <3> QED
      BY <3>1, <3>2, <1>g, <1>u, RowsKept DEF db
  <2> QED
    BY <2>1, <2>2
<1>8. ASSUME NEW by, AuditEnd(c, by)
      PROVE  RowIsGood' /\ HoldersAreGood' /\ PassesAreGood'
  <2>1. CASE op # "SUCCEEDED"
    BY <1>8, <2>1, <1>w DEF AuditEnd
  <2>2. CASE op = "SUCCEEDED"
    <3>1. /\ row'.status = "FINALIZING" /\ row'.mode = row.mode
          /\ row'.finReq = TRUE /\ row'.strategy = row.strategy
          /\ row'.claimed = row.claimed /\ row'.abort = row.abort
          /\ row'.session = row.session
      BY <1>8, <2>2, <1>t DEF AuditEnd, Row
    <3>2. /\ row.status = "WAITING_FOR_OPERATION" /\ seen' = {}
          /\ UNCHANGED <<op, steps, handover, attempt>>
      BY <1>8, <2>2 DEF AuditEnd, CurrentWaiting
    <3>3. ~handover /\ row.mode = "MULTI"
      BY <3>2, <1>g, <1>t DEF RowIsGood, ModeIsGood
    <3>4. WaitingIsGood' /\ ModeIsGood'
      BY <3>1, <3>2, <3>3, <2>2, <1>g DEF RowIsGood, WaitingIsGood, ModeIsGood
    <3>5. QueuedIsGood' /\ RunningIsGood' /\ EndIsGood'
      BY <3>1 DEF QueuedIsGood, RunningIsGood, EndIsGood, TerminalStatus
    <3> QED
      BY <3>1, <3>2, <3>4, <3>5, <1>p, NoHolder DEF RowIsGood
  <2> QED
    BY <2>1, <2>2
<1>9. CASE AuditTargetGone(c)
  BY <1>9, <1>w DEF AuditTargetGone
<1> QED
  BY <1>1, <1>2, <1>3, <1>4, <1>5, <1>6, <1>7, <1>8, <1>9
     DEF StartPass, PassStep, Audit

\* So do the deadlines, the expiry of leases and the faults of the environment.
LEMMA EnvironmentWrites ==
    ASSUME TypeOK, LifecycleIsGood, LeaseMatchesAttempt, TokensUnique,
           HandOverExpired \/ Deadlines \/ Expiry \/ Environment
    PROVE  RowIsGood' /\ HoldersAreGood' /\ PassesAreGood'
<1>t. /\ row \in Row /\ steps \in [Seqs -> StepStatus]
      /\ lease \in Lease /\ attempt \in Attempt
  BY DEF TypeOK, Row, OperationMode
<1>g. RowIsGood /\ PassesAreGood /\ HoldersAreGood
  BY DEF LifecycleIsGood
<1>1. CASE HandOverExpired
  <2>1. /\ lease'.owner = NoWorker /\ lease'.cowner = lease.cowner
        /\ handover' = TRUE /\ seen' = {} /\ attempt'.status = attempt.status
        /\ UNCHANGED <<row, op, steps>> /\ row.status = "RUNNING"
        /\ row.session # NoSession /\ row.abort # "PENDING"
    BY <1>1, <1>t DEF HandOverExpired, Expired, Transferable, BeginHandover,
                      Released, Lease, Attempt
  <2>2. lease.cowner = NoWorker
    BY <2>1 DEF TokensUnique
  <2>3. RunningIsGood'
    BY <2>1, <1>g DEF RowIsGood, RunningIsGood
  <2>4. ModeIsGood'
    BY <2>1, <2>2, <1>g DEF RowIsGood, ModeIsGood
  <2>5. QueuedIsGood' /\ WaitingIsGood' /\ EndIsGood'
    BY <2>1 DEF QueuedIsGood, WaitingIsGood, EndIsGood, TerminalStatus
  <2> QED
    BY <2>1, <2>3, <2>4, <2>5, <1>g, NoHolder, PassesKept DEF RowIsGood
<1>2. CASE FailQueueTimeout
  <2>1. /\ row'.status = "FAILED" /\ row'.strategy = "NOT_RETRYABLE"
        /\ row'.mode = row.mode /\ row'.finReq = row.finReq
        /\ row'.claimed = row.claimed /\ row'.abort = row.abort
        /\ row'.session = row.session
    BY <1>2, <1>t DEF FailQueueTimeout, Row
  <2>2. /\ row.status = "QUEUED" /\ ~row.claimed /\ seen' = {}
        /\ op' = EndedOperation(op, "FAILED")
        /\ UNCHANGED <<attempt, handover>>
        /\ steps' = [s \in Seqs |-> IF steps[s] = "PENDING" THEN "SKIPPED"
                                    ELSE steps[s]]
    BY <1>2 DEF FailQueueTimeout
  <2>3. ~handover /\ row.abort # "PENDING" /\ attempt.status = "NONE"
    BY <2>2, <1>g DEF RowIsGood, ModeIsGood
  <2>4. op' \notin OpenOperation /\ NoneOpen(steps')
    BY <2>2, <1>g, NoneRunsInQueue DEF EndedOperation, OpenOperation
  <2>5. RowIsGood' /\ HoldersAreGood'
    BY <2>1, <2>2, <2>3, <2>4, <1>g, EndsPlainly
  <2> QED
    BY <2>2, <2>5, <1>g, PassesKept
<1>3. CASE RequestExpiredCancellation
  <2>1. /\ row'.status = "CANCEL_REQUESTED"
        /\ row'.mode = row.mode /\ row'.finReq = row.finReq
        /\ row'.strategy = row.strategy /\ row'.claimed = row.claimed
        /\ row'.abort = row.abort /\ row'.session = row.session
        /\ UNCHANGED <<lease, attempt, handover>> /\ seen' = {}
    BY <1>3, <1>t DEF RequestExpiredCancellation, Row
  <2> QED
    BY <2>1, <1>g, CancelRequested, PassesKept
<1>4. CASE RetentionPasses
  <2>1. /\ row'.status = row.status /\ row'.strategy = row.strategy
        /\ row'.mode = row.mode /\ row'.finReq = row.finReq
        /\ row'.claimed = row.claimed /\ row'.abort = row.abort
        /\ row'.session = row.session /\ row'.cleanup = row.cleanup
        /\ row'.from = row.from /\ row'.retries = row.retries
    BY <1>4, <1>t DEF RetentionPasses, Row
  <2>2. UNCHANGED <<lease, attempt, op, steps, handover, seen, job, cleaner>>
    BY <1>4 DEF RetentionPasses
  <2>3. QueuedIsGood' /\ RunningIsGood' /\ WaitingIsGood'
    BY <2>1, <2>2, <1>g
       DEF RowIsGood, QueuedIsGood, RunningIsGood, WaitingIsGood
  <2>4. EndIsGood' /\ ModeIsGood'
    BY <2>1, <2>2, <1>g DEF RowIsGood, EndIsGood, ModeIsGood
  <2>5. HoldersAreGood'
    <3> SUFFICES ASSUME NEW v \in Workers, HoldsRun(v)'
                 PROVE  Position(job'[v], row', steps')
      BY DEF HoldersAreGood
    <3>1. Position(job[v], row, steps)
      BY <2>1, <2>2, <1>g DEF HoldersAreGood, HoldsRun, Holds
    <3> QED
      BY <2>1, <2>2, <3>1 DEF Position
  <2> QED
    BY <2>1, <2>2, <2>3, <2>4, <2>5, <1>g, PassesKept DEF RowIsGood
<1>5. CASE Expiry \/ LeaseStalls \/ CancellationLeaseStalls
  <2>1. /\ UNCHANGED <<row, attempt, op, steps, handover, seen, job, cleaner>>
        /\ lease'.owner = lease.owner /\ lease'.cowner = lease.cowner
        /\ \/ lease'.live = FALSE
           \/ lease.cowner # NoWorker
    BY <1>5, <1>t
       DEF Expiry, LeaseExpires, CancellationLeaseExpires, LeaseStalls,
           CancellationLeaseStalls, CancelLeaseLive, Lease
  <2>2. \/ lease'.live = FALSE
        \/ row'.status # "RUNNING"
    BY <2>1 DEF TokensUnique
  <2>3. RowIsGood'
    BY <2>1, <1>g
       DEF RowIsGood, QueuedIsGood, RunningIsGood, WaitingIsGood, EndIsGood,
           ModeIsGood
  <2> QED
    BY <2>1, <2>2, <2>3, <1>g, NoHolder, PassesKept
<1>6. CASE ClaimUnavailable
  <2>1. /\ row'.status = "FAILED" /\ row'.strategy = "FROM_START"
        /\ row'.mode = row.mode /\ row'.finReq = row.finReq
        /\ row'.claimed = row.claimed /\ row'.abort = row.abort
        /\ row'.session = row.session
    BY <1>6, <1>t DEF ClaimUnavailable, Row
  <2>2. /\ row.status = "QUEUED" /\ row.mode = "SINGLE" /\ seen' = {}
        /\ op' = EndedOperation(op, "FAILED") /\ row.session # NoSession
        /\ UNCHANGED <<attempt, handover>>
        /\ steps' = [s \in Seqs |-> IF steps[s] = "PENDING" THEN "SKIPPED"
                                    ELSE steps[s]]
    BY <1>6 DEF ClaimUnavailable, IsResume, Mode
  <2>3. /\ ~handover /\ row.abort # "PENDING" /\ row.claimed
        /\ attempt.status # "WAITING"
    BY <2>2, <1>g DEF RowIsGood, ModeIsGood, QueuedIsGood
  <2>4. op' \notin OpenOperation /\ NoneOpen(steps')
    BY <2>2, <1>g, NoneRunsInQueue DEF EndedOperation, OpenOperation
  <2>5. RowIsGood' /\ HoldersAreGood'
    BY <2>1, <2>2, <2>3, <2>4, <1>g, EndsPlainly
  <2> QED
    BY <2>2, <2>5, <1>g, PassesKept
<1>7. CASE \E k \in kernels : KernelDies(k) \/ KernelRestarts(k)
  <2>1. UNCHANGED <<db, job, cleaner>>
    BY <1>7 DEF KernelDies, KernelRestarts
  <2>2. HoldersAreGood'
    BY <2>1, <1>g DEF HoldersAreGood, HoldsRun, Holds, db
  <2> QED
    BY <2>1, <2>2, <1>g, RowsKept, PassesKept DEF db
<1> QED
  BY <1>1, <1>2, <1>3, <1>4, <1>5, <1>6, <1>7
     DEF Deadlines, Expiry, Environment

\* The lifecycle starts good ...
LEMMA LifecycleInit == Init => LifecycleIsGood
<1> SUFFICES ASSUME Init PROVE LifecycleIsGood
  OBVIOUS
<1>1. /\ row.status = "QUEUED" /\ row.strategy = "NOT_RETRYABLE"
      /\ row.abort = "NOT_REQUIRED" /\ row.session = NoSession
      /\ row.finReq = FALSE /\ row.claimed = FALSE
      /\ row.mode \in {"SINGLE", "MULTI"}
      /\ attempt.status = "NONE" /\ op = "QUEUED" /\ handover = FALSE
      /\ seen = {} /\ All(steps, "PENDING")
      /\ \A w \in Workers : job[w].pc = "idle"
  BY DEF Init, Submitted, NoAttempt, OperationMode, All, Idle
<1>2. RowIsGood
  BY <1>1 DEF RowIsGood, QueuedIsGood, RunningIsGood, WaitingIsGood, EndIsGood,
              ModeIsGood, TerminalStatus
<1>3. JobsAreGood
  BY <1>1, UndecidedJob DEF JobsAreGood
<1>4. HoldersAreGood /\ PassesAreGood
  BY <1>1 DEF HoldersAreGood, PassesAreGood, HoldsRun, Holds
<1> QED
  BY <1>2, <1>3, <1>4 DEF LifecycleIsGood

\* ... and every step keeps it good.
LEMMA LifecycleStep ==
    ASSUME TypeOK, TypeOK', LeaseMatchesAttempt, TokensUnique,
           LifecycleIsGood, [Next]_vars
    PROVE  LifecycleIsGood'
<1>j. JobsAreGood'
  BY JobsStep DEF LifecycleIsGood
<1> SUFFICES RowIsGood' /\ HoldersAreGood' /\ PassesAreGood'
  BY <1>j DEF LifecycleIsGood
<1>1. CASE Command
  BY <1>1, CommandWrites
<1>2. ASSUME NEW w \in Workers, Claim(w)
      PROVE  RowIsGood' /\ HoldersAreGood' /\ PassesAreGood'
  BY <1>2, ClaimWrites
<1>3. ASSUME NEW w \in Workers,
             JobStep(w) \/ JobFault(w) \/ DispatchCancellation(w)
      PROVE  RowIsGood' /\ HoldersAreGood' /\ PassesAreGood'
  <2>1. CASE LocalStep(w)
    <3>1. UNCHANGED db /\ HoldersAreGood'
      BY <2>1, LocalKeepsRows, LocalHolderStep
    <3>2. cleaner' = cleaner
      BY <2>1, Zenon
         DEF LocalStep, Preflight, StartSession, KeepSession, LoadRun,
             ExecuteSucceeds, ExecuteToolError, ExecuteHitsLimit,
             ExecuteLosesSession, PublishSuccess, RecordFailureEvidence,
             AbortIdle, AbortMissing, AbortDeletes, AssertLease,
             ReleaseSession, StopSession, StopSucceeds, LoseLease,
             HandOffCancelled, CancelStop, JobFault, PreflightUnreachable,
             ExecuteBreaks, AbortFails, RunBreaks, StopFails, CancelStopFails,
             Shutdown, Crash, DispatchCancellation
    <3> QED
      BY <3>1, <3>2, RowsKept, PassesKept DEF LifecycleIsGood, db
  <2>2. CASE \/ MarkStarted(w) \/ MarkSucceeded(w) \/ MarkFailed(w)
             \/ AbortMark(w) \/ SkipStepsAfter(w)
    BY <2>2, StepWrites
  <2>3. CASE RecordRuntimeSession(w) \/ AbortBegin(w) \/ AbortRecord(w)
    BY <2>3, ColumnWrites
  <2>4. CASE \/ DeferRetainedRetry(w) \/ CompleteOperation(w) \/ Finalize(w)
             \/ ReleaseForHandover(w)
    BY <2>4, RunEndWrites
  <2>5. CASE ReleaseForCancellation(w) \/ CancelFinalize(w)
    BY <2>5, CancellationWrites
  <2> QED
    BY <1>3, <2>1, <2>2, <2>3, <2>4, <2>5 DEF JobStep, LocalStep
<1>4. ASSUME NEW c \in Cleaners,
             StartPass(c) \/ PassStep(c) \/ Audit(c) \/ PassFault(c)
      PROVE  RowIsGood' /\ HoldersAreGood' /\ PassesAreGood'
  BY <1>4, PassWrites
<1>5. CASE HandOverExpired \/ Deadlines \/ Expiry \/ Environment
  BY <1>5, EnvironmentWrites
<1>6. CASE UNCHANGED vars
  <2>1. UNCHANGED <<db, job, cleaner>>
    BY <1>6 DEF vars
  <2>2. HoldersAreGood'
    BY <2>1 DEF LifecycleIsGood, HoldersAreGood, HoldsRun, Holds, db
  <2> QED
    BY <2>1, <2>2, RowsKept, PassesKept DEF LifecycleIsGood, db
<1> QED
  BY <1>1, <1>2, <1>3, <1>4, <1>5, <1>6 DEF Next

\* The rows, the jobs and the passes always know of each other what the
\* inductive invariant says.
LEMMA LifecycleGood == Spec => []LifecycleIsGood
<1>1. TypeOK /\ TypeOK' /\ LeaseMatchesAttempt /\ TokensUnique
        /\ LifecycleIsGood /\ [Next]_vars => LifecycleIsGood'
  BY LifecycleStep
<1> QED
  BY <1>1, LifecycleInit, TypeCorrect, LeaseAgreement, TokenUniqueness, PTL
     DEF Spec

\* An Execution that has ended has no lease, Attempt, Operation, Step, released
\* Step or pending abort left open that no pending cleanup will resolve, and
\* succeeded only if every part of it did: whatever ended it, a Worker, a
\* cancellation, a recovery pass or a deadline, and whoever raced with it.
THEOREM EndLeavesNothingOpen == Spec => []EndedIsClosed
<1>1. TypeOK /\ LeaseMatchesAttempt /\ TokensUnique /\ LifecycleIsGood
        => EndedIsClosed
  <2> SUFFICES ASSUME TypeOK, LeaseMatchesAttempt, TokensUnique, RowIsGood,
                      row.status \in TerminalStatus
               PROVE  EndedIsClosed
    BY DEF LifecycleIsGood, EndedIsClosed
  <2>1. lease.owner = NoWorker /\ lease.cowner = NoWorker
    BY DEF LeaseMatchesAttempt, TokensUnique, TerminalStatus
  <2>2. attempt.status \notin ActiveAttempt
    BY DEF LeaseMatchesAttempt, RowIsGood, EndIsGood, TerminalStatus,
           ActiveAttempt
  <2> QED
    BY <2>1, <2>2 DEF EndedIsClosed, RowIsGood, EndIsGood, ModeIsGood, NoneOpen,
                      All, TerminalStatus
<1> QED
  BY <1>1, LifecycleGood, TypeCorrect, LeaseAgreement, TokenUniqueness, PTL

----------------------------------------------------------------------------
(* To its caller, the service is the sequential run of ExecutionContract.   *)

\* What the caller sees of a step
ContractStep == [Contract!ContractNext]_(Contract!contractVars)

\* A step the caller cannot see.
LEMMA Unseen ==
    ASSUME row'.status = row.status, steps' = steps
    PROVE  ContractStep
BY DEF ContractStep, Contract!contractVars

\* The start and the end of a Step, and giving up the rest.
LEMMA SeenStep ==
    ASSUME row.status = "RUNNING", row'.status = row.status, NEW n,
           \/ /\ At(steps, n, "PENDING")
              /\ steps' = [steps EXCEPT ![n] = "RUNNING"]
           \/ /\ At(steps, n, "RUNNING")
              /\ \/ steps' = [steps EXCEPT ![n] = "SUCCEEDED"]
                 \/ steps' = [steps EXCEPT ![n] = "FAILED"]
           \/ /\ At(steps, n, "FAILED")
              /\ steps' = [s \in Seqs |->
                             IF s > n /\ steps[s] = "PENDING" THEN "SKIPPED"
                             ELSE steps[s]]
    PROVE  ContractStep
<1>s. n \in Contract!Seqs /\ Contract!Seqs = Seqs
  BY DEF At, Seqs, Contract!Seqs
<1>1. CASE /\ At(steps, n, "PENDING")
           /\ steps' = [steps EXCEPT ![n] = "RUNNING"]
  <2>1. \A t \in Seqs : steps[t] # "RUNNING"
    BY <1>1, OneRuns DEF At
  <2>2. Contract!StepStarts(n)
    BY <1>1, <1>s, <2>1 DEF Contract!StepStarts, At
  <2> QED
    BY <2>2, <1>s DEF ContractStep, Contract!ContractNext
<1>2. CASE /\ At(steps, n, "RUNNING")
           /\ \/ steps' = [steps EXCEPT ![n] = "SUCCEEDED"]
              \/ steps' = [steps EXCEPT ![n] = "FAILED"]
  <2>1. Contract!StepEnds(n, "SUCCEEDED") \/ Contract!StepEnds(n, "FAILED")
    BY <1>2, <1>s DEF Contract!StepEnds, At
  <2> QED
    BY <2>1, <1>s DEF ContractStep, Contract!ContractNext
<1>3. CASE /\ At(steps, n, "FAILED")
           /\ steps' = [s \in Seqs |->
                          IF s > n /\ steps[s] = "PENDING" THEN "SKIPPED"
                          ELSE steps[s]]
  <2>1. steps' = [t \in Seqs |-> IF t > n THEN "SKIPPED" ELSE steps[t]]
    BY <1>3 DEF At
  <2>2. Contract!RestSkipped
    BY <1>3, <1>s, <2>1 DEF Contract!RestSkipped, At
  <2> QED
    BY <2>2 DEF ContractStep, Contract!ContractNext
<1> QED
  BY <1>1, <1>2, <1>3

\* A move of the Execution that gives it no outcome.
LEMMA SeenMove ==
    ASSUME steps' = steps,
           \/ /\ row.status \in {"QUEUED", "FINALIZING"}
              /\ row'.status = "RUNNING"
           \/ /\ row.status \in {"QUEUED", "RUNNING", "WAITING_FOR_OPERATION",
                                 "FINALIZING"}
              /\ row'.status = "CANCEL_REQUESTED"
           \/ /\ row.status = "RUNNING" /\ row'.status = "QUEUED"
              /\ \A s \in Seqs : steps[s] \in {"SUCCEEDED", "PENDING"}
           \/ /\ row.status = "RUNNING" /\ row'.status = "WAITING_FOR_OPERATION"
              /\ NoneOpen(steps)
           \/ /\ row.status = "WAITING_FOR_OPERATION"
              /\ row'.status = "FINALIZING" /\ All(steps, "SUCCEEDED")
    PROVE  ContractStep
<1>s. Contract!Seqs = Seqs /\ row'.status \in Contract!ExecutionStatus
      /\ row.status \in Contract!ExecutionStatus
  BY DEF Seqs, Contract!Seqs, Contract!ExecutionStatus
<1>1. row'.status \in Contract!EXECUTION_TRANSITIONS[row.status]
                        \ Contract!TerminalStatus
  BY <1>s DEF Contract!EXECUTION_TRANSITIONS, Contract!TerminalStatus
<1>2. Contract!Moves(row'.status)
  BY <1>s, <1>1 DEF Contract!Moves, Contract!Closed, Contract!AllSucceeded,
                    NoneOpen, All
<1> QED
  BY <1>s, <1>2 DEF ContractStep, Contract!ContractNext

\* The two ways to end.
LEMMA SeenEnd ==
    ASSUME \/ /\ row.status = "RUNNING" /\ row'.status = "SUCCEEDED"
              /\ All(steps, "SUCCEEDED") /\ steps' = steps
           \/ /\ \/ /\ row.status \in {"QUEUED", "RUNNING",
                                       "WAITING_FOR_OPERATION",
                                       "CANCEL_REQUESTED"}
                    /\ row'.status = "FAILED"
                 \/ /\ row.status = "CANCEL_REQUESTED"
                    /\ row'.status = "CANCELLED"
              /\ steps' = EndedSteps(steps, row'.status)
    PROVE  ContractStep
<1>s. Contract!Seqs = Seqs /\ row.status \in Contract!ExecutionStatus
  BY DEF Seqs, Contract!Seqs, Contract!ExecutionStatus
<1>1. CASE /\ row.status = "RUNNING" /\ row'.status = "SUCCEEDED"
           /\ All(steps, "SUCCEEDED") /\ steps' = steps
  <2>1. Contract!Succeeds
    BY <1>s, <1>1 DEF Contract!Succeeds, Contract!AllSucceeded, All
  <2> QED
    BY <2>1 DEF ContractStep, Contract!ContractNext
<1>2. CASE /\ \/ /\ row.status \in {"QUEUED", "RUNNING",
                                    "WAITING_FOR_OPERATION",
                                    "CANCEL_REQUESTED"}
                 /\ row'.status = "FAILED"
              \/ /\ row.status = "CANCEL_REQUESTED"
                 /\ row'.status = "CANCELLED"
           /\ steps' = EndedSteps(steps, row'.status)
  <2>1. row'.status \in Contract!EXECUTION_TRANSITIONS[row.status]
    BY <1>s, <1>2 DEF Contract!EXECUTION_TRANSITIONS
  <2>2. steps' = Contract!EndedSteps(steps, row'.status)
    BY <1>s, <1>2 DEF EndedSteps, Contract!EndedSteps
  <2>3. Contract!EndsBadly(row'.status)
    BY <2>1, <2>2 DEF Contract!EndsBadly
  <2>4. row'.status \in {"FAILED", "CANCELLED"}
    BY <1>2
  <2> QED
    BY <2>3, <2>4 DEF ContractStep, Contract!ContractNext
<1> QED
  BY <1>1, <1>2

\* A retry, and the next Operation.
LEMMA SeenRestart ==
    ASSUME row'.status = "QUEUED", NEW from \in Seqs,
           \/ /\ row.status = "FAILED"
              /\ \A s \in Seqs : s < from => steps[s] = "SUCCEEDED"
              /\ steps' = [s \in Seqs |-> IF s < from THEN steps[s]
                                          ELSE "PENDING"]
           \/ /\ row.status = "WAITING_FOR_OPERATION"
              /\ steps' = [s \in Seqs |-> "PENDING"]
    PROVE  ContractStep
<1>s. Contract!Seqs = Seqs
  BY DEF Seqs, Contract!Seqs
<1>1. Contract!Retried(from) \/ Contract!NextOperation
  BY <1>s DEF Contract!Retried, Contract!NextOperation
<1> QED
  BY <1>s, <1>1 DEF ContractStep, Contract!ContractNext

\* Ending the Steps of an Execution that has none running, or none open.
LEMMA EndedStepsCases ==
    ASSUME NEW ss \in [Seqs -> StepStatus], NEW ending
    PROVE  /\ NoneOpen(ss) => EndedSteps(ss, ending) = ss
           /\ (\A s \in Seqs : ss[s] # "RUNNING") =>
                EndedSteps(ss, ending) =
                  [s \in Seqs |-> IF ss[s] = "PENDING" THEN "SKIPPED" ELSE ss[s]]
BY DEF EndedSteps, NoneOpen

\* Every step of the service is a step of the contract, or the caller does not
\* see it.
LEMMA ContractFollowed ==
    ASSUME TypeOK, LifecycleIsGood, [Next]_vars
    PROVE  ContractStep
<1>t. /\ row \in Row /\ steps \in [Seqs -> StepStatus]
      /\ job \in [Workers -> Job]
  BY DEF TypeOK
<1>g. RowIsGood /\ JobsAreGood /\ HoldersAreGood
  BY DEF LifecycleIsGood
<1>u. UNCHANGED db => ContractStep
  BY Unseen DEF db
<1>1. CASE Command
  <2>1. CASE RequestCancel
    <3>1. /\ row.status \in {"QUEUED", "RUNNING", "WAITING_FOR_OPERATION",
                             "FINALIZING"}
          /\ row'.status = "CANCEL_REQUESTED" /\ steps' = steps
      BY <2>1, <1>t DEF RequestCancel, Row
    <3> QED
      BY <3>1, SeenMove
  <2>2. CASE RequestRetry
    <3>1. PICK from, retained, cleanup :
            /\ from = IF row.strategy = "FROM_START" THEN 1 ELSE row.from
            /\ row' = [row EXCEPT
                    !.status = "QUEUED", !.from = from, !.retained = retained,
                    !.cleanup = cleanup, !.retries = @ + 1]
            /\ steps' = [s \in Seqs |-> IF s < from THEN steps[s]
                                        ELSE "PENDING"]
      BY <2>2 DEF RequestRetry
    <3>2. row'.status = "QUEUED"
      BY <3>1, <1>t DEF Row
    <3>3. /\ row.status = "FAILED"
          /\ row.strategy \in {"FROM_START", "FROM_FAILED_STEP"}
      BY <2>2, <1>t DEF RequestRetry, Row, RetryStrategy
    <3>4. /\ from \in Seqs
          /\ \A s \in Seqs : s < from => steps[s] = "SUCCEEDED"
      <4>1. CASE row.strategy = "FROM_START"
        BY <3>1, <4>1, StepsAssumption DEF Seqs
      <4>2. CASE row.strategy = "FROM_FAILED_STEP"
        BY <3>1, <3>3, <4>2, <1>g DEF RowIsGood, EndIsGood, TerminalStatus
      <4> QED
        BY <3>3, <4>1, <4>2
    <3> QED
      BY <3>1, <3>2, <3>3, <3>4, SeenRestart
  <2>3. CASE RequestOperation
    <3>1. /\ row.status = "WAITING_FOR_OPERATION" /\ row'.status = "QUEUED"
          /\ steps' = [s \in Seqs |-> "PENDING"]
      BY <2>3, <1>t DEF RequestOperation, Row
    <3>2. 1 \in Seqs
      BY StepsAssumption DEF Seqs
    <3> QED
      BY <3>1, <3>2, SeenRestart
  <2>4. CASE RequestFinalization
    <3>1. /\ row.status = "WAITING_FOR_OPERATION" /\ row'.status = "FINALIZING"
          /\ steps' = steps /\ All(steps, "SUCCEEDED")
      BY <2>4, <1>t DEF RequestFinalization, Row, All
    <3> QED
      BY <3>1, SeenMove
  <2> QED
    BY <1>1, <2>1, <2>2, <2>3, <2>4 DEF Command
<1>2. ASSUME NEW w \in Workers, Claim(w)
      PROVE  ContractStep
  <2>1. CASE ClaimWaiting(w) \/ ClaimNew(w)
    <3>1. /\ row.status \in {"QUEUED", "FINALIZING"}
          /\ row'.status = "RUNNING" /\ steps' = steps
      BY <2>1, <1>t DEF ClaimWaiting, ClaimNew, Claimable, Row
    <3> QED
      BY <3>1, SeenMove
  <2>2. CASE ClaimHandover(w) \/ ClaimCancellation(w)
    BY <2>2, Unseen DEF ClaimHandover, ClaimCancellation
  <2> QED
    BY <1>2, <2>1, <2>2 DEF Claim
<1>3. ASSUME NEW w \in Workers,
             JobStep(w) \/ JobFault(w) \/ DispatchCancellation(w)
      PROVE  ContractStep
  <2> DEFINE j == job[w]
  <2>g. /\ JobIsGood(j, row.mode)
        /\ HoldsRun(w) => Position(j, row, steps) /\ row.status = "RUNNING"
    BY <1>g DEF JobsAreGood, HoldersAreGood, HoldsRun, Holds
  <2>1. CASE LocalStep(w)
    BY <2>1, <1>u, LocalKeepsRows
  <2>2. CASE RecordRuntimeSession(w) \/ AbortBegin(w) \/ AbortRecord(w)
    <3>1. row'.status = row.status /\ steps' = steps
      BY <2>2, <1>t DEF RecordRuntimeSession, AbortBegin, AbortRecord, Row
    <3> QED
      BY <3>1, Unseen
  <2>3. CASE ReleaseForCancellation(w) \/ ReleaseForHandover(w)
    BY <2>3, Unseen DEF ReleaseForCancellation, ReleaseForHandover
  <2>4. CASE MarkStarted(w)
    <3>1. /\ HoldsRun(w) /\ j.pc = "next" /\ row' = row
          /\ steps' = [steps EXCEPT ![j.seq] = "RUNNING"]
      BY <2>4 DEF MarkStarted
    <3>2. At(steps, j.seq, "PENDING")
      BY <3>1, <2>g DEF Position
    <3> QED
      BY <3>1, <3>2, <2>g, SeenStep
  <2>5. CASE MarkSucceeded(w) \/ MarkFailed(w) \/ AbortMark(w)
    <3>1. /\ HoldsRun(w) /\ row' = row
          /\ j.pc \in {"stored", "toolFail", "stepFail", "abortMark"}
          /\ \/ steps' = [steps EXCEPT ![j.seq] = "SUCCEEDED"]
             \/ steps' = [steps EXCEPT ![j.seq] = "FAILED"]
      BY <2>5 DEF MarkSucceeded, MarkFailed, AbortMark
    <3>2. At(steps, j.seq, "RUNNING")
      BY <3>1, <2>g DEF Position, RunsStepPc
    <3> QED
      BY <3>1, <3>2, <2>g, SeenStep
  <2>6. CASE SkipStepsAfter(w)
    <3>1. /\ HoldsRun(w) /\ j.pc \in {"opSkip", "abortSkip"} /\ row' = row
          /\ steps' = [s \in Seqs |->
                         IF s > j.seq /\ steps[s] = "PENDING" THEN "SKIPPED"
                         ELSE steps[s]]
      BY <2>6 DEF SkipStepsAfter
    <3>2. At(steps, j.seq, "FAILED")
      BY <3>1, <2>g DEF Position
    <3> QED
      BY <3>1, <3>2, <2>g, SeenStep
  <2>7. CASE DeferRetainedRetry(w)
    <3>1. /\ HoldsRun(w) /\ j.pc = "defer" /\ row'.status = "QUEUED"
          /\ steps' = steps
      BY <2>7, <1>t DEF DeferRetainedRetry, Row
    <3>2. At(steps, j.seq, "PENDING")
      BY <3>1, <2>g DEF Position
    <3>3. \A s \in Seqs : s < j.seq \/ s = j.seq \/ s > j.seq
      BY <3>2, StepsAssumption DEF At, Seqs
    <3>4. \A s \in Seqs : steps[s] \in {"SUCCEEDED", "PENDING"}
      BY <3>2, <3>3 DEF At
    <3> QED
      BY <3>1, <3>4, <2>g, SeenMove
  <2>8. CASE CompleteOperation(w)
    <3>1. /\ HoldsRun(w) /\ j.pc = "opDone" /\ steps' = steps
          /\ row'.status = "WAITING_FOR_OPERATION"
      BY <2>8, <1>t DEF CompleteOperation, Row
    <3>2. All(steps, "SUCCEEDED") \/ GivenUp(steps, j.seq)
      BY <3>1, <2>g DEF Position
    <3>3. NoneOpen(steps)
      BY <3>2, GivenUpIsClosed DEF All, NoneOpen
    <3> QED
      BY <3>1, <3>3, <2>g, SeenMove
  <2>9. CASE Finalize(w)
    <3>1. PICK from, retained, cleanup :
            row' = [row EXCEPT
                  !.status = j.end.status, !.strategy = j.end.strategy,
                  !.from = from, !.retained = retained, !.cleanup = cleanup,
                  !.abort = ResolvedAbort(@, cleanup),
                  !.session = IF j.end.retain THEN @
                              ELSE SessionAfter(@, cleanup)]
      BY <2>9 DEF Finalize
    <3>2. row'.status = j.end.status
      BY <3>1, <1>t DEF Row
    <3>3. /\ HoldsRun(w) /\ j.end.status \in {"SUCCEEDED", "FAILED"}
          /\ j.end.status = "SUCCEEDED" => CompletedResults
          /\ steps' = IF j.end.status = "FAILED"
                      THEN EndedSteps(steps, "FAILED") ELSE steps
      BY <2>9, <1>t DEF Finalize, Job, Ending
    <3>4. CompletedResults => All(steps, "SUCCEEDED")
      BY DEF CompletedResults, All
    <3> QED
      BY <3>2, <3>3, <3>4, <2>g, SeenEnd
  <2>10. CASE CancelFinalize(w)
    <3>1. PICK ending \in {"FAILED", "CANCELLED"} :
            /\ row' = [row EXCEPT
                  !.status = ending, !.strategy = "NOT_RETRYABLE", !.from = 0,
                  !.retained = "NONE", !.cleanup = j.end.cleanup,
                  !.abort = ResolvedAbort(@, j.end.cleanup),
                  !.session = SessionAfter(@, j.end.cleanup)]
            /\ steps' = EndedSteps(steps, ending)
      BY <2>10 DEF CancelFinalize
    <3>2. row'.status = ending /\ row.status = "CANCEL_REQUESTED"
      BY <2>10, <3>1, <1>t DEF CancelFinalize, HoldsCancellation, Row
    <3> QED
      BY <3>1, <3>2, SeenEnd
  <2> QED
    BY <1>3, <2>1, <2>2, <2>3, <2>4, <2>5, <2>6, <2>7, <2>8, <2>9, <2>10
       DEF JobStep, LocalStep
<1>4. ASSUME NEW c \in Cleaners,
             StartPass(c) \/ PassStep(c) \/ Audit(c) \/ PassFault(c)
      PROVE  ContractStep
  <2>1. CASE FailExpired(c)
    <3>1. /\ row.status = "RUNNING" /\ row'.status = "FAILED"
          /\ steps' = EndedSteps(steps, "FAILED")
      BY <2>1, <1>t DEF FailExpired, Expired, Row
    <3> QED
      BY <3>1, SeenEnd
  <2>2. CASE CleanupExpired(c)
    <3>1. /\ row.status \in {"FAILED", "QUEUED"} /\ row'.status = "FAILED"
          /\ steps' = [s \in Seqs |->
                         IF row.status = "QUEUED" /\ steps[s] = "PENDING"
                         THEN "SKIPPED" ELSE steps[s]]
      BY <2>2, <1>t DEF CleanupExpired, RetentionOver, Row
    <3>2. CASE row.status = "FAILED"
      <4>1. steps' = steps
        BY <3>1, <3>2, <1>t
      <4> QED
        BY <3>1, <3>2, <4>1, Unseen
    <3>3. CASE row.status = "QUEUED"
      <4>1. \A s \in Seqs : steps[s] # "RUNNING"
        BY <3>3, <1>g, NoneRunsInQueue
      <4>2. steps' = [s \in Seqs |->
                        IF steps[s] = "PENDING" THEN "SKIPPED" ELSE steps[s]]
        BY <3>1, <3>3
      <4>3. steps' = EndedSteps(steps, row'.status)
        BY <4>1, <4>2, <1>t, EndedStepsCases
      <4> QED
        BY <3>1, <3>3, <4>3, SeenEnd
    <3> QED
      BY <3>1, <3>2, <3>3
  <2>3. CASE RetryUnresolved(c) \/ RecordResult(c)
    <3>1. row'.status = row.status /\ steps' = steps
      BY <2>3, <1>t DEF RetryUnresolved, RecordResult, Row
    <3> QED
      BY <3>1, Unseen
  <2>4. CASE \/ ValidateObservation(c) \/ DeleteObserved(c) \/ AuditProbe(c)
             \/ AuditCapture(c) \/ PassFault(c)
    BY <2>4, Unseen
       DEF ValidateObservation, DeleteObserved, AuditProbe, AuditCapture,
           PassFault, DeleteObservedFails, PassBreaks, db
  <2>w. ASSUME NEW by, NEW lost, CurrentWaiting(c), FailWaiting(c, by, lost)
        PROVE  ContractStep
    <3>1. /\ row.status = "WAITING_FOR_OPERATION" /\ row'.status = "FAILED"
          /\ steps' = steps
      BY <2>w, <1>t DEF FailWaiting, CurrentWaiting, Row
    <3>2. NoneOpen(steps)
      BY <3>1, <1>g DEF RowIsGood, WaitingIsGood
    <3>3. steps' = EndedSteps(steps, row'.status)
      BY <3>1, <3>2, <1>t, EndedStepsCases
    <3> QED
      BY <3>1, <3>3, SeenEnd
  <2>5. CASE AuditLost(c)
    BY <2>5, <2>w, <1>u DEF AuditLost
  <2>6. ASSUME NEW by, AuditEnd(c, by)
        PROVE  ContractStep
    <3>1. CASE op # "SUCCEEDED"
      BY <2>6, <3>1, <2>w DEF AuditEnd
    <3>2. CASE op = "SUCCEEDED"
      <4>1. /\ row.status = "WAITING_FOR_OPERATION"
            /\ row'.status = "FINALIZING" /\ steps' = steps
        BY <2>6, <3>2, <1>t DEF AuditEnd, CurrentWaiting, Row
      <4>2. All(steps, "SUCCEEDED")
        BY <3>2, <4>1, <1>g DEF RowIsGood, WaitingIsGood
      <4> QED
        BY <4>1, <4>2, SeenMove
    <3> QED
      BY <3>1, <3>2
  <2>7. CASE AuditTargetGone(c)
    BY <2>7, <2>w DEF AuditTargetGone
  <2> QED
    BY <1>4, <2>1, <2>2, <2>3, <2>4, <2>5, <2>6, <2>7
       DEF StartPass, PassStep, Audit
<1>5. CASE HandOverExpired \/ Deadlines \/ Expiry \/ Environment
  <2>1. CASE \/ HandOverExpired \/ Expiry \/ LeaseStalls
             \/ CancellationLeaseStalls \/ RetentionPasses
             \/ \E k \in kernels : KernelDies(k) \/ KernelRestarts(k)
    <3>1. row'.status = row.status /\ steps' = steps
      BY <2>1, <1>t
         DEF HandOverExpired, Expiry, LeaseExpires, CancellationLeaseExpires,
             LeaseStalls, CancellationLeaseStalls, RetentionPasses, KernelDies,
             KernelRestarts, db, Row
    <3> QED
      BY <3>1, Unseen
  <2>2. CASE FailQueueTimeout \/ ClaimUnavailable
    <3>1. /\ row.status = "QUEUED" /\ row'.status = "FAILED"
          /\ steps' = [s \in Seqs |->
                         IF steps[s] = "PENDING" THEN "SKIPPED" ELSE steps[s]]
      BY <2>2, <1>t DEF FailQueueTimeout, ClaimUnavailable, Row
    <3>2. \A s \in Seqs : steps[s] # "RUNNING"
      BY <3>1, <1>g, NoneRunsInQueue
    <3>3. steps' = EndedSteps(steps, row'.status)
      BY <3>1, <3>2, <1>t, EndedStepsCases
    <3> QED
      BY <3>1, <3>3, SeenEnd
  <2>3. CASE RequestExpiredCancellation
    <3>1. /\ row.status \in {"QUEUED", "RUNNING", "FINALIZING"}
          /\ row'.status = "CANCEL_REQUESTED" /\ steps' = steps
      BY <2>3, <1>t DEF RequestExpiredCancellation, PastMaximum, Row
    <3> QED
      BY <3>1, SeenMove
  <2> QED
    BY <1>5, <2>1, <2>2, <2>3 DEF Deadlines, Environment
<1>6. CASE UNCHANGED vars
  BY <1>6, <1>u DEF vars
<1> QED
  BY <1>1, <1>2, <1>3, <1>4, <1>5, <1>6 DEF Next

\* The service implements its contract: whatever its Workers, leases, retries,
\* takeovers, cancellations, passes and faults do, its caller sees one
\* sequential run of the Steps that ends with none left open.
THEOREM ContractIsKept == Spec => ImplementsContract
<1>1. Init => Contract!ContractInit
  BY DEF Init, Submitted, Contract!ContractInit, Seqs, Contract!Seqs
<1>2. TypeOK /\ LifecycleIsGood /\ [Next]_vars
        => [Contract!ContractNext]_(Contract!contractVars)
  BY ContractFollowed DEF ContractStep
<1> QED
  BY <1>1, <1>2, TypeCorrect, LifecycleGood, PTL
     DEF Spec, ImplementsContract, Contract!ContractSpec

----------------------------------------------------------------------------
(* The rows and the kernels: the inductive invariant behind the properties  *)
(* of sessions.                                                             *)

\* No row, job or pass names a kernel that was not started yet
SessionsWereStarted ==
    /\ row.session <= started
    /\ \A w \in Workers : job[w].session <= started
    /\ \A c \in Cleaners : cleaner[c].session <= started

\* What a job reports as deleted or missing is gone, and an abort that does
\* not keep the session reports on it
ReportIsTrue(j, alive) ==
    /\ j.end.cleanup = "SUCCEEDED" =>
         j.session \notin alive /\ j.pc \notin {"check", "prepare"}
    /\ /\ j.pc \in {"abortRecord", "abortMark", "abortSkip", "abortFinalize"}
       /\ ~j.end.retain
       => j.end.cleanup \in {"SUCCEEDED", "FAILED"}

\* ... and so for a pass, which only ever deletes a session
PassReportIsTrue(o, alive) ==
    /\ o.pc = "lost" \/ o.out = "SUCCEEDED" => o.session \notin alive
    /\ o.pc = "record" => o.out \in {"SUCCEEDED", "FAILED"}
    /\ o.pc \in {"validate", "delete", "record"} => o.session # NoSession

ReportsAreTrue ==
    /\ \A w \in Workers : ReportIsTrue(job[w], kernels)
    /\ \A c \in Cleaners : PassReportIsTrue(cleaner[c], kernels)

\* A session that a pass is about to delete is on no run, and the row that
\* still names it has ended and waits for the deletion
IsFree(session) ==
    /\ row.session = session =>
         /\ row.status \in {"FAILED", "CANCELLED"}
         /\ row.cleanup \in UnresolvedCleanup
    /\ \A w \in Workers : HoldsRun(w) => job[w].session # session

DoomedAreFree ==
    \A c \in Cleaners : cleaner[c].pc = "delete" => IsFree(cleaner[c].session)

\* The kernel of a job that may commit, and the one on the row
OnItsSession(j, r) ==
    /\ j.pc \in OnSessionPc \cup {"aborting", "abortRecord"} =>
         j.session = r.session
    /\ j.pc \in {"prepare", "record"} =>
         \/ j.session = r.session /\ j.session # NoSession
         \/ j.seq = 1 /\ ~r.finReq
    /\ r.mode = "MULTI" /\ r.session # NoSession /\ j.pc \notin {"idle", "dead"}
         => j.session = r.session
    /\ r.mode = "MULTI" /\ j.pc = "finalize"
         /\ j.end.cleanup = "NOT_REQUIRED" => j.session = NoSession

HoldersOnSession == \A w \in Workers : HoldsRun(w) => OnItsSession(job[w], row)

\* ... and of a cancellation that may
CancelsItsSession(j, r) ==
    j.pc \in CancelPc =>
        /\ j.session = r.session
        /\ j.pc = "cancelFinalize" /\ j.end.cleanup = "NOT_REQUIRED" =>
             j.session = NoSession

CancellersOnSession ==
    \A w \in Workers : HoldsCancellation(w) => CancelsItsSession(job[w], row)

\* A MULTI Execution that ended with a session has it on the cleanup list
MultiIsListed ==
    row.mode = "MULTI" /\ row.status \in TerminalStatus
      /\ row.session # NoSession => row.cleanup \in UnresolvedCleanup

SessionsAreGood ==
    /\ SessionsWereStarted /\ ReportsAreTrue /\ DoomedAreFree
    /\ HoldersOnSession /\ CancellersOnSession /\ MultiIsListed

\* The Steps of an Execution in this state that succeeded will not run again
Continues(r) ==
    \/ r.status \in {"QUEUED", "RUNNING", "WAITING_FOR_OPERATION",
                     "FINALIZING"}
    \/ r.status = "FAILED" /\ r.strategy = "FROM_FAILED_STEP"

\* ... because each of them ran to its end on the kernel of the row, unless
\* Jupyter has restarted it
StepsHaveRun ==
    Continues(row) =>
        \A s \in Seqs :
            steps[s] = "SUCCEEDED" => RanOn(row.session, row.ops, s)

\* ... as did the Step whose success is about to be committed
StoredHaveRun ==
    \A w \in Workers :
        HoldsRun(w) /\ job[w].pc = "stored" =>
            RanOn(row.session, row.ops, job[w].seq)

\* Phases of a run that took over or goes from Step to Step
ChainPc == {"takeover", "next", "execute", "stored", "publish"}

\* A MULTI Execution has one kernel from its first Step to its end
OneKernel ==
    row.mode = "MULTI" /\ row.status \notin TerminalStatus =>
        /\ \A d \in done : d[2] # 0 => d[1] = row.session /\ d[1] # NoSession
        /\ \A w \in Workers :
             job[w].pc \in ChainPc =>
               job[w].session = row.session /\ job[w].session # NoSession

ContextIsGood == StepsHaveRun /\ StoredHaveRun /\ OneKernel

----------------------------------------------------------------------------
(* Kernels. *)

\* One step starts at most one kernel, and nothing brings one back.
LEMMA RuntimeStep ==
    ASSUME TypeOK, [Next]_vars
    PROVE  \/ started' = started /\ kernels' \subseteq kernels
           \/ started' = started + 1 /\ kernels' = kernels \cup {started'}
<1> DEFINE Same == started' = started /\ kernels' \subseteq kernels
           More == started' = started + 1 /\ kernels' = kernels \cup {started'}
<1>1. CASE UNCHANGED runtime
  BY <1>1 DEF runtime
<1>2. CASE Command
  BY <1>1, <1>2, Zenon
     DEF Command, RequestCancel, RequestRetry, RequestOperation,
         RequestFinalization
<1>3. ASSUME NEW w \in Workers, Claim(w)
      PROVE  Same \/ More
  BY <1>1, <1>3, Zenon
     DEF Claim, ClaimWaiting, ClaimNew, ClaimHandover, ClaimCancellation
<1>4. ASSUME NEW w \in Workers,
             JobStep(w) \/ JobFault(w) \/ DispatchCancellation(w)
      PROVE  Same \/ More
  <2>1. CASE \/ StartSession(w) \/ AbortDeletes(w) \/ ReleaseSession(w)
             \/ StopSucceeds(w) \/ CancelStop(w)
    BY <2>1 DEF StartSession, AbortDeletes, ReleaseSession, StopSucceeds,
                CancelStop
  <2>2. CASE Shutdown(w) \/ Crash(w) \/ DispatchCancellation(w)
    BY <2>2 DEF Shutdown, Crash, DispatchCancellation, MaybeStartedKernel
  <2>3. CASE \/ Preflight(w) \/ DeferRetainedRetry(w) \/ KeepSession(w)
             \/ RecordRuntimeSession(w) \/ LoadRun(w) \/ MarkStarted(w)
             \/ ExecuteToolError(w) \/ ExecuteHitsLimit(w)
             \/ ExecuteLosesSession(w) \/ MarkSucceeded(w)
             \/ PublishSuccess(w) \/ MarkFailed(w) \/ RecordFailureEvidence(w)
             \/ SkipStepsAfter(w) \/ CompleteOperation(w) \/ AbortBegin(w)
             \/ AbortIdle(w) \/ AbortMissing(w) \/ AbortRecord(w)
             \/ AbortMark(w)
    BY <1>1, <2>3, Zenon
       DEF Preflight, DeferRetainedRetry, KeepSession, RecordRuntimeSession,
           LoadRun, MarkStarted, ExecuteToolError, ExecuteHitsLimit,
           ExecuteLosesSession, MarkSucceeded, PublishSuccess, MarkFailed,
           RecordFailureEvidence, SkipStepsAfter, CompleteOperation,
           AbortBegin, AbortIdle, AbortMissing, AbortRecord, AbortMark
  <2>4. CASE \/ AssertLease(w) \/ StopSession(w) \/ Finalize(w)
             \/ LoseLease(w) \/ HandOffCancelled(w)
             \/ ReleaseForCancellation(w) \/ ReleaseForHandover(w)
             \/ CancelFinalize(w) \/ PreflightUnreachable(w)
             \/ ExecuteBreaks(w) \/ AbortFails(w) \/ RunBreaks(w)
             \/ StopFails(w) \/ CancelStopFails(w)
    BY <1>1, <2>4, Zenon
       DEF AssertLease, StopSession, Finalize, LoseLease, HandOffCancelled,
           ReleaseForCancellation, ReleaseForHandover, CancelFinalize,
           PreflightUnreachable, ExecuteBreaks, AbortFails, RunBreaks,
           StopFails, CancelStopFails
  <2>5. CASE ExecuteSucceeds(w)
    BY <2>5 DEF ExecuteSucceeds
  <2> QED
    BY <1>4, <2>1, <2>2, <2>3, <2>4, <2>5 DEF JobStep, JobFault
<1>5. ASSUME NEW c \in Cleaners,
             StartPass(c) \/ PassStep(c) \/ Audit(c) \/ PassFault(c)
      PROVE  Same \/ More
  <2>1. CASE DeleteObserved(c)
    BY <2>1 DEF DeleteObserved
  <2>2. CASE ~DeleteObserved(c)
    BY <1>1, <1>5, <2>2, Zenon
       DEF StartPass, PassStep, Audit, PassFault, FailExpired, CleanupExpired,
           RetryUnresolved, ValidateObservation, RecordResult, AuditProbe,
           AuditLost, AuditCapture, AuditEnd, AuditTargetGone, FailWaiting,
           DeleteObservedFails, PassBreaks
  <2> QED
    BY <2>1, <2>2
<1>6. CASE HandOverExpired \/ Deadlines \/ Expiry \/ Environment
  <2>1. CASE \E k \in kernels : KernelDies(k) \/ KernelRestarts(k)
    BY <2>1 DEF KernelDies, KernelRestarts
  <2>2. CASE \/ HandOverExpired \/ Deadlines \/ Expiry
             \/ LeaseStalls \/ CancellationLeaseStalls \/ ClaimUnavailable
    BY <1>1, <2>2, Zenon
       DEF HandOverExpired, Deadlines, Expiry, FailQueueTimeout,
           RequestExpiredCancellation, RetentionPasses, LeaseExpires,
           CancellationLeaseExpires, LeaseStalls, CancellationLeaseStalls,
           ClaimUnavailable
  <2> QED
    BY <1>6, <2>1, <2>2 DEF Environment
<1>7. CASE UNCHANGED vars
  BY <1>1, <1>7 DEF vars
<1> QED
  BY <1>2, <1>3, <1>4, <1>5, <1>6, <1>7 DEF Next

\* A kernel that is gone stays gone.
LEMMA GoneStays ==
    ASSUME TypeOK, [Next]_vars, NEW x \in Nat, x <= started
    PROVE  x <= started' /\ (x \notin kernels => x \notin kernels')
<1>1. started \in Nat
  BY DEF TypeOK
<1> QED
  BY <1>1, RuntimeStep

----------------------------------------------------------------------------
(* Jobs between two transactions. *)

\* The phases in which a job that holds the run names the row's session
OnSet == OnSessionPc \cup {"aborting", "abortRecord"}

\* What a step that touches no row makes of the job j of its Worker
LocalMove(w, j, k) ==
    /\ \/ k.session \in {j.session, NoSession}
       \/ /\ started' = started + 1 /\ k.session = started'
          /\ j.pc = "prepare" /\ j.session = NoSession /\ k.pc = "record"
    /\ k.pc \notin {"idle", "dead"} =>
         k.fence = j.fence /\ j.pc \notin {"idle", "dead"}
    /\ k.pc \notin {"idle", "dead"} /\ row.mode = "MULTI"
         /\ j.session # NoSession => k.session = j.session
    /\ k.pc \in {"idle", "dead"} => k.session = NoSession
    /\ k.pc \in OnSet => j.pc \in OnSet /\ k.session = j.session
    /\ k.pc \in {"prepare", "record"} =>
         /\ j.pc \in {"check", "prepare"} /\ k.seq = j.seq
         /\ j.session # NoSession => k.session = j.session
    /\ k.pc = "finalize" /\ row.mode = "MULTI" /\ HoldsRun(w)
         /\ k.end.cleanup = "NOT_REQUIRED" => k.session = NoSession
    /\ k.pc \in CancelPc =>
         /\ k.pc = "cancelFinalize" /\ j.pc = "cancelStop"
         /\ k.session = j.session
         /\ k.end.cleanup = "NOT_REQUIRED" => k.session = NoSession
    /\ k.pc \in ChainPc => j.pc \in ChainPc /\ k.session = j.session
    /\ k.pc = "stored" =>
         k.seq = j.seq /\ <<j.session, row.ops, j.seq>> \in done'
    /\ ReportIsTrue(k, kernels')

\* Every one of these steps is such a move, of its own job only.
LEMMA LocalMoves ==
    ASSUME TypeOK, LifecycleIsGood, SessionsWereStarted, ReportsAreTrue,
           [Next]_vars, NEW w \in Workers, LocalStep(w)
    PROVE  /\ \A v \in Workers : v # w => job'[v] = job[v]
           /\ LocalMove(w, job[w], job'[w])
<1> DEFINE j == job[w]
           k == job'[w]
           Others == \A v \in Workers : v # w => job'[v] = job[v]
<1>t. /\ job \in [Workers -> Job] /\ j \in Job /\ j.session \in Nat
      /\ j.end \in Ending /\ j.fence \in Nat
      /\ row.mode \in {"SINGLE", "MULTI"} /\ NoSession \notin kernels
      /\ kernels \subseteq Nat
  BY DEF TypeOK, Row, OperationMode, Job, NoSession
<1>g. JobIsGood(j, row.mode) /\ ReportIsTrue(j, kernels)
  BY DEF LifecycleIsGood, JobsAreGood, ReportsAreTrue
<1>n. j.session \notin kernels => j.session \notin kernels'
  BY <1>t, GoneStays DEF SessionsWereStarted
<1>z. NoSession \notin kernels'
  BY <1>t, GoneStays DEF TypeOK, NoSession
<1>c. /\ NoEnding.cleanup = "NOT_REQUIRED" /\ ~NoEnding.retain
      /\ \A s : Failing(s).cleanup = "NOT_REQUIRED" /\ ~Failing(s).retain
      /\ Idle.end = NoEnding /\ Dead.end = NoEnding
      /\ Idle.session = NoSession /\ Dead.session = NoSession
      /\ Idle.pc = "idle" /\ Dead.pc = "dead"
  BY DEF NoEnding, Failing, Idle, Dead
<1>e. ASSUME k = Idle \/ k = Dead
      PROVE  LocalMove(w, j, k)
  BY <1>e, <1>c DEF LocalMove, OnSet, OnSessionPc, ChainPc, CancelPc,
                    ReportIsTrue
\* The job goes on with its session, and its ending
<1>s. ASSUME k.session = j.session, k.fence = j.fence, k.end = j.end,
             j.pc \notin {"idle", "dead"}, k.pc \notin {"idle", "dead"}
      PROVE  /\ k.end.cleanup = "SUCCEEDED" => k.session \notin kernels'
             /\ k.pc \notin {"check", "prepare", "abortRecord", "abortMark",
                             "abortSkip", "abortFinalize"}
                  => ReportIsTrue(k, kernels')
  BY <1>s, <1>g, <1>n DEF ReportIsTrue
<1>1. CASE Preflight(w) \/ PreflightUnreachable(w)
  <2>1. CASE Go(w, "prepare") \/ Go(w, "defer")
    <3>1. /\ j.pc = "check" /\ k.pc \in {"prepare", "defer"}
          /\ k.session = j.session /\ k.fence = j.fence /\ k.end = j.end
          /\ k.seq = j.seq /\ Others
      BY <1>1, <2>1, <1>t, GoIs DEF Preflight, PreflightUnreachable
    <3>2. ReportIsTrue(k, kernels')
      BY <3>1, <1>g DEF ReportIsTrue
    <3> QED
      BY <3>1, <3>2 DEF LocalMove, OnSet, OnSessionPc, ChainPc, CancelPc
  <2>2. CASE GoEnding(w, "stop", Failing("FROM_START"))
    <3>1. /\ j.pc = "check" /\ k.pc = "stop" /\ k.session = j.session
          /\ k.fence = j.fence /\ k.end = Failing("FROM_START") /\ Others
      BY <1>1, <2>2, <1>t, GoEndingIs DEF Preflight, PreflightUnreachable
    <3> QED
      BY <3>1, <1>c DEF LocalMove, OnSet, OnSessionPc, ChainPc, CancelPc,
                        ReportIsTrue
  <2> QED
    BY <1>1, <2>1, <2>2 DEF Preflight, PreflightUnreachable
<1>2. CASE StartSession(w)
  <2>1. /\ j.pc = "prepare" /\ j.session = NoSession /\ k.pc = "record"
        /\ k.session = started' /\ started' = started + 1 /\ k.seq = j.seq
        /\ k.fence = j.fence /\ k.end = j.end /\ Others
    BY <1>2, <1>t DEF StartSession, Job
  <2>2. ReportIsTrue(k, kernels')
    BY <2>1, <1>g DEF ReportIsTrue
  <2> QED
    BY <2>1, <2>2 DEF LocalMove, OnSet, OnSessionPc, ChainPc, CancelPc
<1>3. CASE KeepSession(w)
  <2>1. /\ j.pc = "prepare" /\ k.pc = "record" /\ k.seq = j.seq
        /\ k.session = j.session /\ k.fence = j.fence /\ k.end = j.end /\ Others
    BY <1>3, <1>t, GoIs DEF KeepSession
  <2>2. ReportIsTrue(k, kernels')
    BY <2>1, <1>s
  <2> QED
    BY <2>1, <2>2 DEF LocalMove, OnSet, OnSessionPc, ChainPc, CancelPc
<1>4. CASE LoadRun(w)
  <2>1. PICK s \in Seqs :
          /\ j.pc = "takeover"
          /\ job' = [job EXCEPT ![w].pc = "execute", ![w].seq = s]
    BY <1>4 DEF LoadRun, RunningSteps
  <2>2. /\ k.pc = "execute" /\ k.session = j.session /\ k.fence = j.fence
        /\ k.end = j.end /\ Others
    BY <2>1, <1>t DEF Job
  <2>3. ReportIsTrue(k, kernels')
    BY <2>1, <2>2, <1>s
  <2> QED
    BY <2>1, <2>2, <2>3 DEF LocalMove, OnSet, OnSessionPc, ChainPc, CancelPc
<1>5. CASE \/ ExecuteSucceeds(w) \/ ExecuteToolError(w)
           \/ ExecuteHitsLimit(w) /\ Go(w, "abortBegin")
  <2>1. /\ j.pc = "execute" /\ k.pc \in {"stored", "toolFail", "abortBegin"}
        /\ k.session = j.session /\ k.fence = j.fence /\ k.end = j.end
        /\ k.seq = j.seq /\ Others
        /\ k.pc = "stored" => <<j.session, row.ops, j.seq>> \in done'
    BY <1>5, <1>t, GoIs DEF ExecuteSucceeds, ExecuteToolError, ExecuteHitsLimit
  <2>2. ReportIsTrue(k, kernels')
    BY <2>1, <1>s
  <2> QED
    BY <2>1, <2>2 DEF LocalMove, OnSet, OnSessionPc, ChainPc, CancelPc
<1>6. CASE \/ ExecuteHitsLimit(w) /\ ~Go(w, "abortBegin")
           \/ ExecuteLosesSession(w) \/ ExecuteBreaks(w)
  <2>1. PICK pc \in {"stepFail", "stop"} : \E s :
          j.pc = "execute" /\ GoEnding(w, pc, Failing(s))
    BY <1>6 DEF ExecuteHitsLimit, ExecuteLosesSession, ExecuteBreaks
  <2>2. /\ k.pc \in {"stepFail", "stop"} /\ k.session = j.session
        /\ k.fence = j.fence /\ k.end.cleanup = "NOT_REQUIRED" /\ Others
    BY <2>1, <1>t, <1>c, GoEndingIs
  <2> QED
    BY <2>1, <2>2 DEF LocalMove, OnSet, OnSessionPc, ChainPc, CancelPc,
                      ReportIsTrue
<1>7. CASE PublishSuccess(w)
  <2>1. /\ j.pc = "publish" /\ k.pc \in {"next", "complete", "opDone"}
        /\ k.session = j.session /\ k.fence = j.fence
        /\ k.end = [NoEnding EXCEPT !.status = "SUCCEEDED"] /\ Others
    BY <1>7, <1>t DEF PublishSuccess, Job
  <2>2. k.end.cleanup = "NOT_REQUIRED"
    BY <2>1 DEF NoEnding
  <2> QED
    BY <2>1, <2>2 DEF LocalMove, OnSet, OnSessionPc, ChainPc, CancelPc,
                      ReportIsTrue
<1>8. CASE RecordFailureEvidence(w)
  <2>1. /\ j.pc = "evidence" /\ k.pc = "finalize" /\ k.session = j.session
        /\ k.fence = j.fence /\ k.end = j.end /\ Others
    BY <1>8, <1>t, GoIs DEF RecordFailureEvidence
  <2>2. ReportIsTrue(k, kernels') /\ row.mode = "SINGLE"
    BY <2>1, <1>s, <1>g DEF JobIsGood
  <2> QED
    BY <2>1, <2>2 DEF LocalMove, OnSet, OnSessionPc, ChainPc, CancelPc
<1>9. CASE AbortIdle(w) \/ AbortMissing(w) \/ AbortDeletes(w) \/ AbortFails(w)
  <2>1. PICK end :
          /\ j.pc = "aborting" /\ GoEnding(w, "abortRecord", end)
          /\ end.cleanup = "SUCCEEDED" => j.session \notin kernels'
          /\ ~end.retain => end.cleanup \in {"SUCCEEDED", "FAILED"}
    <3>1. \A s, a, c : [Failing(s) EXCEPT !.abort = a, !.cleanup = c].cleanup = c
      BY DEF Failing, NoEnding
    <3>2. /\ [Retaining EXCEPT !.abort = "IDLE_CONFIRMED"].retain
          /\ [Retaining EXCEPT !.abort = "IDLE_CONFIRMED"].cleanup
               = "NOT_REQUIRED"
      BY DEF Retaining, NoEnding
    <3>3. CASE AbortIdle(w)
      BY <3>2, <3>3 DEF AbortIdle
    <3>4. CASE AbortMissing(w)
      <4>1. PICK end : /\ end = [Failing(RestartStrategy) EXCEPT
                                   !.abort = "SESSION_MISSING",
                                   !.cleanup = "SUCCEEDED"]
                       /\ GoEnding(w, "abortRecord", end)
        BY <3>4 DEF AbortMissing
      <4>2. end.cleanup = "SUCCEEDED"
        BY <3>1, <4>1
      <4> QED
        BY <3>4, <4>1, <4>2 DEF AbortMissing, runtime
    <3>5. CASE AbortDeletes(w)
      <4>1. PICK end : /\ end = [Failing(RestartStrategy) EXCEPT
                                   !.abort = "SESSION_DELETED",
                                   !.cleanup = "SUCCEEDED"]
                       /\ GoEnding(w, "abortRecord", end)
        BY <3>5 DEF AbortDeletes
      <4>2. end.cleanup = "SUCCEEDED"
        BY <3>1, <4>1
      <4> QED
        BY <3>5, <4>1, <4>2 DEF AbortDeletes
    <3>6. CASE AbortFails(w)
      <4>1. PICK end : /\ end = [Failing(RestartStrategy) EXCEPT
                                   !.abort = "FAILED",
                                   !.cleanup = "FAILED"]
                       /\ GoEnding(w, "abortRecord", end)
        BY <3>6 DEF AbortFails
      <4>2. end.cleanup = "FAILED"
        BY <3>1, <4>1
      <4> QED
        BY <3>6, <4>1, <4>2 DEF AbortFails
    <3> QED
      BY <1>9, <3>3, <3>4, <3>5, <3>6
  <2>2. /\ k.pc = "abortRecord" /\ k.session = j.session /\ k.fence = j.fence
        /\ k.end = end /\ Others
    BY <2>1, <1>t, GoEndingIs
  <2> QED
    BY <2>1, <2>2 DEF LocalMove, OnSet, OnSessionPc, ChainPc, CancelPc,
                      ReportIsTrue
<1>10. CASE AssertLease(w)
  <2>1. /\ j.pc = "complete" /\ k.pc = "release" /\ k.session = j.session
        /\ k.fence = j.fence /\ k.end = j.end /\ Others
    BY <1>10, <1>t, GoIs DEF AssertLease
  <2>2. ReportIsTrue(k, kernels')
    BY <2>1, <1>s
  <2> QED
    BY <2>1, <2>2 DEF LocalMove, OnSet, OnSessionPc, ChainPc, CancelPc
<1>11. CASE ReleaseSession(w)
  <2>1. /\ j.pc = "release" /\ k.pc = "finalizeOk" /\ k.session = j.session
        /\ k.fence = j.fence /\ j.session \notin kernels' /\ Others
    BY <1>11, <1>t, GoEndingIs DEF ReleaseSession
  <2> QED
    BY <2>1 DEF LocalMove, OnSet, OnSessionPc, ChainPc, CancelPc, ReportIsTrue
<1>12. CASE StopSession(w)
  <2>1. /\ j.pc = "stop" /\ k.pc \in {"stopping", "finalize"}
        /\ k.session = j.session /\ k.fence = j.fence /\ k.end = j.end
        /\ k.pc = "finalize" /\ HoldsRun(w) => j.session = NoSession
        /\ Others
    BY <1>12, <1>t, GoIs DEF StopSession
  <2>2. ReportIsTrue(k, kernels')
    BY <2>1, <1>s
  <2> QED
    BY <2>1, <2>2 DEF LocalMove, OnSet, OnSessionPc, ChainPc, CancelPc
<1>13. CASE StopSucceeds(w) \/ StopFails(w)
  <2>1. PICK c \in {"SUCCEEDED", "FAILED"} :
          /\ j.pc = "stopping"
          /\ GoEnding(w, "finalize", [j.end EXCEPT !.cleanup = c])
          /\ c = "SUCCEEDED" => j.session \notin kernels'
    BY <1>13 DEF StopSucceeds, StopFails
  <2>2. /\ k.pc = "finalize" /\ k.session = j.session /\ k.fence = j.fence
        /\ k.end = [j.end EXCEPT !.cleanup = c] /\ Others
    BY <2>1, <1>t, GoEndingIs
  <2>3. k.end.cleanup = c
    BY <2>2, <1>t DEF Ending
  <2> QED
    BY <2>1, <2>2, <2>3 DEF LocalMove, OnSet, OnSessionPc, ChainPc, CancelPc,
                            ReportIsTrue
<1>14. CASE LoseLease(w)
  <2>1. (k = Idle \/ k = Dead) /\ Others
    BY <1>14, <1>t DEF LoseLease, JobEnds
  <2> QED
    BY <2>1, <1>e
<1>15. CASE HandOffCancelled(w)
  <2>1. j.pc \in {"interrupted", "interruptedRun"}
    BY <1>15 DEF HandOffCancelled
  <2>2. CASE Go(w, "relCancel") \/ Go(w, "relHandover")
    <3>1. /\ k.pc \in {"relCancel", "relHandover"} /\ k.session = j.session
          /\ k.fence = j.fence /\ k.end = j.end /\ Others
      BY <2>2, <1>t, GoIs
    <3>2. ReportIsTrue(k, kernels')
      BY <2>1, <3>1, <1>s
    <3> QED
      BY <2>1, <3>1, <3>2
         DEF LocalMove, OnSet, OnSessionPc, ChainPc, CancelPc
  <2>3. CASE GoEnding(w, "stop", Failing(RestartStrategy))
    <3>1. /\ k.pc = "stop" /\ k.session = j.session
          /\ k.fence = j.fence /\ k.end = Failing(RestartStrategy) /\ Others
      BY <2>3, <1>t, GoEndingIs
    <3> QED
      BY <2>1, <3>1, <1>c
         DEF LocalMove, OnSet, OnSessionPc, ChainPc, CancelPc, ReportIsTrue
  <2> QED
    BY <1>15, <2>2, <2>3 DEF HandOffCancelled
<1>16. CASE CancelStop(w) \/ CancelStopFails(w)
  <2>1. PICK end :
          /\ j.pc = "cancelStop" /\ GoEnding(w, "cancelFinalize", end)
          /\ end.cleanup = "SUCCEEDED" => j.session \notin kernels'
          /\ end.cleanup = "NOT_REQUIRED" => j.session = NoSession
    <3>1. \A c : [NoEnding EXCEPT !.cleanup = c].cleanup = c
      BY DEF NoEnding
    <3>2. CASE CancelStop(w) /\ j.session = NoSession
      BY <3>2, <1>c DEF CancelStop
    <3>3. CASE CancelStop(w) /\ j.session # NoSession
      BY <3>1, <3>3 DEF CancelStop
    <3>4. CASE CancelStopFails(w)
      BY <3>1, <3>4 DEF CancelStopFails
    <3> QED
      BY <1>16, <3>2, <3>3, <3>4
  <2>2. /\ k.pc = "cancelFinalize" /\ k.session = j.session
        /\ k.fence = j.fence /\ k.end = end /\ Others
    BY <2>1, <1>t, GoEndingIs
  <2> QED
    BY <2>1, <2>2 DEF LocalMove, OnSet, OnSessionPc, ChainPc, CancelPc,
                      ReportIsTrue
<1>17. CASE RunBreaks(w)
  <2>1. PICK session \in LocalSessions(w) : \E s :
          job' = [job EXCEPT ![w].pc = "stop", ![w].session = session,
                             ![w].end = Failing(s)]
    BY <1>17 DEF RunBreaks
  <2>2. /\ k.pc = "stop" /\ k.session = session /\ k.fence = j.fence
        /\ k.end.cleanup = "NOT_REQUIRED" /\ Others
    BY <2>1, <1>t, <1>c DEF Job
  <2>3. session = j.session \/ (row.mode = "SINGLE" /\ session = NoSession)
    BY <2>1 DEF LocalSessions, Mode
  <2>4. j.pc \notin {"idle", "dead"}
    BY <1>17 DEF RunBreaks
  <2> QED
    BY <2>2, <2>3, <2>4
       DEF LocalMove, OnSet, OnSessionPc, ChainPc, CancelPc, ReportIsTrue
<1>18. CASE Shutdown(w) \/ DispatchCancellation(w)
  <2>1. PICK shut : Interrupted(w, shut)
    BY <1>18 DEF Shutdown, DispatchCancellation
  <2>2. PICK session \in LocalSessions(w) :
        job' = [job EXCEPT ![w] =
                  IF @.pc \in CatchesInterrupt
                  THEN [@ EXCEPT
                          !.pc = IF @ \in InFlightPc THEN "interruptedRun"
                                 ELSE "interrupted",
                          !.session = session,
                          !.shut = @ \/ shut,
                          !.end = NoEnding]
                  ELSE IF shut \/ @.shut THEN Dead ELSE Idle]
    BY <2>1 DEF Interrupted
  <2>3. Others
    BY <2>2, <1>t
  <2>4. CASE j.pc \in CatchesInterrupt
    <3>1. /\ k.pc \in {"interrupted", "interruptedRun"} /\ k.session = session
          /\ k.fence = j.fence /\ k.end = NoEnding
      BY <2>2, <2>4, <1>t DEF Job
    <3>2. session = j.session \/ (row.mode = "SINGLE" /\ session = NoSession)
      BY DEF LocalSessions, Mode
    <3>3. j.pc \notin {"idle", "dead"}
      BY <2>4 DEF CatchesInterrupt, BodyPc, AbortPc
    <3> QED
      BY <2>3, <3>1, <3>2, <3>3, <1>c
         DEF LocalMove, OnSet, OnSessionPc, ChainPc, CancelPc, ReportIsTrue
  <2>5. CASE j.pc \notin CatchesInterrupt
    BY <2>2, <2>3, <2>5, <1>t, <1>e
  <2> QED
    BY <2>4, <2>5
<1>19. CASE Crash(w)
  <2>1. k = Dead /\ Others
    BY <1>19, <1>t DEF Crash
  <2> QED
    BY <2>1, <1>e
<1> QED
  BY <1>1, <1>2, <1>3, <1>4, <1>5, <1>6, <1>7, <1>8, <1>9, <1>10, <1>11,
     <1>12, <1>13, <1>14, <1>15, <1>16, <1>17, <1>18, <1>19
     DEF LocalStep, JobFault

----------------------------------------------------------------------------
(* Sessions: what the steps leave alone, and steps that touch no row. *)

\* The report of a job or a pass that does not move stays true.
LEMMA ReportsStay ==
    ASSUME TypeOK, SessionsWereStarted, ReportsAreTrue, [Next]_vars
    PROVE  /\ \A w \in Workers : ReportIsTrue(job[w], kernels')
           /\ \A c \in Cleaners : PassReportIsTrue(cleaner[c], kernels')
           /\ row.session <= started' /\ row.session \in Nat
           /\ \A w \in Workers : job[w].session <= started'
                                 /\ job[w].session \in Nat
           /\ \A c \in Cleaners : cleaner[c].session <= started'
                                  /\ cleaner[c].session \in Nat
           /\ NoSession <= started'
<1>t. /\ \A w \in Workers : job[w].session \in Nat
      /\ \A c \in Cleaners : cleaner[c].session \in Nat
      /\ row.session \in Nat
  BY DEF TypeOK, Job, Observation, Row
<1>1. /\ \A w \in Workers : ReportIsTrue(job[w], kernels')
      /\ \A w \in Workers : job[w].session <= started'
  BY <1>t, GoneStays DEF SessionsWereStarted, ReportsAreTrue, ReportIsTrue
<1>2. /\ \A c \in Cleaners : PassReportIsTrue(cleaner[c], kernels')
      /\ \A c \in Cleaners : cleaner[c].session <= started'
  BY <1>t, GoneStays DEF SessionsWereStarted, ReportsAreTrue, PassReportIsTrue
<1>3. row.session <= started'
  BY <1>t, GoneStays DEF SessionsWereStarted
<1>4. NoSession <= started'
  BY GoneStays DEF TypeOK, NoSession
<1> QED
  BY <1>t, <1>1, <1>2, <1>3, <1>4

\* What is left to show of a step of the job of w.
LEMMA JobSessions ==
    ASSUME TypeOK, SessionsWereStarted, ReportsAreTrue, [Next]_vars,
           NEW w \in Workers, \A v \in Workers : v # w => job'[v] = job[v],
           cleaner' = cleaner, row'.session <= started',
           job'[w].session <= started', ReportIsTrue(job'[w], kernels')
    PROVE  SessionsWereStarted' /\ ReportsAreTrue'
<1>1. \A v \in Workers : job'[v].session <= started'
                         /\ ReportIsTrue(job'[v], kernels')
  BY ReportsStay
<1> QED
  BY <1>1, ReportsStay DEF SessionsWereStarted, ReportsAreTrue

\* ... of one that moves no job and no pass.
LEMMA RowSessions ==
    ASSUME TypeOK, SessionsWereStarted, ReportsAreTrue, [Next]_vars,
           job' = job, cleaner' = cleaner, row'.session <= started'
    PROVE  SessionsWereStarted' /\ ReportsAreTrue'
BY ReportsStay DEF SessionsWereStarted, ReportsAreTrue

\* ... and of a step of the pass c.
LEMMA PassSessions ==
    ASSUME TypeOK, SessionsWereStarted, ReportsAreTrue, [Next]_vars,
           NEW c \in Cleaners,
           \A d \in Cleaners : d # c => cleaner'[d] = cleaner[d],
           job' = job, row'.session <= started',
           cleaner'[c].session <= started',
           PassReportIsTrue(cleaner'[c], kernels')
    PROVE  SessionsWereStarted' /\ ReportsAreTrue'
<1>1. \A d \in Cleaners : cleaner'[d].session <= started'
                          /\ PassReportIsTrue(cleaner'[d], kernels')
  BY ReportsStay
<1> QED
  BY <1>1, ReportsStay DEF SessionsWereStarted, ReportsAreTrue

\* A step between two transactions keeps to the session of its job.
LEMMA LocalKeepsSessions ==
    ASSUME TypeOK, LifecycleIsGood, SessionsAreGood, [Next]_vars,
           NEW w \in Workers, LocalStep(w), cleaner' = cleaner
    PROVE  SessionsAreGood'
<1> DEFINE j == job[w]
           k == job'[w]
<1>d. row' = row /\ lease' = lease /\ attempt' = attempt
  BY LocalKeepsRows DEF db
<1>s. /\ SessionsWereStarted /\ ReportsAreTrue /\ DoomedAreFree
      /\ HoldersOnSession /\ CancellersOnSession /\ MultiIsListed
  BY DEF SessionsAreGood
<1>m. /\ \A v \in Workers : v # w => job'[v] = job[v]
      /\ LocalMove(w, j, k)
  BY <1>s, LocalMoves
<1>t. started \in Nat /\ started' \in Nat /\ j.session \in Nat
      /\ j.session <= started /\ j.session <= started'
  <2>1. started \in Nat /\ j.session \in Nat /\ j.session <= started
    BY <1>s DEF TypeOK, Job, SessionsWereStarted
  <2> QED
    BY <2>1, <1>s, RuntimeStep, ReportsStay
<1>1. SessionsWereStarted' /\ ReportsAreTrue'
  <2>1. k.session <= started' /\ ReportIsTrue(k, kernels')
    BY <1>m, <1>t DEF LocalMove, NoSession
  <2> QED
    BY <2>1, <1>d, <1>m, <1>s, JobSessions, ReportsStay
<1>h. ASSUME NEW v \in Workers, HoldsRun(v)'
      PROVE  HoldsRun(v) \/ (v = w /\ k.pc \in {"idle", "dead"})
  BY <1>h, <1>d, <1>m DEF HoldsRun, Holds, LocalMove
<1>2. DoomedAreFree'
  <2> SUFFICES ASSUME NEW c \in Cleaners, cleaner[c].pc = "delete"
               PROVE  IsFree(cleaner[c].session)'
    BY DEF DoomedAreFree
  <2>1. /\ IsFree(cleaner[c].session) /\ cleaner[c].session # NoSession
        /\ cleaner[c].session \in Nat /\ cleaner[c].session <= started
    BY <1>s DEF DoomedAreFree, ReportsAreTrue, PassReportIsTrue, TypeOK,
                Observation, SessionsWereStarted
  <2>2. ASSUME NEW v \in Workers, HoldsRun(v)'
        PROVE  job'[v].session # cleaner[c].session
    <3>1. CASE v # w
      BY <2>1, <2>2, <3>1, <1>h, <1>m DEF IsFree
    <3>2. CASE v = w /\ k.pc \in {"idle", "dead"}
      BY <2>1, <3>2, <1>m DEF LocalMove
    <3>3. CASE v = w /\ k.pc \notin {"idle", "dead"}
      <4>1. HoldsRun(w) /\ j.session # cleaner[c].session
        BY <2>1, <2>2, <3>3, <1>h DEF IsFree
      <4> QED
        BY <2>1, <3>3, <4>1, <1>m, <1>t DEF LocalMove
    <3> QED
      BY <3>1, <3>2, <3>3
  <2> QED
    BY <2>1, <2>2, <1>d DEF IsFree
<1>3. HoldersOnSession'
  <2> SUFFICES ASSUME NEW v \in Workers, HoldsRun(v)'
               PROVE  OnItsSession(job'[v], row')
    BY DEF HoldersOnSession
  <2>1. CASE v # w
    BY <2>1, <1>h, <1>m, <1>d, <1>s DEF HoldersOnSession
  <2>2. CASE v = w /\ k.pc \in {"idle", "dead"}
    BY <2>2, <1>m DEF OnItsSession, OnSessionPc
  <2>3. CASE v = w /\ k.pc \notin {"idle", "dead"}
    <3>1. HoldsRun(w) /\ OnItsSession(j, row) /\ Position(j, row, steps)
      BY <2>3, <1>h, <1>s DEF HoldersOnSession, LifecycleIsGood, HoldersAreGood
    <3>2. k.pc \in OnSessionPc \cup {"aborting", "abortRecord"} =>
            k.session = row.session
      BY <3>1, <1>m DEF OnItsSession, LocalMove, OnSet
    <3>3. k.pc \in {"prepare", "record"} =>
            \/ k.session = row.session /\ k.session # NoSession
            \/ k.seq = 1 /\ ~row.finReq
      <4>1. j.pc = "check" => j.session = row.session /\ row.session # NoSession
        BY <3>1 DEF OnItsSession, Position, OnSessionPc
      <4>2. j.pc = "prepare" =>
              \/ j.session = row.session /\ j.session # NoSession
              \/ j.seq = 1 /\ ~row.finReq
        BY <3>1 DEF OnItsSession
      <4> QED
        BY <4>1, <4>2, <1>m DEF LocalMove
    <3>4. row.mode = "MULTI" /\ row.session # NoSession
            => k.session = row.session
      <4>1. j.pc \notin {"idle", "dead"}
        BY <2>3, <1>m DEF LocalMove
      <4> QED
        BY <2>3, <3>1, <4>1, <1>m DEF LocalMove, OnItsSession
    <3>5. row.mode = "MULTI" /\ k.pc = "finalize"
            /\ k.end.cleanup = "NOT_REQUIRED" => k.session = NoSession
      BY <3>1, <1>m DEF LocalMove
    <3> QED
      BY <2>3, <3>2, <3>3, <3>4, <3>5, <1>d DEF OnItsSession
  <2> QED
    BY <2>1, <2>2, <2>3
<1>4. CancellersOnSession'
  <2> SUFFICES ASSUME NEW v \in Workers, HoldsCancellation(v)'
               PROVE  CancelsItsSession(job'[v], row')
    BY DEF CancellersOnSession
  <2>1. CASE v # w
    BY <2>1, <1>m, <1>d, <1>s DEF CancellersOnSession, HoldsCancellation
  <2>2. CASE v = w /\ k.pc \notin CancelPc
    BY <2>2 DEF CancelsItsSession
  <2>3. CASE v = w /\ k.pc \in CancelPc
    <3>1. /\ k.pc = "cancelFinalize" /\ j.pc = "cancelStop"
          /\ k.session = j.session /\ k.fence = j.fence
          /\ k.end.cleanup = "NOT_REQUIRED" => k.session = NoSession
      BY <2>3, <1>m DEF LocalMove
    <3>2. CancelsItsSession(j, row)
      BY <2>3, <3>1, <1>d, <1>s DEF CancellersOnSession, HoldsCancellation
    <3> QED
      BY <2>3, <3>1, <3>2, <1>d DEF CancelsItsSession, CancelPc
  <2> QED
    BY <2>1, <2>2, <2>3
<1>5. MultiIsListed'
  BY <1>d, <1>s DEF MultiIsListed
<1> QED
  BY <1>1, <1>2, <1>3, <1>4, <1>5 DEF SessionsAreGood

----------------------------------------------------------------------------
(* Sessions: the transactions of a run. *)

\* What is left to show of a transaction of the Worker that holds the run.
LEMMA HolderSessions ==
    ASSUME TypeOK, SessionsAreGood, [Next]_vars,
           NEW w \in Workers, HoldsRun(w), cleaner' = cleaner,
           \A v \in Workers : v # w => job'[v] = job[v],
           lease'.owner \in {w, NoWorker}, row'.status # "CANCEL_REQUESTED",
           row'.session \in {row.session, job[w].session, NoSession},
           job'[w].session \in {job[w].session, NoSession},
           ReportIsTrue(job'[w], kernels'),
           lease'.owner = w => OnItsSession(job'[w], row'),
           MultiIsListed'
    PROVE  SessionsAreGood'
<1>s. SessionsWereStarted /\ ReportsAreTrue /\ DoomedAreFree
  BY DEF SessionsAreGood
<1>r. row.status = "RUNNING"
  BY DEF HoldsRun, Holds
<1>1. SessionsWereStarted' /\ ReportsAreTrue'
  <2>1. /\ row.session <= started' /\ job[w].session <= started'
        /\ NoSession <= started'
    BY <1>s, ReportsStay
  <2>2. row'.session <= started' /\ job'[w].session <= started'
    BY <2>1
  <2> QED
    BY <2>2, <1>s, JobSessions
<1>2. \A v \in Workers : HoldsRun(v)' => v = w /\ lease'.owner = w
  BY WorkersAssumption DEF HoldsRun, Holds
<1>3. DoomedAreFree'
  <2> SUFFICES ASSUME NEW c \in Cleaners, cleaner[c].pc = "delete"
               PROVE  IsFree(cleaner[c].session)'
    BY DEF DoomedAreFree
  <2>1. IsFree(cleaner[c].session) /\ cleaner[c].session # NoSession
    BY <1>s DEF DoomedAreFree, ReportsAreTrue, PassReportIsTrue
  <2>2. row.session # cleaner[c].session /\ job[w].session # cleaner[c].session
    BY <2>1, <1>r DEF IsFree
  <2> QED
    BY <2>1, <2>2, <1>2 DEF IsFree
<1>4. HoldersOnSession'
  BY <1>2 DEF HoldersOnSession
<1>5. CancellersOnSession'
  BY DEF CancellersOnSession, HoldsCancellation
<1> QED
  BY <1>1, <1>3, <1>4, <1>5 DEF SessionsAreGood

\* A run keeps to its session while it records what it did.
LEMMA RunSessions ==
    ASSUME TypeOK, LifecycleIsGood, SessionsAreGood, [Next]_vars,
           NEW w \in Workers,
           \/ RecordRuntimeSession(w) \/ MarkStarted(w) \/ MarkSucceeded(w)
           \/ MarkFailed(w) \/ SkipStepsAfter(w) \/ AbortBegin(w)
           \/ AbortRecord(w) \/ AbortMark(w)
    PROVE  SessionsAreGood'
<1> DEFINE j == job[w]
           k == job'[w]
           Others == \A v \in Workers : v # w => job'[v] = job[v]
<1>t. job \in [Workers -> Job] /\ j \in Job /\ row \in Row
      /\ row.mode \in {"SINGLE", "MULTI"}
  BY DEF TypeOK, Row, OperationMode
<1>h. HoldsRun(w) /\ row.status = "RUNNING" /\ lease.owner = w
  BY DEF RecordRuntimeSession, MarkStarted, MarkSucceeded, MarkFailed,
         SkipStepsAfter, AbortBegin, AbortRecord, AbortMark, HoldsRun, Holds
<1>g. OnItsSession(j, row) /\ ReportIsTrue(j, kernels)
      /\ JobIsGood(j, row.mode)
  BY <1>h DEF SessionsAreGood, HoldersOnSession, ReportsAreTrue,
              LifecycleIsGood, JobsAreGood
<1>u. lease' = lease /\ kernels' = kernels /\ cleaner' = cleaner
  BY DEF RecordRuntimeSession, MarkStarted, MarkSucceeded, MarkFailed,
         SkipStepsAfter, AbortBegin, AbortRecord, AbortMark, runtime
<1>c. /\ NoEnding.cleanup = "NOT_REQUIRED" /\ Retaining.cleanup = "NOT_REQUIRED"
  BY DEF NoEnding, Retaining
<1>1. CASE RecordRuntimeSession(w)
  <2>1. /\ j.pc = "record" /\ k.pc \in {"complete", "next"}
        /\ k.session = j.session /\ k.end = j.end /\ Others
    BY <1>1, <1>t, GoIs DEF RecordRuntimeSession
  <2>2. /\ row'.session = j.session /\ row'.status = "RUNNING"
        /\ row'.mode = row.mode
    BY <1>1, <1>t, <1>h DEF RecordRuntimeSession, Row
  <2>3. ReportIsTrue(k, kernels')
    BY <2>1, <1>g, <1>u DEF ReportIsTrue
  <2>4. OnItsSession(k, row')
    BY <2>1, <2>2 DEF OnItsSession, OnSessionPc
  <2>5. MultiIsListed'
    BY <2>2 DEF MultiIsListed, TerminalStatus
  <2> QED
    BY <2>1, <2>2, <2>3, <2>4, <2>5, <1>h, <1>u, HolderSessions
\* Every other one starts and ends on the session of the row
<1>2. CASE ~RecordRuntimeSession(w)
  <2>1. /\ row'.session = row.session /\ row'.status = row.status
        /\ row'.mode = row.mode /\ row'.finReq = row.finReq
    BY <1>2, <1>t DEF MarkStarted, MarkSucceeded, MarkFailed, SkipStepsAfter,
                      AbortBegin, AbortRecord, AbortMark, Row
  <2>2. j.pc \in OnSessionPc \cup {"aborting", "abortRecord"}
    BY <1>2 DEF MarkStarted, MarkSucceeded, MarkFailed, SkipStepsAfter,
                AbortBegin, AbortRecord, AbortMark, OnSessionPc
  <2>3. /\ k.session = j.session /\ Others
        /\ k.pc \in {"execute", "publish", "stop", "evidence", "opSkip",
                     "opDone", "abortFinalize", "aborting", "abortMark",
                     "finalize", "abortSkip"}
        /\ k.pc = "finalize" => row.mode = "SINGLE"
        /\ k.pc \in {"abortMark", "abortSkip", "abortFinalize"} =>
             /\ j.pc \in {"abortRecord", "abortMark", "abortSkip"}
             /\ k.end = j.end
        /\ k.end = j.end \/ k.end.cleanup = "NOT_REQUIRED"
    <3>1. CASE MarkStarted(w) \/ MarkSucceeded(w)
      BY <3>1, <1>t, GoIs DEF MarkStarted, MarkSucceeded
    <3>2. CASE MarkFailed(w)
      BY <3>2, <1>t, <1>c, GoIs, GoEndingIs DEF MarkFailed
    <3>3. CASE SkipStepsAfter(w)
      BY <3>3, <1>t, GoIs DEF SkipStepsAfter
    <3>4. CASE AbortBegin(w) \/ AbortRecord(w)
      BY <3>4, <1>t, GoIs DEF AbortBegin, AbortRecord
    <3>5. CASE AbortMark(w)
      BY <3>5, <1>t, GoIs DEF AbortMark, Mode
    <3> QED
      BY <1>2, <3>1, <3>2, <3>3, <3>4, <3>5
  <2>4. ReportIsTrue(k, kernels')
    BY <2>3, <1>g, <1>u DEF ReportIsTrue
  <2>5. OnItsSession(k, row')
    BY <2>1, <2>2, <2>3, <1>g DEF OnItsSession
  <2>6. MultiIsListed'
    BY <2>1, <1>h DEF MultiIsListed, TerminalStatus
  <2> QED
    BY <2>1, <2>3, <2>4, <2>5, <2>6, <1>h, <1>u, HolderSessions
<1> QED
  BY <1>1, <1>2

\* A run that ends leaves a MULTI session on the row only with a cleanup.
LEMMA RunEndSessions ==
    ASSUME TypeOK, LifecycleIsGood, SessionsAreGood, [Next]_vars,
           NEW w \in Workers,
           \/ DeferRetainedRetry(w) \/ CompleteOperation(w) \/ Finalize(w)
           \/ ReleaseForHandover(w)
    PROVE  SessionsAreGood'
<1> DEFINE j == job[w]
           k == job'[w]
           Others == \A v \in Workers : v # w => job'[v] = job[v]
<1>t. /\ job \in [Workers -> Job] /\ j \in Job /\ row \in Row
      /\ lease \in Lease /\ j.end \in Ending
      /\ row.mode \in {"SINGLE", "MULTI"}
  BY DEF TypeOK, Row, OperationMode, Job
<1>h. HoldsRun(w) /\ row.status = "RUNNING" /\ lease.owner = w
  BY DEF DeferRetainedRetry, CompleteOperation, Finalize, ReleaseForHandover,
         HoldsRun, Holds
<1>g. OnItsSession(j, row) /\ ReportIsTrue(j, kernels)
      /\ JobIsGood(j, row.mode)
  BY <1>h DEF SessionsAreGood, HoldersOnSession, ReportsAreTrue,
              LifecycleIsGood, JobsAreGood
<1>u. kernels' = kernels /\ cleaner' = cleaner
  BY DEF DeferRetainedRetry, CompleteOperation, Finalize, ReleaseForHandover,
         runtime
<1>c. /\ Failing(RestartStrategy).cleanup = "NOT_REQUIRED"
      /\ Idle.end.cleanup = "NOT_REQUIRED" /\ Dead.end.cleanup = "NOT_REQUIRED"
      /\ Idle.session = NoSession /\ Dead.session = NoSession
      /\ Idle.pc = "idle" /\ Dead.pc = "dead"
  BY DEF NoEnding, Failing, Idle, Dead
<1>r. Released(lease).owner = NoWorker
  BY <1>t DEF Released, Lease
<1>e. ASSUME JobEnds(w)
      PROVE  k.session = NoSession /\ Others /\ ReportIsTrue(k, kernels')
  <2>1. (k = Idle \/ k = Dead) /\ Others
    BY <1>e, <1>t DEF JobEnds
  <2> QED
    BY <2>1, <1>c DEF ReportIsTrue
<1>w. w # NoWorker
  BY WorkersAssumption
<1>1. CASE DeferRetainedRetry(w) \/ CompleteOperation(w)
  <2>1. /\ row'.session = row.session
        /\ row'.status \in {"QUEUED", "WAITING_FOR_OPERATION"}
    BY <1>1, <1>t DEF DeferRetainedRetry, CompleteOperation, Row
  <2>2. JobEnds(w) /\ lease'.owner = NoWorker
    BY <1>1, <1>r DEF DeferRetainedRetry, CompleteOperation
  <2>3. MultiIsListed'
    BY <2>1 DEF MultiIsListed, TerminalStatus
  <2> QED
    BY <2>1, <2>2, <2>3, <1>e, <1>h, <1>u, <1>w, HolderSessions
<1>2. CASE Finalize(w)
  <2> DEFINE end == j.end
             cleanup == FinalCleanup(w)
  <2>1. PICK from :
          row' = [row EXCEPT
                !.status = end.status, !.strategy = end.strategy,
                !.from = from,
                !.retained = IF end.retain THEN "OPEN" ELSE "NONE",
                !.cleanup = cleanup,
                !.abort = ResolvedAbort(@, cleanup),
                !.session = IF end.retain THEN @ ELSE SessionAfter(@, cleanup)]
    BY <1>2 DEF Finalize
  <2>2. /\ row'.status = end.status /\ row'.mode = row.mode
        /\ row'.cleanup = cleanup
        /\ row'.session = IF end.retain THEN row.session
                          ELSE SessionAfter(row.session, cleanup)
    BY <2>1, <1>t DEF Row
  <2>3. /\ j.pc \in {"finalize", "finalizeOk", "abortFinalize"}
        /\ JobEnds(w) /\ lease'.owner = NoWorker
        /\ end.status \in {"SUCCEEDED", "FAILED"}
        /\ end.cleanup \in CleanupStatus /\ cleanup \in CleanupStatus
    BY <1>2, <1>t, <1>r DEF Finalize, Ending, FinalCleanup, CleanupStatus
  <2>4. row'.session \in {row.session, NoSession}
    BY <2>2 DEF SessionAfter
  <2>5. ASSUME row.mode = "MULTI", row'.session # NoSession
        PROVE  cleanup \in UnresolvedCleanup
    <3>1. ~end.retain
      BY <2>3, <2>5, <1>g DEF JobIsGood, FailsPlainly, FailsRetaining
    <3>2. cleanup # "SUCCEEDED" /\ row.session # NoSession
      BY <2>2, <2>5, <3>1 DEF SessionAfter
    <3>3. j.session = row.session
      BY <2>3, <2>5, <3>2, <1>g DEF OnItsSession
    <3>4. end.cleanup # "NOT_REQUIRED"
      BY <2>3, <2>5, <3>1, <3>2, <3>3, <1>g
         DEF OnItsSession, ReportIsTrue, JobIsGood
    <3> QED
      BY <2>3, <3>2, <3>4 DEF FinalCleanup, CleanupStatus, UnresolvedCleanup
  <2>6. MultiIsListed'
    BY <2>2, <2>5 DEF MultiIsListed
  <2> QED
    BY <2>2, <2>3, <2>4, <2>6, <1>e, <1>h, <1>u, <1>w, HolderSessions
<1>3. CASE ReleaseForHandover(w)
  <2>1. row' = row
    BY <1>3 DEF ReleaseForHandover
  <2>2. MultiIsListed'
    BY <2>1, <1>h DEF MultiIsListed, TerminalStatus
  <2>3. CASE BeginHandover /\ JobEnds(w)
    <3>1. lease'.owner = NoWorker
      BY <2>3, <1>t DEF BeginHandover, Released, Lease
    <3> QED
      BY <2>1, <2>2, <2>3, <3>1, <1>e, <1>h, <1>u, <1>w, HolderSessions
  <2>4. CASE lease' = lease /\ GoEnding(w, "stop", Failing(RestartStrategy))
    <3>1. /\ j.pc = "relHandover" /\ k.pc = "stop" /\ k.session = j.session
          /\ k.end = Failing(RestartStrategy) /\ Others
      BY <2>4, <1>3, <1>t, GoEndingIs DEF ReleaseForHandover
    <3>2. ReportIsTrue(k, kernels')
      BY <3>1, <1>c DEF ReportIsTrue
    <3>3. OnItsSession(k, row')
      BY <2>1, <3>1, <1>g DEF OnItsSession, OnSessionPc
    <3> QED
      BY <2>1, <2>2, <2>4, <3>1, <3>2, <3>3, <1>h, <1>u, HolderSessions
  <2> QED
    BY <1>3, <2>3, <2>4 DEF ReleaseForHandover
<1> QED
  BY <1>1, <1>2, <1>3

----------------------------------------------------------------------------
(* Sessions: commands, claims and cancellations. *)

\* Deleting the session s would be right for the row r
SparesRow(r, s) ==
    r.session = s => /\ r.status \in {"FAILED", "CANCELLED"}
                     /\ r.cleanup \in UnresolvedCleanup

\* Nobody may commit after a step that leaves no lease on what it leaves.
LEMMA RestSessions ==
    ASSUME SessionsWereStarted', ReportsAreTrue',
           row'.status # "RUNNING" \/ lease'.owner = NoWorker,
           row'.status # "CANCEL_REQUESTED" \/ lease'.cowner = NoWorker,
           \A c \in Cleaners : cleaner'[c].pc = "delete" =>
                                 SparesRow(row', cleaner'[c].session),
           MultiIsListed'
    PROVE  SessionsAreGood'
<1>1. \A w \in Workers : ~HoldsRun(w)' /\ ~HoldsCancellation(w)'
  BY WorkersAssumption DEF HoldsRun, Holds, HoldsCancellation
<1>2. DoomedAreFree' /\ HoldersOnSession' /\ CancellersOnSession'
  BY <1>1 DEF DoomedAreFree, IsFree, SparesRow, HoldersOnSession,
              CancellersOnSession
<1> QED
  BY <1>2 DEF SessionsAreGood

\* No pass deletes the session of an Execution that has not ended.
LEMMA OpenIsSpared ==
    ASSUME SessionsAreGood, NEW c \in Cleaners, cleaner[c].pc = "delete"
    PROVE  /\ SparesRow(row, cleaner[c].session)
           /\ row.status \notin {"FAILED", "CANCELLED"} =>
                row.session # cleaner[c].session
           /\ cleaner[c].session # NoSession
BY DEF SessionsAreGood, DoomedAreFree, IsFree, SparesRow, ReportsAreTrue,
       PassReportIsTrue

\* Commands of the caller.
LEMMA CommandSessions ==
    ASSUME TypeOK, LifecycleIsGood, TokensUnique, SessionsAreGood,
           [Next]_vars, Command \/ RequestExpiredCancellation
    PROVE  SessionsAreGood'
<1>t. row \in Row
  BY DEF TypeOK
<1>s. SessionsWereStarted /\ ReportsAreTrue
  BY DEF SessionsAreGood
<1>u. job' = job /\ cleaner' = cleaner
  BY DEF Command, RequestCancel, RequestRetry, RequestOperation,
         RequestFinalization, RequestExpiredCancellation
<1>1. row'.session = row.session /\ row'.mode = row.mode
      /\ row'.status \notin TerminalStatus \cup {"RUNNING"}
  BY <1>t DEF Command, RequestCancel, RequestRetry, RequestOperation,
              RequestFinalization, RequestExpiredCancellation, Row,
              TerminalStatus
<1>2. SessionsWereStarted' /\ ReportsAreTrue'
  BY <1>s, <1>u, <1>1, ReportsStay, RowSessions
<1>3. MultiIsListed'
  BY <1>1 DEF MultiIsListed
<1>4. ASSUME NEW c \in Cleaners, cleaner'[c].pc = "delete"
      PROVE  SparesRow(row', cleaner'[c].session)
  <2>1. CASE row.status \notin {"FAILED", "CANCELLED"}
    BY <2>1, <1>1, <1>4, <1>u, OpenIsSpared DEF SparesRow
  <2>2. CASE row.status \in {"FAILED", "CANCELLED"}
    <3>1. RequestRetry
      BY <2>2 DEF Command, RequestCancel, RequestOperation,
                  RequestFinalization, RequestExpiredCancellation, PastMaximum
    <3>2. /\ row.status = "FAILED" /\ row.strategy # "NOT_RETRYABLE"
          /\ row.strategy = "FROM_START" =>
               ~(row.cleanup \in UnresolvedCleanup /\ row.session # NoSession)
      BY <3>1 DEF RequestRetry
    <3>3. row.strategy = "FROM_FAILED_STEP" => row.cleanup = "NOT_REQUIRED"
      BY <3>2 DEF LifecycleIsGood, RowIsGood, EndIsGood, TerminalStatus
    <3>4. row.strategy \in {"FROM_START", "FROM_FAILED_STEP"}
      BY <3>2, <1>t DEF Row, RetryStrategy
    <3>5. row.session # cleaner[c].session
      BY <1>4, <1>u, <3>2, <3>3, <3>4, OpenIsSpared
         DEF SparesRow, UnresolvedCleanup
    <3> QED
      BY <3>5, <1>1, <1>u DEF SparesRow
  <2> QED
    BY <2>1, <2>2
<1>5. row'.status # "CANCEL_REQUESTED" \/ lease'.cowner = NoWorker
  <2> SUFFICES ASSUME row'.status = "CANCEL_REQUESTED"
               PROVE  lease'.cowner = NoWorker
    OBVIOUS
  <2>1. lease' = lease /\ row.status # "CANCEL_REQUESTED"
    BY <1>t DEF Command, RequestCancel, RequestRetry, RequestOperation,
                RequestFinalization, RequestExpiredCancellation, PastMaximum,
                Row
  <2> QED
    BY <2>1 DEF TokensUnique
<1> QED
  BY <1>1, <1>2, <1>3, <1>4, <1>5, RestSessions

\* A claim gives its Worker the session of the row, or none.
LEMMA ClaimSessions ==
    ASSUME TypeOK, LifecycleIsGood, SessionsAreGood, [Next]_vars,
           NEW w \in Workers, Claim(w)
    PROVE  SessionsAreGood'
<1> DEFINE k == job'[w]
           Others == \A v \in Workers : v # w => job'[v] = job[v]
<1>t. /\ job \in [Workers -> Job] /\ row \in Row /\ lease \in Lease
      /\ row.mode \in {"SINGLE", "MULTI"}
  BY DEF TypeOK, Row, OperationMode
<1>s. SessionsWereStarted /\ ReportsAreTrue
  BY DEF SessionsAreGood
<1>u. kernels' = kernels /\ cleaner' = cleaner
  BY DEF Claim, ClaimWaiting, ClaimNew, ClaimHandover, ClaimCancellation,
         runtime
<1>r. row.status \notin TerminalStatus
  BY DEF Claim, ClaimWaiting, ClaimNew, ClaimHandover, ClaimCancellation,
         Claimable, CancellationClaimable, TerminalStatus
<1>1. PICK pc, session, seq : Claimed(w, pc, session, seq)
  BY DEF Claim, ClaimWaiting, ClaimNew, ClaimHandover, ClaimCancellation
<1>2. k.end = NoEnding /\ Others /\ k.pc = pc /\ k.session = session
      /\ k.seq = seq
  BY <1>1, <1>t DEF Claimed, Idle
<1>3. /\ k.session \in {row.session, NoSession}
      /\ k.pc \in {"prepare", "check", "takeover", "cancelStop"}
      /\ row'.session = row.session /\ row'.mode = row.mode
      /\ row'.finReq = row.finReq
      /\ row'.status \notin TerminalStatus
  <2>1. CASE ClaimWaiting(w)
    BY <2>1, <1>t, ClaimedIs DEF ClaimWaiting, Row, TerminalStatus
  <2>2. CASE ClaimNew(w)
    BY <2>2, <1>t, ClaimedIs DEF ClaimNew, Row, TerminalStatus
  <2>3. CASE ClaimHandover(w) \/ ClaimCancellation(w)
    BY <2>3, <1>t, <1>r, ClaimedIs DEF ClaimHandover, ClaimCancellation
  <2> QED
    BY <2>1, <2>2, <2>3 DEF Claim
<1>4. SessionsWereStarted' /\ ReportsAreTrue'
  <2>1. ReportIsTrue(k, kernels')
    BY <1>2, <1>3 DEF ReportIsTrue, NoEnding
  <2>2. row'.session <= started' /\ k.session <= started'
    BY <1>s, <1>3, ReportsStay
  <2> QED
    BY <2>1, <2>2, <1>2, <1>s, <1>u, JobSessions
<1>5. MultiIsListed'
  BY <1>3 DEF MultiIsListed
<1>6. ASSUME NEW c \in Cleaners, cleaner[c].pc = "delete"
      PROVE  row'.session # cleaner[c].session /\ k.session # cleaner[c].session
  BY <1>3, <1>6, <1>r, OpenIsSpared DEF TerminalStatus
<1>7. CASE ClaimWaiting(w) \/ ClaimNew(w) \/ ClaimHandover(w)
  <2>1. lease'.owner = w /\ row'.status = "RUNNING"
    BY <1>7, <1>t DEF ClaimWaiting, ClaimNew, ClaimHandover, Granted, Lease, Row
  <2>2. \A v \in Workers : (HoldsRun(v)' => v = w) /\ ~HoldsCancellation(v)'
    BY <2>1 DEF HoldsRun, Holds, HoldsCancellation
  <2>3. OnItsSession(k, row')
    <3>1. CASE ClaimWaiting(w)
      <4>1. /\ k.pc = "prepare" /\ k.session = row.session
            /\ row.session # NoSession
        BY <3>1, <1>t, ClaimedIs DEF ClaimWaiting, ContinuesAttempt
      <4> QED
        BY <4>1, <1>3 DEF OnItsSession, OnSessionPc
    <3>2. CASE ClaimNew(w) /\ IsResume
      <4>1. k.pc = "check" /\ k.session = row.session
        BY <3>2, <1>t, ClaimedIs DEF ClaimNew
      <4> QED
        BY <4>1, <1>3 DEF OnItsSession, OnSessionPc
    <3>3. CASE ClaimNew(w) /\ ~IsResume
      <4>1. /\ k.pc = "prepare" /\ k.seq = 1 /\ Claimable
            /\ row.mode = "MULTI" => row.session = NoSession
        BY <3>3, <1>t, ClaimedIs DEF ClaimNew, ContinuesAttempt, Mode
      <4>2. row.status = "QUEUED"
        BY <4>1, <1>t DEF Claimable, LifecycleIsGood, RowIsGood, ModeIsGood,
                          WaitingIsGood
      <4>3. ~row.finReq
        BY <4>2 DEF LifecycleIsGood, RowIsGood, QueuedIsGood
      <4> QED
        BY <4>1, <4>3, <1>3 DEF OnItsSession, OnSessionPc
    <3>4. CASE ClaimHandover(w)
      <4>1. k.pc = "takeover" /\ k.session = row.session
        BY <3>4, <1>t, ClaimedIs DEF ClaimHandover
      <4> QED
        BY <4>1, <1>3 DEF OnItsSession, OnSessionPc
    <3> QED
      BY <1>7, <3>1, <3>2, <3>3, <3>4
  <2>4. HoldersOnSession' /\ CancellersOnSession'
    BY <2>2, <2>3 DEF HoldersOnSession, CancellersOnSession
  <2>5. DoomedAreFree'
    BY <2>2, <1>6, <1>u DEF DoomedAreFree, IsFree
  <2> QED
    BY <1>4, <1>5, <2>4, <2>5 DEF SessionsAreGood
<1>8. CASE ClaimCancellation(w)
  <2>1. /\ k.pc = "cancelStop" /\ k.session = row.session
        /\ row' = row /\ row.status = "CANCEL_REQUESTED"
    BY <1>8, <1>t, ClaimedIs DEF ClaimCancellation, CancellationClaimable
  <2>2. lease'.cowner = w
    BY <1>8, <1>t DEF ClaimCancellation, CancellationClaimable,
                      CancellationGranted, Released, Lease
  <2>3. \A v \in Workers : (HoldsCancellation(v)' => v = w) /\ ~HoldsRun(v)'
    BY <2>1, <2>2 DEF HoldsRun, Holds, HoldsCancellation
  <2>4. CancelsItsSession(k, row')
    BY <2>1 DEF CancelsItsSession
  <2>5. HoldersOnSession' /\ CancellersOnSession'
    BY <2>3, <2>4 DEF HoldersOnSession, CancellersOnSession
  <2>6. DoomedAreFree'
    BY <2>3, <1>6, <1>u DEF DoomedAreFree, IsFree
  <2> QED
    BY <1>4, <1>5, <2>5, <2>6 DEF SessionsAreGood
<1> QED
  BY <1>7, <1>8 DEF Claim

\* A cancellation that ends leaves a session on the row only with a cleanup.
LEMMA CancelSessions ==
    ASSUME TypeOK, LifecycleIsGood, SessionsAreGood, [Next]_vars,
           NEW w \in Workers, ReleaseForCancellation(w) \/ CancelFinalize(w)
    PROVE  SessionsAreGood'
<1> DEFINE j == job[w]
           k == job'[w]
<1>t. /\ job \in [Workers -> Job] /\ row \in Row /\ lease \in Lease
      /\ j.end \in Ending
  BY DEF TypeOK, Job
<1>s. SessionsWereStarted /\ ReportsAreTrue
  BY DEF SessionsAreGood
<1>u. kernels' = kernels /\ cleaner' = cleaner
  BY DEF ReleaseForCancellation, CancelFinalize, runtime
<1>r. row.status = "CANCEL_REQUESTED"
  BY DEF ReleaseForCancellation, CancelFinalize, Holds, HoldsCancellation
<1>1. /\ k.pc \in {"idle", "dead"} /\ k.session = NoSession
      /\ k.end = NoEnding /\ \A v \in Workers : v # w => job'[v] = job[v]
  <2>1. JobEnds(w)
    BY DEF ReleaseForCancellation, CancelFinalize
  <2> QED
    BY <2>1, <1>t DEF JobEnds, Idle, Dead
<1>2. ASSUME row'.session \in {row.session, NoSession}
      PROVE  SessionsWereStarted' /\ ReportsAreTrue'
  <2>1. ReportIsTrue(k, kernels')
    BY <1>1 DEF ReportIsTrue, NoEnding
  <2>2. row'.session <= started' /\ k.session <= started'
    BY <1>s, <1>1, <1>2, ReportsStay
  <2> QED
    BY <2>1, <2>2, <1>1, <1>s, <1>u, JobSessions
<1>3. CASE ReleaseForCancellation(w)
  <2>1. row' = row /\ lease'.cowner = lease.cowner
        /\ lease'.fence = lease.fence /\ lease'.clive = lease.clive
    BY <1>3, <1>t DEF ReleaseForCancellation, Released, Lease
  <2>2. \A v \in Workers : ~HoldsRun(v)'
    BY <2>1, <1>r DEF HoldsRun, Holds
  <2>3. DoomedAreFree' /\ HoldersOnSession'
    BY <2>1, <2>2, <1>u
       DEF SessionsAreGood, DoomedAreFree, IsFree, HoldersOnSession
  <2>4. CancellersOnSession'
    <3> SUFFICES ASSUME NEW v \in Workers, HoldsCancellation(v)'
                 PROVE  CancelsItsSession(job'[v], row')
      BY DEF CancellersOnSession
    <3>1. CASE v = w
      BY <3>1, <1>1 DEF CancelsItsSession, CancelPc
    <3>2. CASE v # w
      BY <3>2, <1>1, <2>1
         DEF SessionsAreGood, CancellersOnSession, HoldsCancellation
    <3> QED
      BY <3>1, <3>2
  <2>5. MultiIsListed'
    BY <2>1 DEF SessionsAreGood, MultiIsListed
  <2> QED
    BY <2>1, <2>3, <2>4, <2>5, <1>2 DEF SessionsAreGood
<1>4. CASE CancelFinalize(w)
  <2> DEFINE cleanup == j.end.cleanup
  <2>1. PICK ending \in {"FAILED", "CANCELLED"} :
          row' = [row EXCEPT
                !.status = ending, !.strategy = "NOT_RETRYABLE", !.from = 0,
                !.retained = "NONE", !.cleanup = cleanup,
                !.abort = ResolvedAbort(@, cleanup),
                !.session = SessionAfter(@, cleanup)]
    BY <1>4 DEF CancelFinalize
  <2>2. /\ row'.status = ending /\ row'.mode = row.mode
        /\ row'.cleanup = cleanup
        /\ row'.session = SessionAfter(row.session, cleanup)
    BY <2>1, <1>t DEF Row
  <2>3. row'.session \in {row.session, NoSession}
    BY <2>2 DEF SessionAfter
  <2>4. j.pc = "cancelFinalize" /\ CancelsItsSession(j, row)
    BY <1>4 DEF CancelFinalize, SessionsAreGood, CancellersOnSession
  <2>5. row'.session # NoSession => cleanup \in UnresolvedCleanup
    <3>1. cleanup \in CleanupStatus
      BY <1>t DEF Ending
    <3>2. cleanup = "NOT_REQUIRED" => row.session = NoSession
      BY <2>4 DEF CancelsItsSession, CancelPc
    <3> QED
      BY <2>2, <3>1, <3>2 DEF SessionAfter, CleanupStatus, UnresolvedCleanup
  <2>6. MultiIsListed'
    BY <2>2, <2>5 DEF MultiIsListed
  <2>7. \A c \in Cleaners : cleaner'[c].pc = "delete" =>
                              SparesRow(row', cleaner'[c].session)
    BY <2>3, <1>r, <1>u, OpenIsSpared DEF SparesRow
  <2> QED
    BY <2>2, <2>3, <2>6, <2>7, <1>2, RestSessions
<1> QED
  BY <1>3, <1>4

----------------------------------------------------------------------------
(* Sessions: the passes. *)

\* What a pass knows after it captured a row.
LEMMA CaptureIs ==
    ASSUME cleaner \in [Cleaners -> Observation], NEW c \in Cleaners, NEW pc,
           Capture(c, pc)
    PROVE  /\ cleaner'[c].pc = pc /\ cleaner'[c].session = row'.session
           /\ cleaner'[c].out = "NOT_REQUIRED"
           /\ \A d \in Cleaners : d # c => cleaner'[d] = cleaner[d]
BY DEF Capture

\* ... and after it ended.
LEMMA PassEndsIs ==
    ASSUME cleaner \in [Cleaners -> Observation], NEW c \in Cleaners,
           PassEnds(c)
    PROVE  /\ cleaner'[c].pc = "idle" /\ cleaner'[c].session = NoSession
           /\ cleaner'[c].out = "NOT_REQUIRED"
           /\ \A d \in Cleaners : d # c => cleaner'[d] = cleaner[d]
BY DEF PassEnds, NoObservation

\* A step of a pass that touches no row.
LEMMA PassMoves ==
    ASSUME TypeOK, SessionsAreGood, [Next]_vars, NEW c \in Cleaners,
           UNCHANGED <<row, lease, attempt, job>>,
           \A d \in Cleaners : d # c => cleaner'[d] = cleaner[d],
           cleaner'[c].session \in {row.session, cleaner[c].session, NoSession},
           PassReportIsTrue(cleaner'[c], kernels'),
           cleaner'[c].pc = "delete" => IsFree(cleaner'[c].session)
    PROVE  SessionsAreGood'
<1>s. SessionsWereStarted /\ ReportsAreTrue
  BY DEF SessionsAreGood
<1>1. SessionsWereStarted' /\ ReportsAreTrue'
  <2>1. cleaner'[c].session <= started' /\ row'.session <= started'
    BY <1>s, ReportsStay
  <2> QED
    BY <2>1, <1>s, PassSessions
<1>2. \A w \in Workers : /\ HoldsRun(w)' <=> HoldsRun(w)
                         /\ HoldsCancellation(w)' <=> HoldsCancellation(w)
  BY DEF HoldsRun, Holds, HoldsCancellation
<1>3. HoldersOnSession' /\ CancellersOnSession' /\ MultiIsListed'
  BY <1>2 DEF SessionsAreGood, HoldersOnSession, CancellersOnSession,
              MultiIsListed
<1>4. DoomedAreFree'
  <2> SUFFICES ASSUME NEW d \in Cleaners, cleaner'[d].pc = "delete"
               PROVE  IsFree(cleaner'[d].session)
    BY <1>2 DEF DoomedAreFree, IsFree
  <2>1. CASE d = c
    BY <2>1
  <2>2. CASE d # c
    BY <2>2 DEF SessionsAreGood, DoomedAreFree
  <2> QED
    BY <2>1, <2>2
<1> QED
  BY <1>1, <1>3, <1>4 DEF SessionsAreGood

\* A pass that ends the Execution, or records what it did, leaves nobody who
\* may commit, and the other passes only a session that waits for them.
LEMMA PassEndsRun ==
    ASSUME TypeOK, SessionsAreGood, [Next]_vars, NEW c \in Cleaners,
           job' = job,
           \A d \in Cleaners : d # c => cleaner'[d] = cleaner[d],
           cleaner'[c].pc # "delete",
           cleaner'[c].session \in {row'.session, NoSession},
           PassReportIsTrue(cleaner'[c], kernels'),
           row'.status \notin {"RUNNING", "CANCEL_REQUESTED"},
           row'.session \in {row.session, NoSession},
           \/ row.status \notin {"FAILED", "CANCELLED"}
           \/ /\ row'.session # NoSession => row'.cleanup \in UnresolvedCleanup
              /\ row'.status \in {"FAILED", "CANCELLED"},
           MultiIsListed'
    PROVE  SessionsAreGood'
<1>s. SessionsWereStarted /\ ReportsAreTrue
  BY DEF SessionsAreGood
<1>1. SessionsWereStarted' /\ ReportsAreTrue'
  <2>1. row'.session <= started' /\ cleaner'[c].session <= started'
    BY <1>s, ReportsStay
  <2> QED
    BY <2>1, <1>s, PassSessions
<1>2. ASSUME NEW d \in Cleaners, cleaner'[d].pc = "delete"
      PROVE  SparesRow(row', cleaner'[d].session)
  <2>1. cleaner'[d] = cleaner[d]
    BY <1>2
  <2> QED
    BY <2>1, <1>2, OpenIsSpared DEF SparesRow
<1> QED
  BY <1>1, <1>2, RestSessions

\* Passes that start from the row.
LEMMA StartSessions ==
    ASSUME TypeOK, LifecycleIsGood, SessionsAreGood, [Next]_vars,
           NEW c \in Cleaners, StartPass(c)
    PROVE  SessionsAreGood'
<1>t. /\ row \in Row /\ cleaner \in [Cleaners -> Observation]
      /\ lease \in Lease
  BY DEF TypeOK
<1>u. job' = job /\ cleaner[c].pc = "idle"
  BY DEF StartPass, FailExpired, CleanupExpired, RetryUnresolved
<1>1. row'.session = row.session /\ row'.mode = row.mode
      /\ row'.status \in {"FAILED", "CANCELLED"}
  <2>1. CASE FailExpired(c) \/ CleanupExpired(c)
    BY <2>1, <1>t DEF FailExpired, CleanupExpired, Row
  <2>2. CASE RetryUnresolved(c)
    BY <2>2, <1>t DEF RetryUnresolved, SessionUnresolved, Row
  <2> QED
    BY <2>1, <2>2 DEF StartPass
<1>2. row'.session # NoSession => row'.cleanup = "PENDING"
  <2>1. CASE FailExpired(c)
    <3>1. row'.cleanup = CleanupOfAbandoned
      BY <2>1, <1>t DEF FailExpired, Row
    <3> QED
      BY <3>1, <1>1 DEF CleanupOfAbandoned
  <2>2. CASE CleanupExpired(c) \/ RetryUnresolved(c)
    BY <2>2, <1>t DEF CleanupExpired, RetryUnresolved, Row
  <2> QED
    BY <2>1, <2>2 DEF StartPass
<1>3. MultiIsListed'
  BY <1>2 DEF MultiIsListed, UnresolvedCleanup
<1>4. CASE row.session # NoSession
  <2>1. Capture(c, "validate")
    BY <1>4 DEF StartPass, FailExpired, CleanupExpired, RetryUnresolved
  <2>2. /\ cleaner'[c].pc = "validate" /\ cleaner'[c].session = row'.session
        /\ cleaner'[c].out = "NOT_REQUIRED"
        /\ \A d \in Cleaners : d # c => cleaner'[d] = cleaner[d]
    BY <2>1, <1>t, CaptureIs
  <2>3. PassReportIsTrue(cleaner'[c], kernels')
    BY <2>2, <1>1, <1>4 DEF PassReportIsTrue
  <2> QED
    BY <2>2, <2>3, <1>1, <1>2, <1>3, <1>u, PassEndsRun DEF UnresolvedCleanup
<1>5. CASE row.session = NoSession
  <2>1. FailExpired(c)
    BY <1>5 DEF StartPass, CleanupExpired, RetentionOver, RetryUnresolved,
                SessionUnresolved
  <2>2. cleaner' = cleaner
    BY <1>5, <2>1 DEF FailExpired
  <2>3. SessionsWereStarted' /\ ReportsAreTrue'
    BY <2>2, <1>1, <1>u, ReportsStay, RowSessions DEF SessionsAreGood
  <2>4. \A d \in Cleaners : cleaner'[d].pc = "delete" =>
                              SparesRow(row', cleaner'[d].session)
    BY <2>2, <1>1, <1>5, OpenIsSpared DEF SparesRow
  <2> QED
    BY <2>3, <2>4, <1>1, <1>3, RestSessions
<1> QED
  BY <1>4, <1>5

\* A failed wait: the session is lost, or waits for its deletion.
LEMMA WaitingSessions ==
    ASSUME TypeOK, LifecycleIsGood, SessionsAreGood, [Next]_vars,
           NEW c \in Cleaners, row.status = "WAITING_FOR_OPERATION",
           NEW by, NEW lost, lost \in BOOLEAN, FailWaiting(c, by, lost)
    PROVE  SessionsAreGood'
<1>t. /\ row \in Row /\ cleaner \in [Cleaners -> Observation]
  BY DEF TypeOK
<1>1. PICK cleanup, session :
        /\ cleanup = IF lost \/ row.session = NoSession THEN "NOT_REQUIRED"
                     ELSE "PENDING"
        /\ session = IF lost THEN NoSession ELSE row.session
        /\ row' = [row EXCEPT
                     !.status = "FAILED", !.strategy = "NOT_RETRYABLE",
                     !.from = 0, !.retained = "NONE", !.finBy = by,
                     !.cleanup = cleanup, !.session = session]
  BY DEF FailWaiting
<1>2. /\ row'.status = "FAILED" /\ row'.cleanup = cleanup
      /\ row'.session = session /\ job' = job
  BY <1>1, <1>t DEF FailWaiting, Row
<1>3. session # NoSession <=> cleanup = "PENDING"
  BY <1>1
<1>4. MultiIsListed'
  BY <1>2, <1>3 DEF MultiIsListed, UnresolvedCleanup
<1>5. CASE cleanup = "PENDING"
  <2>1. Capture(c, "validate")
    BY <1>2, <1>5 DEF FailWaiting
  <2>2. /\ cleaner'[c].pc = "validate" /\ cleaner'[c].session = row'.session
        /\ cleaner'[c].out = "NOT_REQUIRED"
        /\ \A d \in Cleaners : d # c => cleaner'[d] = cleaner[d]
    BY <2>1, <1>t, CaptureIs
  <2>3. PassReportIsTrue(cleaner'[c], kernels')
    BY <2>2, <1>2, <1>3, <1>5 DEF PassReportIsTrue
  <2> QED
    BY <2>2, <2>3, <1>1, <1>2, <1>4, PassEndsRun
<1>6. CASE cleanup # "PENDING"
  <2>1. PassEnds(c)
    BY <1>2, <1>6 DEF FailWaiting
  <2>2. /\ cleaner'[c].pc = "idle" /\ cleaner'[c].session = NoSession
        /\ cleaner'[c].out = "NOT_REQUIRED"
        /\ \A d \in Cleaners : d # c => cleaner'[d] = cleaner[d]
    BY <2>1, <1>t, PassEndsIs
  <2>3. PassReportIsTrue(cleaner'[c], kernels')
    BY <2>2 DEF PassReportIsTrue
  <2> QED
    BY <2>2, <2>3, <1>1, <1>2, <1>4, PassEndsRun
<1> QED
  BY <1>5, <1>6

\* The rest of a pass, audits and faults.
LEMMA PassSteps ==
    ASSUME TypeOK, LifecycleIsGood, SessionsAreGood, [Next]_vars,
           NEW c \in Cleaners, PassStep(c) \/ Audit(c) \/ PassFault(c)
    PROVE  SessionsAreGood'
<1> DEFINE o == cleaner[c]
           p == cleaner'[c]
           Others == \A d \in Cleaners : d # c => cleaner'[d] = cleaner[d]
<1>t. /\ row \in Row /\ cleaner \in [Cleaners -> Observation]
      /\ lease \in Lease /\ o \in Observation
  BY DEF TypeOK
<1>s. PassReportIsTrue(o, kernels) /\ PassesAreGood
  BY DEF SessionsAreGood, ReportsAreTrue, LifecycleIsGood
\* The pass ends and leaves the row
<1>e. ASSUME PassEnds(c)
      PROVE  /\ p.pc = "idle" /\ p.session = NoSession /\ Others
             /\ PassReportIsTrue(p, kernels')
             /\ UNCHANGED <<row, lease, attempt, job>> => SessionsAreGood'
  <2>1. /\ p.pc = "idle" /\ p.session = NoSession /\ p.out = "NOT_REQUIRED"
        /\ Others
    BY <1>e, <1>t, PassEndsIs
  <2>2. PassReportIsTrue(p, kernels')
    BY <2>1 DEF PassReportIsTrue
  <2> QED
    BY <2>1, <2>2, PassMoves
<1>1. CASE ValidateObservation(c)
  <2>1. UNCHANGED <<row, lease, attempt, job>> /\ o.pc = "validate"
    BY <1>1 DEF ValidateObservation, db
  <2>2. CASE Current(c) /\ row.status \in {"FAILED", "CANCELLED"}
    <3>1. /\ p.pc = "delete" /\ p.session = o.session /\ p.out = o.out
          /\ Others
      BY <1>1, <2>2, <1>t DEF ValidateObservation, Observation
    <3>2. c \in seen /\ row.session = o.session
      BY <2>2 DEF Current
    <3>3. row.cleanup = "PENDING"
      BY <2>1, <2>2, <3>2, <1>s DEF PassesAreGood
    <3>4. IsFree(p.session)
      BY <2>2, <3>1, <3>3 DEF IsFree, UnresolvedCleanup, HoldsRun, Holds
    <3>5. PassReportIsTrue(p, kernels')
      <4>1. UNCHANGED kernels
        BY <1>1 DEF ValidateObservation, runtime
      <4> QED
        BY <2>1, <3>1, <4>1, <1>s DEF PassReportIsTrue
    <3> QED
      BY <2>1, <3>1, <3>4, <3>5, PassMoves
  <2>3. CASE PassEnds(c)
    BY <2>1, <2>3, <1>e
  <2> QED
    BY <1>1, <2>2, <2>3 DEF ValidateObservation
<1>2. CASE DeleteObserved(c) \/ DeleteObservedFails(c)
  <2>1. UNCHANGED <<row, lease, attempt, job>> /\ o.pc = "delete"
    BY <1>2 DEF DeleteObserved, DeleteObservedFails, db
  <2>2. /\ p.pc = "record" /\ p.session = o.session /\ Others
        /\ p.out \in {"SUCCEEDED", "FAILED"}
        /\ p.out = "SUCCEEDED" => o.session \notin kernels'
    BY <1>2, <1>t DEF DeleteObserved, DeleteObservedFails, Observation
  <2>3. PassReportIsTrue(p, kernels')
    BY <2>1, <2>2, <1>s DEF PassReportIsTrue
  <2> QED
    BY <2>1, <2>2, <2>3, PassMoves
<1>3. CASE RecordResult(c)
  <2>1. /\ o.pc = "record" /\ PassEnds(c) /\ job' = job /\ lease' = lease
        /\ attempt' = attempt /\ o.out \in {"SUCCEEDED", "FAILED"}
    BY <1>3, <1>s DEF RecordResult, PassReportIsTrue
  <2>2. CASE Current(c) /\ row.status \in {"FAILED", "CANCELLED"}
    <3>1. /\ row'.session = SessionAfter(row.session, o.out)
          /\ row'.cleanup = o.out /\ row'.status = row.status
      BY <1>3, <2>2, <1>t DEF RecordResult, Row
    <3>2. /\ row'.session \in {row.session, NoSession}
          /\ row'.session # NoSession => row'.cleanup \in UnresolvedCleanup
      BY <2>1, <3>1 DEF SessionAfter, UnresolvedCleanup
    <3>3. MultiIsListed'
      BY <3>2 DEF MultiIsListed
    <3> QED
      BY <2>1, <2>2, <3>1, <3>2, <3>3, <1>e, PassEndsRun
  <2>3. CASE row' = row
    BY <2>1, <2>3, <1>e
  <2> QED
    BY <1>3, <2>2, <2>3 DEF RecordResult
<1>4. CASE AuditProbe(c) \/ PassBreaks(c)
  <2>1. UNCHANGED <<row, lease, attempt, job>> /\ kernels' = kernels
    BY <1>4 DEF AuditProbe, PassBreaks, db, runtime
  <2>2. CASE PassEnds(c)
    BY <2>1, <2>2, <1>e
  <2>3. CASE /\ o.session \notin kernels
             /\ cleaner' = [cleaner EXCEPT ![c].pc = "lost"]
    <3>1. p.pc = "lost" /\ p.session = o.session /\ Others
      BY <2>3, <1>t DEF Observation
    <3>2. PassReportIsTrue(p, kernels')
      BY <2>1, <2>3, <3>1 DEF PassReportIsTrue
    <3> QED
      BY <2>1, <3>1, <3>2, PassMoves
  <2> QED
    BY <1>4, <2>2, <2>3 DEF AuditProbe, PassBreaks
<1>5. CASE AuditCapture(c)
  <2>1. UNCHANGED <<row, lease, attempt, job>> /\ Capture(c, "audit")
    BY <1>5 DEF AuditCapture
  <2>2. /\ p.pc = "audit" /\ p.session = row.session
        /\ p.out = "NOT_REQUIRED" /\ Others
    BY <2>1, <1>t, CaptureIs
  <2>3. PassReportIsTrue(p, kernels')
    BY <2>2 DEF PassReportIsTrue
  <2> QED
    BY <2>1, <2>2, <2>3, PassMoves
<1>6. CASE AuditLost(c) /\ UNCHANGED <<row, lease, attempt, job>> /\ PassEnds(c)
  BY <1>6, <1>e
<1>7. CASE \E by, lost : /\ row.status = "WAITING_FOR_OPERATION"
                         /\ lost \in BOOLEAN /\ FailWaiting(c, by, lost)
  BY <1>7, WaitingSessions
<1>8. CASE /\ row.status = "WAITING_FOR_OPERATION" /\ PassEnds(c) /\ job' = job
           /\ \E by : row' = [row EXCEPT !.status = "FINALIZING",
                                         !.finReq = TRUE, !.finBy = by]
  <2>1. row'.status = "FINALIZING" /\ row'.session = row.session
    BY <1>8, <1>t DEF Row
  <2>2. MultiIsListed'
    BY <2>1 DEF MultiIsListed, TerminalStatus
  <2> QED
    BY <1>8, <2>1, <2>2, <1>e, PassEndsRun
<1>9. CASE Audit(c) \/ AuditLost(c)
  <2>1. CASE AuditLost(c)
    BY <2>1, <1>6, <1>7 DEF AuditLost, CurrentWaiting, db
  <2>2. CASE AuditTargetGone(c)
    BY <2>2, <1>7 DEF AuditTargetGone, CurrentWaiting
  <2>3. ASSUME NEW by \in {"WAIT_TIMEOUT", "MAX_RUNTIME"}, AuditEnd(c, by)
        PROVE  SessionsAreGood'
    BY <2>3, <1>7, <1>8 DEF AuditEnd, CurrentWaiting
  <2> QED
    BY <1>9, <1>5, <2>1, <2>2, <2>3 DEF Audit
<1> QED
  BY <1>1, <1>2, <1>3, <1>4, <1>9 DEF PassStep, PassFault

----------------------------------------------------------------------------
(* Sessions: time and the environment, and the invariant. *)

\* A step that moves no job and no pass, and gives nobody a lease.
LEMMA QuietSessions ==
    ASSUME TypeOK, SessionsAreGood, [Next]_vars,
           job' = job, cleaner' = cleaner,
           row'.session = row.session, row'.status = row.status,
           row'.cleanup = row.cleanup, row'.mode = row.mode,
           row'.finReq = row.finReq,
           \A w \in Workers : /\ HoldsRun(w)' => HoldsRun(w)
                              /\ HoldsCancellation(w)' => HoldsCancellation(w)
    PROVE  SessionsAreGood'
<1>1. SessionsWereStarted' /\ ReportsAreTrue'
  BY ReportsStay, RowSessions DEF SessionsAreGood
<1>2. DoomedAreFree'
  BY DEF SessionsAreGood, DoomedAreFree, IsFree
<1>3. HoldersOnSession' /\ CancellersOnSession'
  BY DEF SessionsAreGood, HoldersOnSession, CancellersOnSession,
         OnItsSession, CancelsItsSession
<1>4. MultiIsListed'
  BY DEF SessionsAreGood, MultiIsListed
<1> QED
  BY <1>1, <1>2, <1>3, <1>4 DEF SessionsAreGood

\* Deadlines, expired leases, and what befalls the kernels.
LEMMA EnvironmentSessions ==
    ASSUME TypeOK, LifecycleIsGood, TokensUnique, SessionsAreGood,
           [Next]_vars, HandOverExpired \/ Deadlines \/ Expiry \/ Environment
    PROVE  SessionsAreGood'
<1>t. row \in Row /\ lease \in Lease /\ row.mode \in {"SINGLE", "MULTI"}
  BY DEF TypeOK, Row, OperationMode
<1>s. SessionsWereStarted /\ ReportsAreTrue
  BY DEF SessionsAreGood
<1>1. CASE HandOverExpired
  <2>1. UNCHANGED <<row, job, cleaner>> /\ row.status = "RUNNING"
    BY <1>1 DEF HandOverExpired, Expired
  <2>2. lease'.owner = NoWorker
    BY <1>1, <1>t DEF HandOverExpired, BeginHandover, Released, Lease
  <2>3. SessionsWereStarted' /\ ReportsAreTrue'
    BY <2>1, <1>s, ReportsStay, RowSessions
  <2>4. \A c \in Cleaners : cleaner'[c].pc = "delete" =>
                              SparesRow(row', cleaner'[c].session)
    BY <2>1, OpenIsSpared
  <2>5. MultiIsListed'
    BY <2>1 DEF SessionsAreGood, MultiIsListed
  <2> QED
    BY <2>1, <2>2, <2>3, <2>4, <2>5, RestSessions
<1>2. CASE FailQueueTimeout \/ ClaimUnavailable
  <2>1. /\ row'.status = "FAILED" /\ row'.session = row.session
        /\ row'.mode = row.mode /\ row.status = "QUEUED"
        /\ UNCHANGED <<job, cleaner>>
    BY <1>2, <1>t DEF FailQueueTimeout, ClaimUnavailable, Row
  <2>2. SessionsWereStarted' /\ ReportsAreTrue'
    BY <2>1, <1>s, ReportsStay, RowSessions
  <2>3. \A c \in Cleaners : cleaner'[c].pc = "delete" =>
                              SparesRow(row', cleaner'[c].session)
    BY <2>1, OpenIsSpared DEF SparesRow
  <2>4. row.mode = "MULTI" => row.session = NoSession
    BY <1>2, <1>t DEF FailQueueTimeout, ClaimUnavailable, IsResume, Mode,
                      LifecycleIsGood, RowIsGood, ModeIsGood
  <2>5. MultiIsListed'
    BY <2>1, <2>4 DEF MultiIsListed
  <2> QED
    BY <2>1, <2>2, <2>3, <2>5, RestSessions
<1>3. CASE RequestExpiredCancellation
  BY <1>3, CommandSessions
<1>4. CASE RetentionPasses
  <2>1. /\ row'.session = row.session /\ row'.status = row.status
        /\ row'.cleanup = row.cleanup /\ row'.mode = row.mode
        /\ row'.finReq = row.finReq
        /\ UNCHANGED <<lease, attempt, job, cleaner>>
    BY <1>4, <1>t DEF RetentionPasses, Row
  <2>2. \A w \in Workers : /\ HoldsRun(w)' => HoldsRun(w)
                           /\ HoldsCancellation(w)' => HoldsCancellation(w)
    BY <2>1 DEF HoldsRun, Holds, HoldsCancellation
  <2> QED
    BY <2>1, <2>2, QuietSessions
<1>5. CASE \/ LeaseExpires \/ LeaseStalls \/ CancellationLeaseExpires
           \/ CancellationLeaseStalls
  <2>1. UNCHANGED <<row, attempt, job, cleaner>>
    BY <1>5 DEF LeaseExpires, LeaseStalls, CancellationLeaseExpires,
                CancellationLeaseStalls
  <2>2. /\ lease'.owner = lease.owner /\ lease'.cowner = lease.cowner
        /\ lease'.fence = lease.fence
        /\ lease'.live => lease.live
        /\ lease'.clive => lease.clive
    BY <1>5, <1>t DEF LeaseExpires, LeaseStalls, CancellationLeaseExpires,
                      CancellationLeaseStalls, Lease
  <2>3. \A w \in Workers : /\ HoldsRun(w)' => HoldsRun(w)
                           /\ HoldsCancellation(w)' => HoldsCancellation(w)
    BY <2>1, <2>2 DEF HoldsRun, Holds, HoldsCancellation
  <2> QED
    BY <2>1, <2>3, QuietSessions
<1>6. CASE \E k \in kernels : KernelDies(k) \/ KernelRestarts(k)
  <2>1. UNCHANGED <<row, lease, attempt, job, cleaner>>
    BY <1>6 DEF KernelDies, KernelRestarts, db
  <2>2. \A w \in Workers : /\ HoldsRun(w)' => HoldsRun(w)
                           /\ HoldsCancellation(w)' => HoldsCancellation(w)
    BY <2>1 DEF HoldsRun, Holds, HoldsCancellation
  <2> QED
    BY <2>1, <2>2, QuietSessions
<1> QED
  BY <1>1, <1>2, <1>3, <1>4, <1>5, <1>6 DEF Deadlines, Expiry, Environment

\* No session is there when the Execution is submitted.
LEMMA SessionsInit == Init => SessionsAreGood
<1> SUFFICES ASSUME Init PROVE SessionsAreGood
  OBVIOUS
<1>1. /\ row.session = NoSession /\ row.status = "QUEUED" /\ started = 0
      /\ \A w \in Workers : job[w] = Idle
      /\ \A c \in Cleaners : cleaner[c] = NoObservation
  BY DEF Init, Submitted
<1>2. SessionsWereStarted /\ ReportsAreTrue
  BY <1>1 DEF SessionsWereStarted, ReportsAreTrue, ReportIsTrue,
              PassReportIsTrue, Idle, NoObservation, NoEnding, NoSession
<1>3. DoomedAreFree /\ MultiIsListed
  BY <1>1 DEF DoomedAreFree, MultiIsListed, NoObservation
<1>4. HoldersOnSession /\ CancellersOnSession
  BY <1>1 DEF HoldersOnSession, CancellersOnSession, HoldsRun, Holds,
              HoldsCancellation
<1> QED
  BY <1>2, <1>3, <1>4 DEF SessionsAreGood

\* The steps of a job that touch no row leave the passes alone.
LEMMA LocalKeepsPasses ==
    ASSUME NEW w \in Workers, LocalStep(w)
    PROVE  cleaner' = cleaner
BY Zenon
   DEF LocalStep, Preflight, StartSession, KeepSession, LoadRun,
       ExecuteSucceeds, ExecuteToolError, ExecuteHitsLimit,
       ExecuteLosesSession, PublishSuccess, RecordFailureEvidence,
       AbortIdle, AbortMissing, AbortDeletes, AssertLease,
       ReleaseSession, StopSession, StopSucceeds, LoseLease,
       HandOffCancelled, CancelStop, JobFault, PreflightUnreachable,
       ExecuteBreaks, AbortFails, RunBreaks, StopFails, CancelStopFails,
       Shutdown, Crash, DispatchCancellation

\* Every step keeps to the sessions.
LEMMA SessionsStep ==
    ASSUME TypeOK, LifecycleIsGood, TokensUnique, SessionsAreGood, [Next]_vars
    PROVE  SessionsAreGood'
<1>1. CASE Command
  BY <1>1, CommandSessions
<1>2. ASSUME NEW w \in Workers, Claim(w)
      PROVE  SessionsAreGood'
  BY <1>2, ClaimSessions
<1>3. ASSUME NEW w \in Workers,
             JobStep(w) \/ JobFault(w) \/ DispatchCancellation(w)
      PROVE  SessionsAreGood'
  <2>1. CASE LocalStep(w)
    BY <2>1, LocalKeepsPasses, LocalKeepsSessions
  <2>2. CASE \/ RecordRuntimeSession(w) \/ MarkStarted(w) \/ MarkSucceeded(w)
             \/ MarkFailed(w) \/ SkipStepsAfter(w) \/ AbortBegin(w)
             \/ AbortRecord(w) \/ AbortMark(w)
    BY <2>2, RunSessions
  <2>3. CASE \/ DeferRetainedRetry(w) \/ CompleteOperation(w) \/ Finalize(w)
             \/ ReleaseForHandover(w)
    BY <2>3, RunEndSessions
  <2>4. CASE ReleaseForCancellation(w) \/ CancelFinalize(w)
    BY <2>4, CancelSessions
  <2> QED
    BY <1>3, <2>1, <2>2, <2>3, <2>4 DEF JobStep, LocalStep
<1>4. ASSUME NEW c \in Cleaners,
             StartPass(c) \/ PassStep(c) \/ Audit(c) \/ PassFault(c)
      PROVE  SessionsAreGood'
  BY <1>4, StartSessions, PassSteps
<1>5. CASE HandOverExpired \/ Deadlines \/ Expiry \/ Environment
  BY <1>5, EnvironmentSessions
<1>6. CASE UNCHANGED vars
  <2>1. UNCHANGED <<row, lease, attempt, job, cleaner>>
    BY <1>6 DEF vars, db
  <2>2. \A w \in Workers : /\ HoldsRun(w)' => HoldsRun(w)
                           /\ HoldsCancellation(w)' => HoldsCancellation(w)
    BY <2>1 DEF HoldsRun, Holds, HoldsCancellation
  <2> QED
    BY <2>1, <2>2, QuietSessions
<1> QED
  BY <1>1, <1>2, <1>3, <1>4, <1>5, <1>6 DEF Next

\* The rows, the jobs, the passes and the kernels always agree on sessions.
LEMMA SessionsGood == Spec => []SessionsAreGood
<1>1. TypeOK /\ LifecycleIsGood /\ TokensUnique /\ SessionsAreGood
        /\ [Next]_vars => SessionsAreGood'
  BY SessionsStep
<1> QED
  BY <1>1, SessionsInit, TypeCorrect, LifecycleGood, TokenUniqueness, PTL
     DEF Spec

\* An ended MULTI Execution has no session, or one that waits for a cleanup
\* pass: no run, cancellation, recovery or deadline leaves a kernel behind
\* that nobody is going to delete.
THEOREM NoSessionIsForgotten == Spec => []MultiSessionIsAccountedFor
<1>1. SessionsAreGood => MultiSessionIsAccountedFor
  BY DEF SessionsAreGood, MultiIsListed, MultiSessionIsAccountedFor,
         SessionIsAccountedFor, Mode
<1> QED
  BY <1>1, SessionsGood, PTL

\* A step that deletes the session a pass observed takes no kernel from a
\* Worker that holds the run: its copy of the row was checked two round trips
\* earlier, and nothing that happened since can have put the kernel to use.
THEOREM HeldKernelIsSpared == Spec => PassSparesHeldKernel
<1> DEFINE A == \A c \in Cleaners :
                  cleaner[c].pc = "delete" /\ kernels' # kernels
                    /\ cleaner'[c] # cleaner[c]
                    => ~ \E w \in Workers :
                           HoldsRun(w) /\ job[w].session = cleaner[c].session
<1>1. SessionsAreGood /\ [Next]_vars => [A]_vars
  BY DEF SessionsAreGood, DoomedAreFree, IsFree
<1> QED
  BY <1>1, SessionsGood, PTL DEF Spec, PassSparesHeldKernel

----------------------------------------------------------------------------
(* When a row forgets its session. *)

\* Only these steps write the session column, and SINGLE ones apart, only of
\* a kernel that is gone.
LEMMA ForgetsGone ==
    ASSUME TypeOK, SessionsAreGood, [Next]_vars, row.mode = "MULTI",
           row.session # NoSession, row'.session # row.session
    PROVE  row.session \notin kernels'
<1>r. row \in Row
  BY DEF TypeOK
<1>1. CASE Command
  BY <1>1, <1>r DEF Command, RequestCancel, RequestRetry, RequestOperation,
                    RequestFinalization, Row
<1>2. ASSUME NEW w \in Workers, Claim(w)
      PROVE  FALSE
  BY <1>2, <1>r DEF Claim, ClaimWaiting, ClaimNew, ClaimHandover,
                    ClaimCancellation, Row
<1>3. ASSUME NEW w \in Workers,
             JobStep(w) \/ JobFault(w) \/ DispatchCancellation(w)
      PROVE  row.session \notin kernels'
  <2> DEFINE j == job[w]
  <2>r. ReportIsTrue(j, kernels)
    BY DEF SessionsAreGood, ReportsAreTrue
  <2>1. CASE \/ DeferRetainedRetry(w) \/ CompleteOperation(w) \/ AbortBegin(w)
             \/ AbortRecord(w)
    BY <2>1, <1>r DEF DeferRetainedRetry, CompleteOperation, AbortBegin,
                      AbortRecord, Row
  <2>2. CASE RecordRuntimeSession(w)
    <3>1. /\ j.pc = "record" /\ HoldsRun(w) /\ row'.session = j.session
      BY <2>2, <1>r DEF RecordRuntimeSession, Row
    <3>2. OnItsSession(j, row)
      BY <3>1 DEF SessionsAreGood, HoldersOnSession
    <3> QED
      BY <3>1, <3>2 DEF OnItsSession
  <2>3. CASE Finalize(w)
    <3>1. PICK from :
            row' = [row EXCEPT
                  !.status = j.end.status, !.strategy = j.end.strategy,
                  !.from = from,
                  !.retained = IF j.end.retain THEN "OPEN" ELSE "NONE",
                  !.cleanup = FinalCleanup(w),
                  !.abort = ResolvedAbort(@, FinalCleanup(w)),
                  !.session = IF j.end.retain THEN @
                              ELSE SessionAfter(@, FinalCleanup(w))]
      BY <2>3 DEF Finalize
    <3>2. j.end.cleanup = "SUCCEEDED"
      BY <3>1, <1>r DEF Row, SessionAfter, FinalCleanup
    <3>3. /\ HoldsRun(w) /\ kernels' = kernels
          /\ j.pc \in {"finalize", "finalizeOk", "abortFinalize"}
      BY <2>3 DEF Finalize, runtime
    <3>4. j.session = row.session
      BY <3>3 DEF SessionsAreGood, HoldersOnSession, OnItsSession
    <3> QED
      BY <3>2, <3>3, <3>4, <2>r DEF ReportIsTrue
  <2>4. CASE CancelFinalize(w)
    <3>1. PICK ending :
            row' = [row EXCEPT
                  !.status = ending, !.strategy = "NOT_RETRYABLE", !.from = 0,
                  !.retained = "NONE", !.cleanup = j.end.cleanup,
                  !.abort = ResolvedAbort(@, j.end.cleanup),
                  !.session = SessionAfter(@, j.end.cleanup)]
      BY <2>4 DEF CancelFinalize
    <3>2. j.end.cleanup = "SUCCEEDED"
      BY <3>1, <1>r DEF Row, SessionAfter
    <3>3. /\ HoldsCancellation(w) /\ kernels' = kernels
          /\ j.pc = "cancelFinalize"
      BY <2>4 DEF CancelFinalize, runtime
    <3>4. j.session = row.session
      BY <3>3 DEF SessionsAreGood, CancellersOnSession, CancelsItsSession,
                  CancelPc
    <3> QED
      BY <3>2, <3>3, <3>4, <2>r DEF ReportIsTrue
  <2>5. CASE LocalStep(w)
    BY <2>5, LocalKeepsRows DEF db
  <2>6. CASE \/ MarkStarted(w) \/ MarkSucceeded(w) \/ MarkFailed(w)
             \/ SkipStepsAfter(w) \/ AbortMark(w) \/ ReleaseForCancellation(w)
             \/ ReleaseForHandover(w)
    BY <2>6, Zenon
       DEF MarkStarted, MarkSucceeded, MarkFailed, SkipStepsAfter, AbortMark,
           ReleaseForCancellation, ReleaseForHandover
  <2> QED
    BY <1>3, <2>1, <2>2, <2>3, <2>4, <2>5, <2>6 DEF JobStep, LocalStep
<1>4. ASSUME NEW c \in Cleaners,
             StartPass(c) \/ PassStep(c) \/ Audit(c) \/ PassFault(c)
      PROVE  row.session \notin kernels'
  <2>r. PassReportIsTrue(cleaner[c], kernels)
    BY DEF SessionsAreGood, ReportsAreTrue
  <2>1. CASE StartPass(c)
    BY <2>1, <1>r DEF StartPass, FailExpired, CleanupExpired, RetryUnresolved,
                      Row
  <2>2. CASE RecordResult(c)
    <3>1. /\ row.session = cleaner[c].session
          /\ row'.session = SessionAfter(row.session, cleaner[c].out)
          /\ kernels' = kernels
      BY <2>2, <1>r DEF RecordResult, Current, Row, runtime
    <3> QED
      BY <3>1, <2>r DEF SessionAfter, PassReportIsTrue
  <2>3. CASE AuditLost(c)
    <3>1. /\ row.session = cleaner[c].session /\ cleaner[c].pc = "lost"
          /\ kernels' = kernels
      BY <2>3 DEF AuditLost, CurrentWaiting, Current, FailWaiting, runtime, db
    <3> QED
      BY <3>1, <2>r DEF PassReportIsTrue
  <2>4. CASE \E by : FailWaiting(c, by, FALSE)
    BY <2>4, <1>r DEF FailWaiting, Row
  <2>5. CASE Audit(c) \/ PassFault(c)
    BY <2>4, <2>5, <1>r
       DEF Audit, PassFault, AuditCapture, AuditEnd, AuditTargetGone,
           DeleteObservedFails, PassBreaks, Row, db
  <2>6. CASE ValidateObservation(c) \/ DeleteObserved(c) \/ AuditProbe(c)
    BY <2>6 DEF ValidateObservation, DeleteObserved, AuditProbe, db
  <2> QED
    BY <1>4, <2>1, <2>2, <2>3, <2>5, <2>6 DEF PassStep
<1>5. CASE HandOverExpired \/ Deadlines \/ Expiry \/ Environment
  BY <1>5, <1>r
     DEF HandOverExpired, Deadlines, Expiry, Environment,
         FailQueueTimeout, RequestExpiredCancellation, RetentionPasses,
         LeaseExpires, CancellationLeaseExpires, LeaseStalls,
         CancellationLeaseStalls, ClaimUnavailable, KernelDies,
         KernelRestarts, db, Row
<1>6. CASE UNCHANGED vars
  BY <1>6 DEF vars, db
<1> QED
  BY <1>1, <1>2, <1>3, <1>4, <1>5, <1>6 DEF Next

\* The row of a MULTI Execution forgets its kernel only when the kernel is
\* gone, whichever Worker, cancellation or pass settles it, and on whatever
\* copy of the row it does.
THEOREM RowForgetsOnlyGone == Spec => ForgetsOnlyGoneKernels
<1> DEFINE A == Mode = "MULTI" /\ row.session # NoSession
                  /\ row'.session # row.session => row.session \notin kernels'
<1>1. TypeOK /\ SessionsAreGood /\ [Next]_vars => [A]_vars
  BY ForgetsGone DEF Mode
<1> QED
  BY <1>1, SessionsGood, TypeCorrect, PTL DEF Spec, ForgetsOnlyGoneKernels

----------------------------------------------------------------------------
(* Context: what has run on the kernel of the row. *)

\* Code that ran to its end is added by the Worker that ran it, and forgotten
\* only by the kernel that restarts.
LEMMA DoneStep ==
    ASSUME [Next]_vars
    PROVE  \/ done' = done \/ \E w \in Workers : ExecuteSucceeds(w)
           \/ \E k \in kernels : KernelRestarts(k)
<1>1. CASE UNCHANGED runtime
  BY <1>1 DEF runtime
<1>2. CASE Command
  BY <1>1, <1>2, Zenon
     DEF Command, RequestCancel, RequestRetry, RequestOperation,
         RequestFinalization
<1>3. ASSUME NEW w \in Workers, Claim(w)
      PROVE  done' = done
  BY <1>1, <1>3, Zenon
     DEF Claim, ClaimWaiting, ClaimNew, ClaimHandover, ClaimCancellation,
         runtime
<1>4. ASSUME NEW w \in Workers, ~ExecuteSucceeds(w),
             JobStep(w) \/ JobFault(w) \/ DispatchCancellation(w)
      PROVE  done' = done
  <2>1. CASE \/ StartSession(w) \/ AbortDeletes(w) \/ ReleaseSession(w)
             \/ StopSucceeds(w) \/ CancelStop(w) \/ Shutdown(w) \/ Crash(w)
             \/ DispatchCancellation(w)
    BY <2>1, Zenon DEF StartSession, AbortDeletes, ReleaseSession,
                StopSucceeds, CancelStop, Shutdown, Crash,
                DispatchCancellation
  <2>3. CASE \/ Preflight(w) \/ DeferRetainedRetry(w) \/ KeepSession(w)
             \/ RecordRuntimeSession(w) \/ LoadRun(w) \/ MarkStarted(w)
             \/ ExecuteToolError(w) \/ ExecuteHitsLimit(w)
             \/ ExecuteLosesSession(w) \/ MarkSucceeded(w)
             \/ PublishSuccess(w) \/ MarkFailed(w) \/ RecordFailureEvidence(w)
             \/ SkipStepsAfter(w) \/ CompleteOperation(w) \/ AbortBegin(w)
             \/ AbortIdle(w) \/ AbortMissing(w) \/ AbortRecord(w)
             \/ AbortMark(w)
    BY <2>3, Zenon
       DEF Preflight, DeferRetainedRetry, KeepSession, RecordRuntimeSession,
           LoadRun, MarkStarted, ExecuteToolError, ExecuteHitsLimit,
           ExecuteLosesSession, MarkSucceeded, PublishSuccess, MarkFailed,
           RecordFailureEvidence, SkipStepsAfter, CompleteOperation,
           AbortBegin, AbortIdle, AbortMissing, AbortRecord, AbortMark,
           runtime
  <2>4. CASE \/ AssertLease(w) \/ StopSession(w) \/ Finalize(w)
             \/ LoseLease(w) \/ HandOffCancelled(w)
             \/ ReleaseForCancellation(w) \/ ReleaseForHandover(w)
             \/ CancelFinalize(w) \/ PreflightUnreachable(w)
             \/ ExecuteBreaks(w) \/ AbortFails(w) \/ RunBreaks(w)
             \/ StopFails(w) \/ CancelStopFails(w)
    BY <2>4, Zenon
       DEF AssertLease, StopSession, Finalize, LoseLease, HandOffCancelled,
           ReleaseForCancellation, ReleaseForHandover, CancelFinalize,
           PreflightUnreachable, ExecuteBreaks, AbortFails, RunBreaks,
           StopFails, CancelStopFails, runtime
  <2> QED
    BY <1>4, <2>1, <2>3, <2>4 DEF JobStep, JobFault
<1>5. ASSUME NEW c \in Cleaners,
             StartPass(c) \/ PassStep(c) \/ Audit(c) \/ PassFault(c)
      PROVE  done' = done
  BY <1>5, Zenon
     DEF StartPass, PassStep, Audit, PassFault, FailExpired, CleanupExpired,
         RetryUnresolved, ValidateObservation, DeleteObserved, RecordResult,
         AuditProbe, AuditLost, AuditCapture, AuditEnd, AuditTargetGone,
         FailWaiting, DeleteObservedFails, PassBreaks, runtime
<1>6. CASE HandOverExpired \/ Deadlines \/ Expiry \/ Environment
  BY <1>6
     DEF HandOverExpired, Deadlines, Expiry, Environment, FailQueueTimeout,
         RequestExpiredCancellation, RetentionPasses, LeaseExpires,
         CancellationLeaseExpires, LeaseStalls, CancellationLeaseStalls,
         ClaimUnavailable, KernelDies, runtime
<1>7. CASE UNCHANGED vars
  BY <1>1, <1>7 DEF vars
<1> QED
  BY <1>2, <1>3, <1>4, <1>5, <1>6, <1>7 DEF Next

\* A restart takes nothing back that the context rests on, and adds no code.
LEMMA RestartKeeps ==
    ASSUME TypeOK, NEW k \in kernels, KernelRestarts(k)
    PROVE  /\ \A i, o, s : RanOn(i, o, s) =>
                <<i, o, s>> \in done' \/ <<i, 0, 0>> \in done'
           /\ \A d \in done' : d[2] # 0 => d \in done
<1>1. done' = {d \in done : d[1] # k} \cup {<<k, 0, 0>>}
  BY DEF KernelRestarts
<1>2. ASSUME NEW i, NEW o, NEW s, RanOn(i, o, s)
      PROVE  <<i, o, s>> \in done' \/ <<i, 0, 0>> \in done'
  <2>1. CASE i = k
    BY <2>1, <1>1
  <2>2. CASE i # k
    BY <2>2, <1>1, <1>2 DEF RanOn, Restarted
  <2> QED
    BY <2>1, <2>2
<1>3. ASSUME NEW d \in done', d[2] # 0
      PROVE  d \in done
  BY <1>1, <1>3
<1> QED
  BY <1>2, <1>3

\* So a step keeps what has run, or runs a Step.
LEMMA MemoryStep ==
    ASSUME TypeOK, [Next]_vars
    PROVE  /\ \A i, o, s : RanOn(i, o, s) =>
                <<i, o, s>> \in done' \/ <<i, 0, 0>> \in done'
           /\ \A d \in done' : d[2] # 0 =>
                \/ d \in done
                \/ \E w \in Workers :
                     /\ ExecuteSucceeds(w)
                     /\ d = <<job[w].session, row.ops, job[w].seq>>
<1>1. CASE done' = done
  BY <1>1 DEF RanOn, Restarted
<1>2. ASSUME NEW w \in Workers, ExecuteSucceeds(w)
      PROVE  done' = done \cup {<<job[w].session, row.ops, job[w].seq>>}
  BY <1>2 DEF ExecuteSucceeds
<1>3. CASE \E w \in Workers : ExecuteSucceeds(w)
  BY <1>2, <1>3 DEF RanOn, Restarted
<1>4. CASE \E k \in kernels : KernelRestarts(k)
  BY <1>4, RestartKeeps
<1> QED
  BY <1>1, <1>3, <1>4, DoneStep

\* What is left to show of a step that runs no code and keeps the session.
LEMMA ContextKept ==
    ASSUME ContextIsGood, done' = done, row'.session = row.session,
           row'.mode = row.mode,
           \A s \in Seqs :
               Continues(row') /\ steps'[s] = "SUCCEEDED" =>
                   /\ Continues(row) /\ row'.ops = row.ops
                   /\ \/ steps[s] = "SUCCEEDED"
                      \/ RanOn(row.session, row.ops, s),
           \/ row.mode # "MULTI" \/ row.status \notin TerminalStatus
           \/ row'.status \in TerminalStatus,
           \A w \in Workers : job'[w].pc \in ChainPc =>
               \/ job[w].pc \in ChainPc /\ job'[w].session = job[w].session
               \/ job'[w].session = row.session /\ row.session # NoSession,
           \A w \in Workers : HoldsRun(w)' /\ job'[w].pc = "stored" =>
               HoldsRun(w) /\ job'[w] = job[w] /\ row'.ops = row.ops
    PROVE  ContextIsGood'
<1>1. StepsHaveRun'
  BY DEF ContextIsGood, StepsHaveRun, RanOn, Restarted
<1>2. StoredHaveRun'
  BY DEF ContextIsGood, StoredHaveRun, RanOn, Restarted
<1>3. OneKernel'
  BY DEF ContextIsGood, OneKernel
<1> QED
  BY <1>1, <1>2, <1>3 DEF ContextIsGood

\* Nothing is asked of an Execution that ended without a Step to retry.
LEMMA ContextEnded ==
    ASSUME row'.status \in TerminalStatus,
           row'.status = "FAILED" => row'.strategy # "FROM_FAILED_STEP"
    PROVE  ContextIsGood'
BY DEF ContextIsGood, StepsHaveRun, StoredHaveRun, OneKernel, Continues,
       TerminalStatus, HoldsRun, Holds

\* A step between two transactions: it may run code, of a job on its session.
LEMMA LocalContext ==
    ASSUME TypeOK, LifecycleIsGood, SessionsAreGood, ContextIsGood,
           [Next]_vars, NEW w \in Workers, LocalStep(w)
    PROVE  ContextIsGood'
<1> DEFINE j == job[w]
           k == job'[w]
<1>d. /\ row' = row /\ lease' = lease /\ attempt' = attempt /\ steps' = steps
  BY LocalKeepsRows DEF db
<1>m. /\ \A v \in Workers : v # w => job'[v] = job[v]
      /\ LocalMove(w, j, k)
  BY LocalMoves DEF SessionsAreGood
<1>g. HoldsRun(w) => OnItsSession(j, row)
  BY DEF SessionsAreGood, HoldersOnSession
<1>1. \A i, o, s : RanOn(i, o, s) =>
        <<i, o, s>> \in done' \/ <<i, 0, 0>> \in done'
  BY MemoryStep
<1>2. StepsHaveRun'
  BY <1>1, <1>d DEF ContextIsGood, StepsHaveRun, RanOn, Restarted
<1>3. StoredHaveRun'
  <2> SUFFICES ASSUME NEW v \in Workers, HoldsRun(v)', job'[v].pc = "stored"
               PROVE  \/ <<row.session, row.ops, job'[v].seq>> \in done'
                      \/ <<row.session, 0, 0>> \in done'
    BY <1>d DEF StoredHaveRun, RanOn, Restarted
  <2>1. CASE v # w
    BY <2>1, <1>1, <1>d, <1>m
       DEF ContextIsGood, StoredHaveRun, HoldsRun, Holds, RanOn, Restarted
  <2>2. CASE v = w
    <3>1. /\ k.pc = "stored" /\ k.fence = j.fence /\ k.seq = j.seq
          /\ j.pc \in OnSet
          /\ <<j.session, row.ops, j.seq>> \in done'
      BY <2>2, <1>m DEF LocalMove, OnSet, OnSessionPc
    <3>2. HoldsRun(w)
      BY <2>2, <3>1, <1>d DEF HoldsRun, Holds
    <3>3. j.session = row.session
      BY <3>1, <3>2, <1>g DEF OnItsSession, OnSet
    <3> QED
      BY <2>2, <3>1, <3>3
  <2> QED
    BY <2>1, <2>2
<1>4. OneKernel'
  <2> SUFFICES ASSUME row.mode = "MULTI", row.status \notin TerminalStatus
               PROVE  /\ \A d \in done' : d[2] # 0 =>
                           d[1] = row.session /\ d[1] # NoSession
                      /\ \A v \in Workers :
                           job'[v].pc \in ChainPc =>
                             /\ job'[v].session = row.session
                             /\ job'[v].session # NoSession
    BY <1>d DEF OneKernel
  <2>1. /\ \A d \in done : d[2] # 0 => d[1] = row.session /\ d[1] # NoSession
        /\ \A v \in Workers :
             job[v].pc \in ChainPc =>
               job[v].session = row.session /\ job[v].session # NoSession
    BY DEF ContextIsGood, OneKernel
  <2>2. \A v \in Workers :
          job'[v].pc \in ChainPc =>
            job'[v].session = row.session /\ job'[v].session # NoSession
    BY <2>1, <1>m DEF LocalMove
  <2>3. ASSUME NEW d \in done', d[2] # 0
        PROVE  d[1] = row.session /\ d[1] # NoSession
    <3>1. CASE d \in done
      BY <2>1, <2>3, <3>1
    <3>2. CASE d \notin done
      <4>1. PICK v \in Workers :
              /\ ExecuteSucceeds(v)
              /\ d = <<job[v].session, row.ops, job[v].seq>>
        BY <2>3, <3>2, MemoryStep
      <4>2. d[1] = job[v].session /\ job[v].pc \in ChainPc
        BY <4>1 DEF ExecuteSucceeds, ChainPc
      <4> QED
        BY <2>1, <4>2
    <3> QED
      BY <3>1, <3>2
  <2> QED
    BY <2>2, <2>3
<1> QED
  BY <1>2, <1>3, <1>4 DEF ContextIsGood

\* The transactions of a run: a success is committed once the code has run.
LEMMA RunContext ==
    ASSUME TypeOK, LifecycleIsGood, SessionsAreGood, ContextIsGood,
           NEW w \in Workers,
           \/ RecordRuntimeSession(w) \/ MarkStarted(w) \/ MarkSucceeded(w)
           \/ MarkFailed(w) \/ SkipStepsAfter(w) \/ AbortBegin(w)
           \/ AbortRecord(w) \/ AbortMark(w)
    PROVE  ContextIsGood'
<1> DEFINE j == job[w]
           k == job'[w]
           Others == \A v \in Workers : v # w => job'[v] = job[v]
<1>t. /\ job \in [Workers -> Job] /\ j \in Job /\ row \in Row
      /\ steps \in [Seqs -> StepStatus] /\ row.mode \in {"SINGLE", "MULTI"}
  BY DEF TypeOK, Row, OperationMode
<1>h. HoldsRun(w) /\ row.status = "RUNNING" /\ lease.owner = w
  BY DEF RecordRuntimeSession, MarkStarted, MarkSucceeded, MarkFailed,
         SkipStepsAfter, AbortBegin, AbortRecord, AbortMark, HoldsRun, Holds
<1>g. /\ OnItsSession(j, row) /\ JobIsGood(j, row.mode)
      /\ Position(j, row, steps)
  BY <1>h DEF SessionsAreGood, HoldersOnSession, LifecycleIsGood, JobsAreGood,
              HoldersAreGood
<1>u. lease' = lease /\ done' = done
  BY DEF RecordRuntimeSession, MarkStarted, MarkSucceeded, MarkFailed,
         SkipStepsAfter, AbortBegin, AbortRecord, AbortMark, runtime
<1>o. \A v \in Workers : HoldsRun(v)' => v = w
  BY <1>u, <1>h DEF HoldsRun, Holds
<1>c. Continues(row) /\ row.status \notin TerminalStatus
  BY <1>h DEF Continues, TerminalStatus
<1>1. CASE RecordRuntimeSession(w)
  <2>1. /\ j.pc = "record" /\ k.pc \in {"complete", "next"}
        /\ k.session = j.session /\ j.session # NoSession /\ Others
    BY <1>1, <1>t, <1>g, GoIs DEF RecordRuntimeSession, JobIsGood
  <2>2. /\ row'.session = j.session /\ row'.status = "RUNNING"
        /\ row'.mode = row.mode /\ row'.ops = row.ops /\ steps' = steps
    BY <1>1, <1>t, <1>h DEF RecordRuntimeSession, Row
  <2>3. StepsHaveRun'
    <3>1. CASE j.session = row.session
      BY <2>2, <3>1, <1>u, <1>c
         DEF ContextIsGood, StepsHaveRun, RanOn, Restarted
    <3>2. CASE j.seq = 1 /\ ~row.finReq
      <4>1. At(steps, 1, "PENDING")
        BY <2>1, <3>2, <1>g DEF Position
      <4>2. \A s \in Seqs : s = 1 \/ s > 1
        BY DEF Seqs
      <4>3. \A s \in Seqs : steps[s] # "SUCCEEDED"
        BY <4>1, <4>2 DEF At
      <4> QED
        BY <2>2, <4>3 DEF StepsHaveRun
    <3> QED
      BY <2>1, <3>1, <3>2, <1>g DEF OnItsSession
  <2>4. StoredHaveRun'
    BY <2>1, <1>o DEF StoredHaveRun
  <2>5. OneKernel'
    <3> SUFFICES ASSUME row.mode = "MULTI"
                 PROVE  /\ \A d \in done : d[2] # 0 =>
                             d[1] = j.session /\ d[1] # NoSession
                        /\ \A v \in Workers : job'[v].pc \in ChainPc =>
                             /\ job'[v].session = j.session
                             /\ job'[v].session # NoSession
      BY <2>2, <1>u DEF OneKernel
    <3>1. /\ \A d \in done :
               d[2] # 0 => d[1] = row.session /\ d[1] # NoSession
          /\ \A v \in Workers :
               job[v].pc \in ChainPc =>
                 job[v].session = row.session /\ job[v].session # NoSession
      BY <1>c DEF ContextIsGood, OneKernel
    <3>2. row.session # NoSession => j.session = row.session
      BY <2>1, <1>g DEF OnItsSession
    <3> QED
      BY <2>1, <3>1, <3>2
  <2> QED
    BY <2>3, <2>4, <2>5 DEF ContextIsGood
<1>2. CASE ~RecordRuntimeSession(w)
  <2>1. /\ row'.session = row.session /\ row'.status = row.status
        /\ row'.mode = row.mode /\ row'.ops = row.ops
    BY <1>2, <1>t DEF MarkStarted, MarkSucceeded, MarkFailed, SkipStepsAfter,
                      AbortBegin, AbortRecord, AbortMark, Row
  <2>2. /\ Others /\ k.pc # "stored"
        /\ k.pc \in ChainPc => j.pc \in ChainPc /\ k.session = j.session
    <3>1. CASE MarkStarted(w) \/ MarkSucceeded(w)
      BY <3>1, <1>t, GoIs DEF MarkStarted, MarkSucceeded, ChainPc
    <3>2. CASE MarkFailed(w)
      BY <3>2, <1>t, GoIs, GoEndingIs DEF MarkFailed, ChainPc
    <3>3. CASE SkipStepsAfter(w)
      BY <3>3, <1>t, GoIs DEF SkipStepsAfter, ChainPc
    <3>4. CASE AbortBegin(w) \/ AbortRecord(w) \/ AbortMark(w)
      BY <3>4, <1>t, GoIs DEF AbortBegin, AbortRecord, AbortMark, ChainPc
    <3> QED
      BY <1>2, <3>1, <3>2, <3>3, <3>4
  <2>3. ASSUME NEW s \in Seqs, steps'[s] = "SUCCEEDED"
        PROVE  \/ steps[s] = "SUCCEEDED"
               \/ RanOn(row.session, row.ops, s)
    <3>1. CASE MarkSucceeded(w)
      <4>1. RanOn(row.session, row.ops, j.seq)
        BY <3>1, <1>h DEF MarkSucceeded, ContextIsGood, StoredHaveRun
      <4>2. steps' = [steps EXCEPT ![j.seq] = "SUCCEEDED"]
        BY <3>1 DEF MarkSucceeded
      <4> QED
        BY <2>3, <4>1, <4>2, <1>t
    <3>2. CASE ~MarkSucceeded(w)
      BY <1>2, <2>3, <3>2, <1>t
         DEF MarkStarted, MarkFailed, SkipStepsAfter, AbortBegin, AbortRecord,
             AbortMark
    <3> QED
      BY <3>1, <3>2
  <2> QED
    BY <2>1, <2>2, <2>3, <1>u, <1>o, <1>c, ContextKept
<1> QED
  BY <1>1, <1>2

\* A run or a cancellation that ends keeps the session only for a retry on it.
LEMMA RunEndContext ==
    ASSUME TypeOK, LifecycleIsGood, ContextIsGood, NEW w \in Workers,
           \/ DeferRetainedRetry(w) \/ CompleteOperation(w) \/ Finalize(w)
           \/ ReleaseForHandover(w) \/ ReleaseForCancellation(w)
           \/ CancelFinalize(w)
    PROVE  ContextIsGood'
<1> DEFINE j == job[w]
           k == job'[w]
           Others == \A v \in Workers : v # w => job'[v] = job[v]
<1>t. /\ job \in [Workers -> Job] /\ j \in Job /\ row \in Row
      /\ lease \in Lease /\ j.end \in Ending
      /\ steps \in [Seqs -> StepStatus]
  BY DEF TypeOK, Job
<1>g. JobIsGood(j, row.mode)
  BY DEF LifecycleIsGood, JobsAreGood
<1>u. done' = done
  BY DEF DeferRetainedRetry, CompleteOperation, Finalize, ReleaseForHandover,
         ReleaseForCancellation, CancelFinalize, runtime
<1>r. Released(lease).owner = NoWorker
  BY <1>t DEF Released, Lease
<1>1. CASE DeferRetainedRetry(w) \/ CompleteOperation(w)
  <2>1. /\ row'.session = row.session /\ row'.mode = row.mode
        /\ row'.ops = row.ops /\ steps' = steps
        /\ row'.status \in {"QUEUED", "WAITING_FOR_OPERATION"}
        /\ row.status = "RUNNING" /\ JobEnds(w)
    BY <1>1, <1>t DEF DeferRetainedRetry, CompleteOperation, Row, HoldsRun,
                      Holds
  <2>2. k.pc \in {"idle", "dead"} /\ Others
    BY <2>1, <1>t, JobEndsIs
  <2>3. \A v \in Workers : ~HoldsRun(v)'
    BY <2>1 DEF HoldsRun, Holds
  <2>4. Continues(row) /\ row.status \notin TerminalStatus
    BY <2>1 DEF Continues, TerminalStatus
  <2> QED
    BY <2>1, <2>2, <2>3, <2>4, <1>u, ContextKept DEF ChainPc
<1>2. CASE ReleaseForHandover(w) \/ ReleaseForCancellation(w)
  <2>1. row' = row /\ steps' = steps
    BY <1>2 DEF ReleaseForHandover, ReleaseForCancellation
  <2>2. k.pc \in {"idle", "dead", "stop"} /\ Others
    BY <1>2, <1>t, JobEndsIs, GoEndingIs
       DEF ReleaseForHandover, ReleaseForCancellation
  <2>3. lease'.owner \in {w, NoWorker}
    BY <1>2, <1>t
       DEF ReleaseForHandover, ReleaseForCancellation, HoldsRun, Holds,
           BeginHandover, Released, Lease
  <2>4. \A v \in Workers : HoldsRun(v)' => v = w
    BY <2>3, WorkersAssumption DEF HoldsRun, Holds
  <2> QED
    BY <2>1, <2>2, <2>4, <1>u, ContextKept DEF ChainPc
<1>3. CASE CancelFinalize(w)
  <2>1. PICK ending \in {"FAILED", "CANCELLED"} :
          row' = [row EXCEPT
                !.status = ending, !.strategy = "NOT_RETRYABLE", !.from = 0,
                !.retained = "NONE", !.cleanup = j.end.cleanup,
                !.abort = ResolvedAbort(@, j.end.cleanup),
                !.session = SessionAfter(@, j.end.cleanup)]
    BY <1>3 DEF CancelFinalize
  <2>2. row'.status = ending /\ row'.strategy = "NOT_RETRYABLE"
    BY <2>1, <1>t DEF Row
  <2> QED
    BY <2>2, ContextEnded DEF TerminalStatus
<1>4. CASE Finalize(w)
  <2> DEFINE end == j.end
             cleanup == FinalCleanup(w)
  <2>1. PICK from :
          row' = [row EXCEPT
                !.status = end.status, !.strategy = end.strategy,
                !.from = from,
                !.retained = IF end.retain THEN "OPEN" ELSE "NONE",
                !.cleanup = cleanup,
                !.abort = ResolvedAbort(@, cleanup),
                !.session = IF end.retain THEN @ ELSE SessionAfter(@, cleanup)]
    BY <1>4 DEF Finalize
  <2>2. /\ row'.status = end.status /\ row'.mode = row.mode
        /\ row'.strategy = end.strategy /\ row'.ops = row.ops
        /\ row'.session = IF end.retain THEN row.session
                          ELSE SessionAfter(row.session, cleanup)
    BY <2>1, <1>t DEF Row
  <2>3. /\ j.pc \in {"finalize", "finalizeOk", "abortFinalize"}
        /\ JobEnds(w) /\ row.status = "RUNNING"
        /\ end.status \in {"SUCCEEDED", "FAILED"}
        /\ steps' = IF end.status = "FAILED" THEN EndedSteps(steps, "FAILED")
                    ELSE steps
    BY <1>4, <1>t DEF Finalize, Ending, HoldsRun, Holds
  <2>4. CASE end.status = "FAILED" /\ end.strategy = "FROM_FAILED_STEP"
    <3>1. end.retain
      BY <2>3, <2>4, <1>g DEF JobIsGood, FailsPlainly, FailsRetaining
    <3>2. row'.session = row.session
      BY <2>2, <3>1
    <3>3. \A s \in Seqs : steps'[s] = "SUCCEEDED" => steps[s] = "SUCCEEDED"
      BY <2>3, <2>4, <1>t DEF EndedSteps
    <3>4. k.pc \in {"idle", "dead"} /\ Others
      BY <2>3, <1>t, JobEndsIs
    <3>5. \A v \in Workers : ~HoldsRun(v)'
      BY <2>2, <2>4 DEF HoldsRun, Holds
    <3>6. Continues(row) /\ row.status \notin TerminalStatus
      BY <2>3 DEF Continues, TerminalStatus
    <3> QED
      BY <2>2, <3>2, <3>3, <3>4, <3>5, <3>6, <1>u, ContextKept DEF ChainPc
  <2>5. CASE ~(end.status = "FAILED" /\ end.strategy = "FROM_FAILED_STEP")
    BY <2>2, <2>3, <2>5, ContextEnded DEF TerminalStatus
  <2> QED
    BY <2>4, <2>5
<1> QED
  BY <1>1, <1>2, <1>3, <1>4

\* Commands and claims: a retry on the session runs again from the failed
\* Step, every other one from the start.
LEMMA CommandContext ==
    ASSUME TypeOK, ContextIsGood, Command \/ RequestExpiredCancellation
    PROVE  ContextIsGood'
<1>t. /\ row \in Row /\ steps \in [Seqs -> StepStatus]
      /\ row.mode \in {"SINGLE", "MULTI"}
  BY DEF TypeOK, Row, OperationMode
<1>u. done' = done /\ job' = job
  BY DEF Command, RequestCancel, RequestRetry, RequestOperation,
         RequestFinalization, RequestExpiredCancellation, runtime
<1>1. /\ row'.session = row.session /\ row'.mode = row.mode
      /\ row'.status \notin TerminalStatus \cup {"RUNNING"}
  BY <1>t DEF Command, RequestCancel, RequestRetry, RequestOperation,
              RequestFinalization, RequestExpiredCancellation, Row,
              TerminalStatus
<1>2. \A v \in Workers : ~HoldsRun(v)'
  BY <1>1 DEF HoldsRun, Holds
<1>3. row.mode # "MULTI" \/ row.status \notin TerminalStatus
  BY <1>t DEF Command, RequestCancel, RequestRetry, RequestOperation,
              RequestFinalization, RequestExpiredCancellation, PastMaximum,
              TerminalStatus, Mode
<1>4. ASSUME NEW s \in Seqs, Continues(row'), steps'[s] = "SUCCEEDED"
      PROVE  Continues(row) /\ row'.ops = row.ops /\ steps[s] = "SUCCEEDED"
  <2>1. CASE RequestCancel \/ RequestExpiredCancellation
    <3>1. row'.status = "CANCEL_REQUESTED"
      BY <2>1, <1>t DEF RequestCancel, RequestExpiredCancellation, Row
    <3> QED
      BY <3>1, <1>4 DEF Continues
  <2>2. CASE RequestFinalization
    BY <2>2, <1>4, <1>t DEF RequestFinalization, Continues, Row
  <2>3. CASE RequestOperation
    BY <2>3, <1>4, <1>t DEF RequestOperation
  <2>4. CASE RequestRetry
    <3>1. /\ row.status = "FAILED" /\ row.strategy # "NOT_RETRYABLE"
          /\ row'.ops = row.ops
      BY <2>4, <1>t DEF RequestRetry, Row
    <3>2. PICK from :
            /\ row.strategy = "FROM_START" => from = 1
            /\ steps' = [r \in Seqs |->
                           IF r < from THEN steps[r] ELSE "PENDING"]
      BY <2>4 DEF RequestRetry
    <3>3. s < from /\ steps[s] = "SUCCEEDED"
      BY <1>4, <3>2
    <3>4. row.strategy # "FROM_START"
      BY <3>2, <3>3 DEF Seqs
    <3> QED
      BY <3>1, <3>3, <3>4, <1>t DEF Continues, Row, RetryStrategy
  <2> QED
    BY <2>1, <2>2, <2>3, <2>4 DEF Command
<1> QED
  BY <1>1, <1>2, <1>3, <1>4, <1>u, ContextKept

\* ... and a claim starts on what has run there.
LEMMA ClaimContext ==
    ASSUME TypeOK, LifecycleIsGood, ContextIsGood, NEW w \in Workers, Claim(w)
    PROVE  ContextIsGood'
<1> DEFINE k == job'[w]
           Others == \A v \in Workers : v # w => job'[v] = job[v]
<1>t. job \in [Workers -> Job] /\ row \in Row /\ lease \in Lease
  BY DEF TypeOK
<1>u. done' = done /\ steps' = steps
  BY DEF Claim, ClaimWaiting, ClaimNew, ClaimHandover, ClaimCancellation,
         runtime
<1>1. /\ row'.session = row.session /\ row'.mode = row.mode
      /\ row'.ops = row.ops
  <2>1. CASE ClaimWaiting(w)
    BY <2>1, <1>t DEF ClaimWaiting, Row
  <2>2. CASE ClaimNew(w)
    BY <2>2, <1>t DEF ClaimNew, Row
  <2>3. CASE ClaimHandover(w) \/ ClaimCancellation(w)
    BY <2>3 DEF ClaimHandover, ClaimCancellation
  <2> QED
    BY <2>1, <2>2, <2>3 DEF Claim
<1>2. /\ row.status \notin TerminalStatus
      /\ Continues(row) \/ ~Continues(row')
  <2>1. CASE ClaimWaiting(w) \/ ClaimNew(w) \/ ClaimHandover(w)
    BY <2>1 DEF ClaimWaiting, ClaimNew, ClaimHandover, Claimable, Continues,
                TerminalStatus
  <2>2. CASE ClaimCancellation(w)
    BY <2>2 DEF ClaimCancellation, CancellationClaimable, Continues,
                TerminalStatus
  <2> QED
    BY <2>1, <2>2 DEF Claim
<1>3. /\ Others /\ k.pc \in {"prepare", "check", "takeover", "cancelStop"}
      /\ k.pc = "takeover" =>
           k.session = row.session /\ row.session # NoSession
  <2>1. CASE ClaimWaiting(w)
    BY <2>1, <1>t, ClaimedIs DEF ClaimWaiting
  <2>2. CASE ClaimNew(w)
    BY <2>2, <1>t, ClaimedIs DEF ClaimNew
  <2>3. CASE ClaimHandover(w)
    <3>1. row.session # NoSession
      BY <2>3 DEF ClaimHandover, LifecycleIsGood, RowIsGood, RunningIsGood
    <3> QED
      BY <2>3, <3>1, <1>t, ClaimedIs DEF ClaimHandover
  <2>4. CASE ClaimCancellation(w)
    BY <2>4, <1>t, ClaimedIs DEF ClaimCancellation
  <2> QED
    BY <2>1, <2>2, <2>3, <2>4 DEF Claim
<1>4. \A v \in Workers : HoldsRun(v)' => v = w
  <2>1. CASE ClaimWaiting(w) \/ ClaimNew(w) \/ ClaimHandover(w)
    BY <2>1, <1>t DEF ClaimWaiting, ClaimNew, ClaimHandover, Granted, Lease,
                      HoldsRun, Holds
  <2>2. CASE ClaimCancellation(w)
    BY <2>2 DEF ClaimCancellation, CancellationClaimable, HoldsRun, Holds
  <2> QED
    BY <2>1, <2>2 DEF Claim
<1> QED
  BY <1>1, <1>2, <1>3, <1>4, <1>u, ContextKept DEF ChainPc

\* A step that moves no job, and changes no column the context rests on.
LEMMA QuietContext ==
    ASSUME ContextIsGood, done' = done, job' = job, steps' = steps,
           row'.session = row.session, row'.mode = row.mode,
           row'.ops = row.ops, Continues(row') => Continues(row),
           \/ row.status \notin TerminalStatus \/ row'.status \in TerminalStatus,
           \A w \in Workers : HoldsRun(w)' => HoldsRun(w)
    PROVE  ContextIsGood'
BY ContextKept

\* The passes: what they end is not continued, and no session that waits for
\* a retry on it is deleted.
LEMMA PassContext ==
    ASSUME TypeOK, LifecycleIsGood, ContextIsGood, NEW c \in Cleaners,
           StartPass(c) \/ PassStep(c) \/ Audit(c) \/ PassFault(c)
    PROVE  ContextIsGood'
<1>t. row \in Row
  BY DEF TypeOK
<1>u. done' = done /\ job' = job
  BY Zenon
     DEF StartPass, PassStep, Audit, PassFault, FailExpired, CleanupExpired,
         RetryUnresolved, ValidateObservation, DeleteObserved, RecordResult,
         AuditProbe, AuditLost, AuditCapture, AuditEnd, AuditTargetGone,
         FailWaiting, DeleteObservedFails, PassBreaks, runtime
<1>1. CASE FailExpired(c) \/ CleanupExpired(c)
  <2>1. row'.status = "FAILED" /\ row'.strategy # "FROM_FAILED_STEP"
    BY <1>1, <1>t DEF FailExpired, CleanupExpired, RestartStrategy, Row
  <2> QED
    BY <2>1, ContextEnded DEF TerminalStatus
<1>2. CASE \E by, lost : FailWaiting(c, by, lost)
  <2>1. PICK by, lost : FailWaiting(c, by, lost)
    BY <1>2
  <2>2. row'.status = "FAILED" /\ row'.strategy = "NOT_RETRYABLE"
    BY <2>1, <1>t DEF FailWaiting, Row
  <2> QED
    BY <2>2, ContextEnded DEF TerminalStatus
<1>3. CASE row' = row /\ UNCHANGED <<lease, attempt, steps>>
  BY <1>3, <1>u, QuietContext DEF HoldsRun, Holds
<1>4. CASE RetryUnresolved(c)
  <2>1. /\ row'.session = row.session /\ row'.mode = row.mode
        /\ row'.ops = row.ops /\ row'.status = row.status
        /\ row'.strategy = row.strategy
        /\ UNCHANGED <<lease, attempt, steps>>
    BY <1>4, <1>t DEF RetryUnresolved, Row
  <2>2. Continues(row') => Continues(row)
    BY <2>1 DEF Continues
  <2> QED
    BY <2>1, <2>2, <1>u, QuietContext DEF HoldsRun, Holds
<1>5. CASE RecordResult(c) /\ ~(row' = row)
  <2>1. /\ Current(c) /\ row.status \in {"FAILED", "CANCELLED"}
        /\ cleaner[c].pc = "record"
        /\ row'.status = row.status /\ row'.strategy = row.strategy
    BY <1>5, <1>t DEF RecordResult, Row
  <2>2. row.cleanup = "PENDING"
    BY <2>1 DEF Current, LifecycleIsGood, PassesAreGood
  <2>3. row.status = "FAILED" => row.strategy # "FROM_FAILED_STEP"
    BY <2>2 DEF LifecycleIsGood, RowIsGood, EndIsGood, TerminalStatus
  <2> QED
    BY <2>1, <2>3, ContextEnded DEF TerminalStatus
<1>6. CASE \E by : /\ row.status = "WAITING_FOR_OPERATION"
                   /\ UNCHANGED <<lease, attempt, steps>>
                   /\ row' = [row EXCEPT !.status = "FINALIZING",
                                         !.finReq = TRUE, !.finBy = by]
  <2>1. /\ row'.session = row.session /\ row'.mode = row.mode
        /\ row'.ops = row.ops /\ row'.status = "FINALIZING"
    BY <1>6, <1>t DEF Row
  <2>2. Continues(row) /\ row.status \notin TerminalStatus
    BY <1>6 DEF Continues, TerminalStatus
  <2> QED
    BY <2>1, <2>2, <1>6, <1>u, QuietContext DEF HoldsRun, Holds
<1>7. CASE StartPass(c)
  BY <1>7, <1>1, <1>4 DEF StartPass
<1>8. CASE Audit(c)
  BY <1>8, <1>2, <1>3, <1>6
     DEF Audit, AuditCapture, AuditEnd, AuditTargetGone, CurrentWaiting
<1>9. CASE PassFault(c) \/ ValidateObservation(c) \/ DeleteObserved(c)
           \/ AuditProbe(c)
  BY <1>9, <1>3
     DEF PassFault, DeleteObservedFails, PassBreaks, ValidateObservation,
         DeleteObserved, AuditProbe, db
<1>10. CASE AuditLost(c)
  BY <1>10, <1>2, <1>3 DEF AuditLost, db
<1>11. CASE RecordResult(c)
  BY <1>11, <1>3, <1>5 DEF RecordResult
<1> QED
  BY <1>7, <1>8, <1>9, <1>10, <1>11 DEF PassStep

\* A kernel that restarts keeps its id and, in what is asked, its context.
LEMMA RestartContext ==
    ASSUME TypeOK, ContextIsGood, NEW k \in kernels, KernelRestarts(k)
    PROVE  ContextIsGood'
<1>1. UNCHANGED <<row, lease, attempt, steps, job>>
  BY DEF KernelRestarts, db
<1>2. /\ \A i, o, s : RanOn(i, o, s) =>
           <<i, o, s>> \in done' \/ <<i, 0, 0>> \in done'
      /\ \A d \in done' : d[2] # 0 => d \in done
  BY RestartKeeps
<1>3. StepsHaveRun'
  BY <1>1, <1>2 DEF ContextIsGood, StepsHaveRun, RanOn, Restarted
<1>4. StoredHaveRun'
  BY <1>1, <1>2
     DEF ContextIsGood, StoredHaveRun, RanOn, Restarted, HoldsRun, Holds
<1>5. OneKernel'
  BY <1>1, <1>2 DEF ContextIsGood, OneKernel
<1> QED
  BY <1>3, <1>4, <1>5 DEF ContextIsGood

\* Time and the environment.
LEMMA EnvironmentContext ==
    ASSUME TypeOK, LifecycleIsGood, ContextIsGood,
           HandOverExpired \/ Deadlines \/ Expiry \/ Environment
    PROVE  ContextIsGood'
<1>t. row \in Row /\ lease \in Lease
  BY DEF TypeOK
<1>u. \/ done' = done /\ job' = job
      \/ \E k \in kernels : KernelRestarts(k)
  BY DEF HandOverExpired, Deadlines, Expiry, Environment, FailQueueTimeout,
         RequestExpiredCancellation, RetentionPasses, LeaseExpires,
         CancellationLeaseExpires, LeaseStalls, CancellationLeaseStalls,
         ClaimUnavailable, KernelDies, runtime
<1> SUFFICES ASSUME done' = done, job' = job
             PROVE  ContextIsGood'
  BY <1>u, RestartContext
<1>1. CASE HandOverExpired
  <2>1. UNCHANGED <<row, steps>> /\ lease'.owner = NoWorker
    BY <1>1, <1>t DEF HandOverExpired, BeginHandover, Released, Lease
  <2>2. \A w \in Workers : ~HoldsRun(w)'
    BY <2>1, WorkersAssumption DEF HoldsRun, Holds
  <2> QED
    BY <2>1, <2>2, QuietContext
<1>2. CASE FailQueueTimeout \/ ClaimUnavailable
  <2>1. row'.status = "FAILED" /\ row'.strategy # "FROM_FAILED_STEP"
    BY <1>2, <1>t DEF FailQueueTimeout, ClaimUnavailable, Row
  <2> QED
    BY <2>1, ContextEnded DEF TerminalStatus
<1>3. CASE RequestExpiredCancellation
  BY <1>3, CommandContext
<1>4. CASE RetentionPasses
  <2>1. /\ row'.session = row.session /\ row'.mode = row.mode
        /\ row'.ops = row.ops /\ row'.status = row.status
        /\ row'.strategy = row.strategy
        /\ UNCHANGED <<lease, attempt, steps>>
    BY <1>4, <1>t DEF RetentionPasses, Row
  <2>2. Continues(row') => Continues(row)
    BY <2>1 DEF Continues
  <2> QED
    BY <2>1, <2>2, QuietContext DEF HoldsRun, Holds
<1>5. CASE \/ LeaseExpires \/ LeaseStalls \/ CancellationLeaseExpires
           \/ CancellationLeaseStalls
  <2>1. UNCHANGED <<row, attempt, steps>>
    BY <1>5 DEF LeaseExpires, LeaseStalls, CancellationLeaseExpires,
                CancellationLeaseStalls
  <2>2. /\ lease'.owner = lease.owner /\ lease'.fence = lease.fence
        /\ lease'.live => lease.live
    BY <1>5, <1>t DEF LeaseExpires, LeaseStalls, CancellationLeaseExpires,
                      CancellationLeaseStalls, Lease
  <2>3. \A w \in Workers : HoldsRun(w)' => HoldsRun(w)
    BY <2>1, <2>2 DEF HoldsRun, Holds
  <2> QED
    BY <2>1, <2>3, QuietContext
<1>6. CASE \E k \in kernels : KernelDies(k) \/ KernelRestarts(k)
  <2>1. UNCHANGED <<row, lease, attempt, steps>>
    BY <1>6 DEF KernelDies, KernelRestarts, db
  <2> QED
    BY <2>1, QuietContext DEF HoldsRun, Holds
<1> QED
  BY <1>1, <1>2, <1>3, <1>4, <1>5, <1>6 DEF Deadlines, Expiry, Environment

\* Nothing has run when the Execution is submitted.
LEMMA ContextInit == Init => ContextIsGood
<1> SUFFICES ASSUME Init PROVE ContextIsGood
  OBVIOUS
<1>1. /\ row.status = "QUEUED" /\ done = {}
      /\ \A s \in Seqs : steps[s] = "PENDING"
      /\ \A w \in Workers : job[w].pc = "idle"
  BY DEF Init, Submitted, Idle
<1> QED
  BY <1>1 DEF ContextIsGood, StepsHaveRun, StoredHaveRun, OneKernel, ChainPc

\* Every step keeps the context of the Steps to come.
LEMMA ContextStep ==
    ASSUME TypeOK, LifecycleIsGood, SessionsAreGood, ContextIsGood,
           [Next]_vars
    PROVE  ContextIsGood'
<1>1. CASE Command
  BY <1>1, CommandContext
<1>2. ASSUME NEW w \in Workers, Claim(w)
      PROVE  ContextIsGood'
  BY <1>2, ClaimContext
<1>3. ASSUME NEW w \in Workers,
             JobStep(w) \/ JobFault(w) \/ DispatchCancellation(w)
      PROVE  ContextIsGood'
  <2>1. CASE LocalStep(w)
    BY <2>1, LocalContext
  <2>2. CASE \/ RecordRuntimeSession(w) \/ MarkStarted(w) \/ MarkSucceeded(w)
             \/ MarkFailed(w) \/ SkipStepsAfter(w) \/ AbortBegin(w)
             \/ AbortRecord(w) \/ AbortMark(w)
    BY <2>2, RunContext
  <2>3. CASE \/ DeferRetainedRetry(w) \/ CompleteOperation(w) \/ Finalize(w)
             \/ ReleaseForHandover(w) \/ ReleaseForCancellation(w)
             \/ CancelFinalize(w)
    BY <2>3, RunEndContext
  <2> QED
    BY <1>3, <2>1, <2>2, <2>3 DEF JobStep, LocalStep
<1>4. ASSUME NEW c \in Cleaners,
             StartPass(c) \/ PassStep(c) \/ Audit(c) \/ PassFault(c)
      PROVE  ContextIsGood'
  BY <1>4, PassContext
<1>5. CASE HandOverExpired \/ Deadlines \/ Expiry \/ Environment
  BY <1>5, EnvironmentContext
<1>6. CASE UNCHANGED vars
  BY <1>6, QuietContext DEF vars, db, runtime, HoldsRun, Holds
<1> QED
  BY <1>1, <1>2, <1>3, <1>4, <1>5, <1>6 DEF Next

\* A Worker that may commit runs a Step only on the kernel of the row, where
\* every earlier Step of the Operation ran to its end, and in a MULTI Execution
\* on the kernel of everything before it: through retries on the retained
\* session, takeovers, aborts and recoveries.  The one exception is a kernel
\* that Jupyter restarted under the same id: it is still the row's kernel, and
\* what it ran before the restart is lost.
THEOREM StepsFindTheirContext == Spec => []StepHasItsContext
<1>1. TypeOK /\ LifecycleIsGood /\ SessionsAreGood /\ ContextIsGood
        /\ [Next]_vars => ContextIsGood'
  BY ContextStep
<1>2. TypeOK /\ LifecycleIsGood /\ SessionsAreGood /\ ContextIsGood
        => StepHasItsContext
  <2> SUFFICES ASSUME LifecycleIsGood, SessionsAreGood, ContextIsGood,
                      NEW w \in Workers, HoldsRun(w), job[w].pc = "execute"
               PROVE  /\ job[w].session = row.session
                      /\ \A s \in Seqs : s < job[w].seq =>
                           RanOn(job[w].session, row.ops, s)
                      /\ row.mode = "MULTI" =>
                           \A d \in done : d[2] # 0 => d[1] = job[w].session
    BY DEF StepHasItsContext, Mode
  <2>1. /\ OnItsSession(job[w], row) /\ Position(job[w], row, steps)
        /\ row.status = "RUNNING"
    BY DEF SessionsAreGood, HoldersOnSession, LifecycleIsGood, HoldersAreGood,
           HoldsRun, Holds
  <2>2. job[w].session = row.session
    BY <2>1 DEF OnItsSession, OnSessionPc
  <2>3. At(steps, job[w].seq, "RUNNING")
    BY <2>1 DEF Position, RunsStepPc
  <2>4. \A s \in Seqs : s < job[w].seq => RanOn(row.session, row.ops, s)
    BY <2>1, <2>3 DEF At, ContextIsGood, StepsHaveRun, Continues
  <2>5. row.mode = "MULTI" => \A d \in done : d[2] # 0 => d[1] = row.session
    BY <2>1 DEF ContextIsGood, OneKernel, TerminalStatus
  <2> QED
    BY <2>2, <2>4, <2>5
<1> QED
  BY <1>1, <1>2, ContextInit, TypeCorrect, LifecycleGood, SessionsGood, PTL
     DEF Spec

=============================================================================
