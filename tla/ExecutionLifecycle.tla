------------------------ MODULE ExecutionLifecycle ------------------------
(***************************************************************************)
(* The life of one Execution: the commands of its caller, the Workers that *)
(* claim it under a fenced lease and run its Steps on a Jupyter kernel,    *)
(* the cancellation path, the background passes that recover expired       *)
(* leases, expire retained sessions and audit deadlines, and the faults    *)
(* the service is built for (a Worker that crashes, stalls or shuts down,  *)
(* a kernel that dies, a driver or storage call that fails).               *)
(*                                                                         *)
(* Every database transaction is one action, every call to the Jupyter     *)
(* server another, so all interleavings of Workers between two             *)
(* transactions are explored.  Time is nondeterministic: a deadline is a   *)
(* fact that may become true at any moment.  A claim that the code refuses *)
(* (no capacity, paused admission, target OFFLINE) changes nothing and is  *)
(* a step not taken.  The row's version column is only ever compared for   *)
(* equality with a copy taken earlier; it is modelled by the set of passes *)
(* whose copy is still current.                                            *)
(***************************************************************************)
EXTENDS ExecutionStore

VARIABLES
    row,        \* execution row: state columns
    lease,      \* execution row: lease, fence and cancellation lease columns
    attempt,    \* the newest execution_attempts row
    op,         \* status of the active Operation
    steps,      \* status of each of its Steps (and of the Step's attempt)
    handover,   \* TRUE iff an execution_handovers row exists
    seen,       \* Cleaners whose observed version is the row's version
    kernels,    \* Jupyter kernels that are alive
    started,    \* number of kernels ever started
    done,       \* <<kernel, operation, step>>: code that ran to its end there;
                \* <<kernel, 0, 0>>: the kernel was restarted
    job,        \* per Worker: its local job for this Execution
    cleaner,    \* per Cleaner: its pass and what it observed
    faults      \* faults so far, bounded by MaxFaults

db == <<row, lease, attempt, op, steps, handover, seen>>
runtime == <<kernels, started, done>>
vars == <<db, runtime, job, cleaner, faults>>

Mode == row.mode

----------------------------------------------------------------------------
(* Worker jobs. *)

\* Phases inside the runner's try block: an interruption is handled there
BodyPc ==
    {"check", "defer", "prepare", "takeover", "record", "next", "execute",
     "stored", "publish", "toolFail", "stepFail", "evidence", "opSkip",
     "opDone", "complete", "release", "finalizeOk"}
\* The abort workflow: in the try block for MULTI, a handler for SINGLE
AbortPc ==
    {"abortBegin", "aborting", "abortRecord", "abortMark", "abortSkip",
     "abortFinalize"}
\* Phases inside an except handler: an interruption ends the job
HandlerPc == {"stop", "stopping", "finalize"}
InterruptedPc == {"interrupted", "interruptedRun", "relCancel", "relHandover"}
CancelPc == {"cancelStop", "cancelFinalize"}
RunPc == BodyPc \cup AbortPc \cup HandlerPc \cup InterruptedPc
Pc == {"idle", "dead"} \cup RunPc \cup CancelPc

\* run_in_flight: the Step whose result is not committed yet
InFlightPc ==
    {"execute", "stored", "toolFail", "stepFail"}
        \cup (IF Mode = "MULTI" THEN AbortPc ELSE {})

CatchesInterrupt == BodyPc \cup (IF Mode = "MULTI" THEN AbortPc ELSE {})

\* How a run is about to end: arguments of finalize, complete and abort
Ending ==
    [status : {"SUCCEEDED", "FAILED"}, strategy : RetryStrategy,
     retain : BOOLEAN, cleanup : CleanupStatus, abort : AbortStatus]

NoEnding ==
    [status |-> "FAILED", strategy |-> "NOT_RETRYABLE", retain |-> FALSE,
     cleanup |-> "NOT_REQUIRED", abort |-> "NOT_REQUIRED"]

Failing(strategy) == [NoEnding EXCEPT !.strategy = strategy]

Job ==
    [pc : Pc, fence : Nat, session : Nat, seq : 0 .. NumSteps,
     shut : BOOLEAN, end : Ending]

Idle ==
    [pc |-> "idle", fence |-> 0, session |-> NoSession, seq |-> 0,
     shut |-> FALSE, end |-> NoEnding]

Dead == [Idle EXCEPT !.pc = "dead"]

Go(w, pc) == job' = [job EXCEPT ![w].pc = pc]

GoEnding(w, pc, end) == job' = [job EXCEPT ![w].pc = pc, ![w].end = end]

\* A job that ends frees its Worker, unless the process is shutting down
JobEnds(w) ==
    job' = [job EXCEPT ![w] = IF job[w].shut THEN Dead ELSE Idle]

Fault == faults < MaxFaults /\ faults' = faults + 1

\* Strategy of a failure that lost the kernel's state
RestartStrategy == IF Mode = "SINGLE" THEN "FROM_START" ELSE "NOT_RETRYABLE"

FailureStrategies ==
    IF Mode = "SINGLE" THEN {"FROM_START", "NOT_RETRYABLE"}
    ELSE {"NOT_RETRYABLE"}

\* A SINGLE takeover learns its session only after it has read its sources
LocalSessions(w) ==
    {job[w].session}
        \cup (IF Mode = "SINGLE" /\ job[w].pc = "takeover" THEN {NoSession}
              ELSE {})

----------------------------------------------------------------------------
(* Leases. *)

LeaseLive == lease.owner # NoWorker /\ lease.live

CancelLeaseLive == lease.cowner # NoWorker /\ lease.clive

\* Mutant: the check does not look at the status
HoldsAnyStatus(w, statuses) ==
    /\ lease.owner = w /\ lease.fence = job[w].fence /\ lease.live
    /\ attempt.status = "RUNNING"

(* require_active_lease: the exact lease epoch is still active. *)
Holds(w, statuses) ==
    /\ row.status \in statuses
    /\ lease.owner = w
    /\ lease.fence = job[w].fence
    /\ lease.live
    /\ attempt.status = "RUNNING"
    /\ attempt.owner = w
    /\ attempt.fence = job[w].fence

HoldsRun(w) == Holds(w, {"RUNNING"})

HoldsCancellation(w) ==
    /\ row.status = "CANCEL_REQUESTED"
    /\ lease.cowner = w
    /\ lease.fence = job[w].fence
    /\ lease.clive

----------------------------------------------------------------------------
(* Commands of the caller. *)

RequestCancel ==
    /\ row.status \in
         {"QUEUED", "RUNNING", "WAITING_FOR_OPERATION", "FINALIZING"}
    /\ row' = [row EXCEPT !.status = "CANCEL_REQUESTED", !.reason = "CALLER"]
    /\ seen' = {}
    /\ UNCHANGED <<lease, attempt, op, steps, handover, runtime, job, cleaner,
                   faults>>

\* The command clears the session in memory; save() does not write it
RequestRetry ==
    /\ row.status = "FAILED" /\ Mode = "SINGLE" /\ op = "FAILED"
    /\ row.strategy # "NOT_RETRYABLE"
    /\ row.retries < MaxRetries
    /\ row.strategy = "FROM_FAILED_STEP" =>
         row.from # 0 /\ row.session # NoSession /\ row.retained = "OPEN"
    /\ row.strategy = "FROM_START" =>
         ~(row.cleanup \in UnresolvedCleanup /\ row.session # NoSession)
    /\ LET restart == row.strategy = "FROM_START"
           from == IF restart THEN 1 ELSE row.from
       IN  /\ row' = [row EXCEPT
                        !.status = "QUEUED", !.from = from,
                        !.retained = IF restart THEN "NONE" ELSE @,
                        !.cleanup = IF restart THEN "NOT_REQUIRED" ELSE @,
                        !.retries = @ + 1]
           /\ steps' = [s \in Seqs |->
                          IF s < from THEN steps[s] ELSE "PENDING"]
    /\ op' = "QUEUED"
    /\ lease' = Released(lease)
    /\ seen' = {}
    /\ UNCHANGED <<attempt, handover, runtime, job, cleaner, faults>>

RequestOperation ==
    /\ Mode = "MULTI" /\ row.status = "WAITING_FOR_OPERATION"
    /\ row.ops < MaxOperations
    /\ row' = [row EXCEPT !.status = "QUEUED", !.finReq = FALSE, !.ops = @ + 1]
    /\ op' = "QUEUED"
    /\ steps' = [s \in Seqs |-> "PENDING"]
    /\ seen' = {}
    /\ UNCHANGED <<lease, attempt, handover, runtime, job, cleaner, faults>>

RequestFinalization ==
    /\ Mode = "MULTI" /\ row.status = "WAITING_FOR_OPERATION"
    /\ \A s \in Seqs : steps[s] = "SUCCEEDED"
    /\ row' = [row EXCEPT !.status = "FINALIZING", !.finReq = TRUE,
                          !.finBy = "AGENT"]
    /\ seen' = {}
    /\ UNCHANGED <<lease, attempt, op, steps, handover, runtime, job, cleaner,
                   faults>>

----------------------------------------------------------------------------
(* Claiming. *)

Claimed(w, pc, session, seq) ==
    job' = [job EXCEPT ![w] =
              [Idle EXCEPT !.pc = pc, !.fence = lease'.fence,
                           !.session = session, !.seq = seq]]

Claimable ==
    /\ row.status \in {"QUEUED", "FINALIZING"}
    /\ row.finReq \/ op = "QUEUED"

\* A retained MULTI session continues its WAITING Attempt
ContinuesAttempt == Mode = "MULTI" /\ row.session # NoSession

IsResume ==
    /\ Mode = "SINGLE" /\ row.retries > 0
    /\ row.strategy = "FROM_FAILED_STEP" /\ row.from # 0
    /\ row.session # NoSession

ClaimWaiting(w) ==
    /\ job[w].pc = "idle" /\ Claimable
    /\ ContinuesAttempt /\ attempt.status = "WAITING"
    /\ lease' = Granted(lease, w)
    /\ attempt' = AttemptContinued(attempt, w, lease'.fence)
    /\ row' = [row EXCEPT !.status = "RUNNING", !.claimed = TRUE,
                          !.cleanup = "NOT_REQUIRED",
                          !.abort = "NOT_REQUIRED"]
    /\ op' = IF row.finReq THEN op ELSE "RUNNING"
    /\ seen' = {}
    /\ Claimed(w, "prepare", row.session, 1)
    /\ UNCHANGED <<steps, handover, runtime, cleaner, faults>>

\* A first run, a retry from the start, or a retry on the retained session
ClaimNew(w) ==
    /\ job[w].pc = "idle" /\ Claimable /\ ~ContinuesAttempt
    /\ IsResume => row.retained = "OPEN"
    /\ lease' = Granted(lease, w)
    /\ attempt' = [no |-> attempt.no + 1, status |-> "RUNNING", owner |-> w,
                   fence |-> lease'.fence]
    /\ row' = [row EXCEPT !.status = "RUNNING", !.claimed = TRUE,
                          !.retained = IF IsResume THEN @ ELSE "NONE",
                          !.cleanup = "NOT_REQUIRED",
                          !.abort = "NOT_REQUIRED"]
    /\ op' = "RUNNING"
    /\ seen' = {}
    /\ IF IsResume THEN Claimed(w, "check", row.session, row.from)
                   ELSE Claimed(w, "prepare", NoSession, 1)
    /\ UNCHANGED <<steps, handover, runtime, cleaner, faults>>

\* _fail_unavailable_retained_retry: the retained target is gone or disabled
ClaimUnavailable ==
    /\ row.status = "QUEUED" /\ op = "QUEUED"
    /\ IsResume /\ row.retained = "OPEN"
    /\ Fault
    /\ row' = [row EXCEPT !.status = "FAILED", !.strategy = "FROM_START",
                          !.from = 1, !.retained = "NONE",
                          !.cleanup = "FAILED"]
    /\ lease' = Released(lease)
    /\ steps' = [s \in Seqs |->
                   IF steps[s] = "PENDING" THEN "SKIPPED" ELSE steps[s]]
    /\ op' = EndedOperation(op, "FAILED")
    /\ seen' = {}
    /\ UNCHANGED <<attempt, handover, runtime, job, cleaner>>

RunningSteps == {s \in Seqs : steps[s] = "RUNNING"}

\* Mutant: lease_expires_at <= now, which a NULL expiry does not satisfy
OnlyExpiredFree == lease.owner # NoWorker /\ ~lease.live

LeaseFree == ~LeaseLive

\* Take over a Step released or abandoned by another Worker
ClaimHandover(w) ==
    /\ job[w].pc = "idle"
    /\ row.status = "RUNNING" /\ LeaseFree /\ handover
    /\ attempt.status = "RUNNING"
    /\ handover' = FALSE
    /\ lease' = Granted(lease, w)
    /\ attempt' = AttemptContinued(attempt, w, lease'.fence)
    /\ seen' = {}
    /\ Claimed(w, "takeover", row.session, 0)
    /\ UNCHANGED <<row, op, steps, runtime, cleaner, faults>>

\* Mutant: the claim waits until the execution lease is released
CancelAfterRelease(w) ==
    /\ row.status = "CANCEL_REQUESTED" /\ lease.owner = NoWorker
    /\ CancelLeaseLive => lease.cowner = w

\* It waits for the run's lease to be released or to expire
CancellationClaimable(w) ==
    /\ row.status = "CANCEL_REQUESTED" /\ ~LeaseLive
    /\ CancelLeaseLive => lease.cowner = w

\* The fence rises unless this Worker already owns the cancellation
ClaimCancellation(w) ==
    /\ job[w].pc = "idle" /\ CancellationClaimable(w)
    /\ lease' = IF CancelLeaseLive THEN lease ELSE CancellationGranted(lease, w)
    /\ handover' = (handover /\ CancelLeaseLive)
    /\ Claimed(w, "cancelStop", row.session, 0)
    /\ UNCHANGED <<row, attempt, op, steps, seen, runtime, cleaner, faults>>

----------------------------------------------------------------------------
(* The runner: from the claim to the first Step. *)

\* Mutant: a lost retained session is silently replaced by a new one
PreflightRestarts(w) ==
    /\ job[w].pc = "check"
    /\ job' = [job EXCEPT ![w].pc = "prepare",
                          ![w].session = IF @ \in kernels THEN @ ELSE NoSession]
    /\ UNCHANGED <<db, runtime, cleaner, faults>>

\* Resumed retry: is the retained session still there?
Preflight(w) ==
    /\ job[w].pc = "check"
    /\ IF job[w].session \in kernels
       THEN Go(w, "prepare")
       ELSE GoEnding(w, "stop", Failing("FROM_START"))
    /\ UNCHANGED <<db, runtime, cleaner, faults>>

PreflightUnreachable(w) ==
    /\ job[w].pc = "check"
    /\ Fault
    /\ Go(w, "defer")
    /\ UNCHANGED <<db, runtime, cleaner>>

\* defer_retained_retry: back to the queue until the target recovers
DeferRetainedRetry(w) ==
    /\ job[w].pc = "defer" /\ HoldsRun(w)
    /\ row' = [row EXCEPT !.status = "QUEUED"]
    /\ lease' = Released(lease)
    /\ attempt' = EndedAttempt(attempt, "FAILED")
    /\ op' = IF op = "RUNNING" THEN "QUEUED" ELSE op
    /\ seen' = {}
    /\ JobEnds(w)
    /\ UNCHANGED <<steps, handover, runtime, cleaner, faults>>

\* Workspace, sources and notebook are prepared; a kernel is started
StartSession(w) ==
    /\ job[w].pc = "prepare" /\ job[w].session = NoSession
    /\ started' = started + 1
    /\ kernels' = kernels \cup {started'}
    /\ job' = [job EXCEPT ![w].pc = "record", ![w].session = started']
    /\ UNCHANGED <<db, done, cleaner, faults>>

KeepSession(w) ==
    /\ job[w].pc = "prepare" /\ job[w].session # NoSession
    /\ Go(w, "record")
    /\ UNCHANGED <<db, runtime, cleaner, faults>>

RecordRuntimeSession(w) ==
    /\ job[w].pc = "record" /\ HoldsRun(w)
    /\ row' = [row EXCEPT !.session = job[w].session]
    /\ Go(w, IF row.finReq THEN "complete" ELSE "next")
    /\ UNCHANGED <<lease, attempt, op, steps, handover, seen, runtime, cleaner,
                   faults>>

\* A takeover finds the running Step; a SINGLE one now knows its session
LoadRun(w) ==
    /\ job[w].pc = "takeover" /\ HoldsRun(w)
    /\ \E s \in RunningSteps :
         job' = [job EXCEPT ![w].pc = "execute", ![w].seq = s]
    /\ UNCHANGED <<db, runtime, cleaner, faults>>

----------------------------------------------------------------------------
(* The runner: Steps. *)

MarkStarted(w) ==
    /\ job[w].pc = "next" /\ HoldsRun(w)
    /\ steps' = [steps EXCEPT ![job[w].seq] = "RUNNING"]
    /\ Go(w, "execute")
    /\ UNCHANGED <<row, lease, attempt, op, handover, seen, runtime, cleaner,
                   faults>>

\* Deadlines are absolute and a takeover replays the whole output, so a Step
\* that once hit a limit hits it again
LimitHit == row.abort # "NOT_REQUIRED"

ExecuteSucceeds(w) ==
    /\ job[w].pc = "execute" /\ job[w].session \in kernels /\ ~LimitHit
    /\ done' = done \cup {<<job[w].session, row.ops, job[w].seq>>}
    /\ Go(w, "stored")
    /\ UNCHANGED <<db, kernels, started, cleaner, faults>>

\* The Step's code raised: StoredRuntimeExecutionError
ExecuteToolError(w) ==
    /\ job[w].pc = "execute" /\ job[w].session \in kernels /\ ~LimitHit
    /\ Go(w, "toolFail")
    /\ UNCHANGED <<db, runtime, cleaner, faults>>

\* A Step or Operation timeout, or the output limit, was hit; without an
\* abort if nothing was submitted yet or the partial output is not saved
ExecuteHitsLimit(w) ==
    /\ job[w].pc = "execute"
    /\ \/ Go(w, "abortBegin")
       \/ GoEnding(w, "stop", Failing(RestartStrategy))
    /\ UNCHANGED <<db, runtime, cleaner, faults>>

\* StoredStepFailure: the partial result was stored (stepFail) or was not
ExecuteLosesSession(w) ==
    /\ job[w].pc = "execute" /\ job[w].session \notin kernels
    /\ \E pc \in {"stepFail", "stop"} :
         GoEnding(w, pc, Failing(RestartStrategy))
    /\ UNCHANGED <<db, runtime, cleaner, faults>>

ExecuteBreaks(w) ==
    /\ job[w].pc = "execute"
    /\ Fault
    /\ \E pc \in {"stepFail", "stop"}, strategy \in FailureStrategies :
         GoEnding(w, pc, Failing(strategy))
    /\ UNCHANGED <<db, runtime, cleaner>>

MarkSucceeded(w) ==
    /\ job[w].pc = "stored" /\ HoldsRun(w)
    /\ steps' = [steps EXCEPT ![job[w].seq] = "SUCCEEDED"]
    /\ Go(w, "publish")
    /\ UNCHANGED <<row, lease, attempt, op, handover, seen, runtime, cleaner,
                   faults>>

\* Mutant: one Step too many
MoreStepsOffByOne(w) == job[w].seq <= NumSteps

MoreSteps(w) == job[w].seq < NumSteps

\* Journal released, notebook projected, artifacts registered
PublishSuccess(w) ==
    /\ job[w].pc = "publish"
    /\ job' = [job EXCEPT
                 ![w].pc = IF MoreSteps(w) THEN "next"
                           ELSE IF Mode = "SINGLE" THEN "complete"
                           ELSE "opDone",
                 ![w].seq = IF MoreSteps(w) THEN @ + 1 ELSE @,
                 ![w].end = [NoEnding EXCEPT !.status = "SUCCEEDED"]]
    /\ UNCHANGED <<db, runtime, cleaner, faults>>

Retaining ==
    [NoEnding EXCEPT !.strategy = "FROM_FAILED_STEP", !.retain = TRUE]

\* mark_failed after a tool error, or after a stored Step failure
MarkFailed(w) ==
    /\ job[w].pc \in {"toolFail", "stepFail"} /\ HoldsRun(w)
    /\ steps' = [steps EXCEPT ![job[w].seq] = "FAILED"]
    /\ IF job[w].pc = "stepFail" THEN Go(w, "stop")
       ELSE IF Mode = "SINGLE" THEN GoEnding(w, "evidence", Retaining)
       ELSE GoEnding(w, "opSkip", NoEnding)
    /\ UNCHANGED <<row, lease, attempt, op, handover, seen, runtime, cleaner,
                   faults>>

RecordFailureEvidence(w) ==
    /\ job[w].pc = "evidence"
    /\ Go(w, "finalize")
    /\ UNCHANGED <<db, runtime, cleaner, faults>>

SkipStepsAfter(w) ==
    /\ job[w].pc \in {"opSkip", "abortSkip"} /\ HoldsRun(w)
    /\ steps' = [s \in Seqs |->
                   IF s > job[w].seq /\ steps[s] = "PENDING" THEN "SKIPPED"
                   ELSE steps[s]]
    /\ Go(w, IF job[w].pc = "opSkip" \/ job[w].end.retain THEN "opDone"
             ELSE "abortFinalize")
    /\ UNCHANGED <<row, lease, attempt, op, handover, seen, runtime, cleaner,
                   faults>>

\* MultiOperationState.complete: wait for the next Operation
CompleteOperation(w) ==
    /\ job[w].pc = "opDone" /\ HoldsRun(w) /\ op = "RUNNING"
    /\ job[w].end.status = "SUCCEEDED" =>
         \A s \in Seqs : steps[s] = "SUCCEEDED"
    /\ row' = [row EXCEPT !.status = "WAITING_FOR_OPERATION",
                          !.finReq = FALSE]
    /\ op' = job[w].end.status
    /\ lease' = Released(lease)
    /\ attempt' = [attempt EXCEPT !.status = "WAITING", !.owner = NoWorker]
    /\ seen' = {}
    /\ JobEnds(w)
    /\ UNCHANGED <<steps, handover, runtime, cleaner, faults>>

----------------------------------------------------------------------------
(* The runner: the abort of a Step that hit a limit. *)

AbortBegin(w) ==
    /\ job[w].pc = "abortBegin" /\ HoldsRun(w)
    /\ row' = [row EXCEPT !.abort = "PENDING", !.cleanup = "PENDING"]
    /\ seen' = {}
    /\ Go(w, "aborting")
    /\ UNCHANGED <<lease, attempt, op, steps, handover, runtime, cleaner,
                   faults>>

\* Idle again: the session is kept for a retry or a correction Operation
AbortIdle(w) ==
    /\ job[w].pc = "aborting" /\ job[w].session \in kernels
    /\ GoEnding(w, "abortRecord",
                [Retaining EXCEPT !.abort = "IDLE_CONFIRMED"])
    /\ UNCHANGED <<db, runtime, cleaner, faults>>

AbortMissing(w) ==
    /\ job[w].pc = "aborting" /\ job[w].session \notin kernels
    /\ GoEnding(w, "abortRecord",
                [Failing(RestartStrategy) EXCEPT !.abort = "SESSION_MISSING",
                                              !.cleanup = "SUCCEEDED"])
    /\ UNCHANGED <<db, runtime, cleaner, faults>>

AbortDeletes(w) ==
    /\ job[w].pc = "aborting"
    /\ kernels' = kernels \ {job[w].session}
    /\ GoEnding(w, "abortRecord",
                [Failing(RestartStrategy) EXCEPT !.abort = "SESSION_DELETED",
                                              !.cleanup = "SUCCEEDED"])
    /\ UNCHANGED <<db, started, done, cleaner, faults>>

AbortFails(w) ==
    /\ job[w].pc = "aborting"
    /\ Fault
    /\ GoEnding(w, "abortRecord",
                [Failing(RestartStrategy) EXCEPT !.abort = "FAILED",
                                              !.cleanup = "FAILED"])
    /\ UNCHANGED <<db, runtime, cleaner>>

AbortRecord(w) ==
    /\ job[w].pc = "abortRecord" /\ HoldsRun(w)
    /\ row' = [row EXCEPT !.abort = job[w].end.abort,
                          !.cleanup = job[w].end.cleanup]
    /\ seen' = {}
    /\ Go(w, "abortMark")
    /\ UNCHANGED <<lease, attempt, op, steps, handover, runtime, cleaner,
                   faults>>

AbortMark(w) ==
    /\ job[w].pc = "abortMark" /\ HoldsRun(w)
    /\ steps' = [steps EXCEPT ![job[w].seq] = "FAILED"]
    /\ IF Mode = "SINGLE" THEN Go(w, "finalize") ELSE Go(w, "abortSkip")
    /\ UNCHANGED <<row, lease, attempt, op, handover, seen, runtime, cleaner,
                   faults>>

----------------------------------------------------------------------------
(* The runner: how it ends. *)

\* complete_session: assert the lease, then delete the session
AssertLease(w) ==
    /\ job[w].pc = "complete" /\ HoldsRun(w)
    /\ Go(w, "release")
    /\ UNCHANGED <<db, runtime, cleaner, faults>>

ReleaseSession(w) ==
    /\ job[w].pc = "release"
    /\ kernels' = kernels \ {job[w].session}
    /\ GoEnding(w, "finalizeOk",
                [NoEnding EXCEPT !.status = "SUCCEEDED",
                                 !.cleanup = "SUCCEEDED"])
    /\ UNCHANGED <<db, started, done, cleaner, faults>>

\* Any other exception of the try block: driver, storage, completion check
RunBreaks(w) ==
    /\ job[w].pc \in {"prepare", "takeover", "next", "publish", "release",
                      "finalizeOk", "opDone"}
    /\ Fault
    /\ \E strategy \in FailureStrategies, session \in LocalSessions(w) :
         /\ job[w].pc \notin {"prepare", "next"} => strategy = "NOT_RETRYABLE"
         /\ job' = [job EXCEPT ![w].pc = "stop", ![w].session = session,
                               ![w].end = Failing(strategy)]
    /\ UNCHANGED <<db, runtime, cleaner>>

\* stop_session: only a Worker that still owns the Execution may stop it
StopSession(w) ==
    /\ job[w].pc = "stop"
    /\ Go(w, IF job[w].session # NoSession /\ HoldsRun(w) THEN "stopping"
             ELSE "finalize")
    /\ UNCHANGED <<db, runtime, cleaner, faults>>

StopSucceeds(w) ==
    /\ job[w].pc = "stopping"
    /\ kernels' = kernels \ {job[w].session}
    /\ GoEnding(w, "finalize", [job[w].end EXCEPT !.cleanup = "SUCCEEDED"])
    /\ UNCHANGED <<db, started, done, cleaner, faults>>

StopFails(w) ==
    /\ job[w].pc = "stopping"
    /\ Fault
    /\ GoEnding(w, "finalize", [job[w].end EXCEPT !.cleanup = "FAILED"])
    /\ UNCHANGED <<db, runtime, cleaner>>

FinalCleanup(w) ==
    IF row.abort = "PENDING" /\ job[w].end.cleanup = "NOT_REQUIRED"
    THEN "FAILED" ELSE job[w].end.cleanup

CompletedResults ==
    /\ op \in {"RUNNING", "SUCCEEDED"}
    /\ row.finReq => op = "SUCCEEDED"
    /\ \A s \in Seqs : steps[s] = "SUCCEEDED"

Finalize(w) ==
    /\ job[w].pc \in {"finalize", "finalizeOk", "abortFinalize"}
    /\ HoldsRun(w)
    /\ job[w].end.status = "SUCCEEDED" => CompletedResults
    /\ LET end == job[w].end
           cleanup == FinalCleanup(w)
       IN  /\ row' = [row EXCEPT
                !.status = end.status,
                !.strategy = end.strategy,
                !.from = CASE end.strategy = "FROM_FAILED_STEP" -> job[w].seq
                           [] end.strategy = "FROM_START" -> 1
                           [] OTHER -> 0,
                !.retained = IF end.retain THEN "OPEN" ELSE "NONE",
                !.cleanup = cleanup,
                !.abort = ResolvedAbort(@, cleanup),
                !.session = IF end.retain THEN @ ELSE SessionAfter(@, cleanup)]
           /\ attempt' = EndedAttempt(attempt, end.status)
           /\ op' = EndedOperation(op, end.status)
           /\ steps' = IF end.status = "FAILED" THEN EndedSteps(steps, "FAILED")
                       ELSE steps
    /\ lease' = Released(lease)
    /\ seen' = {}
    /\ JobEnds(w)
    /\ UNCHANGED <<handover, runtime, cleaner, faults>>

\* Every write above is fenced: a Worker that lost its lease discards its run
FencedPc ==
    {"defer", "takeover", "record", "next", "stored", "toolFail", "stepFail",
     "opSkip", "opDone", "abortBegin", "abortRecord", "abortMark", "abortSkip",
     "abortFinalize", "complete", "finalizeOk", "finalize", "relHandover"}

LoseLease(w) ==
    /\ \/ job[w].pc \in FencedPc /\ ~HoldsRun(w)
       \/ job[w].pc = "relCancel" /\ ~Holds(w, {"CANCEL_REQUESTED"})
       \/ job[w].pc = "cancelFinalize" /\ ~HoldsCancellation(w)
       \/ /\ job[w].pc = "cancelStop" /\ job[w].session # NoSession
          /\ ~HoldsCancellation(w)
    /\ JobEnds(w)
    /\ UNCHANGED <<db, runtime, cleaner, faults>>

----------------------------------------------------------------------------
(* Interruption of a job: its Worker cancels the task (asyncio).           *)

\* run_in_flight decides, in hand_off_cancelled, whether a Step is released
Interrupted(w, shut) ==
    \E session \in LocalSessions(w) :
        job' = [job EXCEPT ![w] =
                  IF @.pc \in CatchesInterrupt
                  THEN [@ EXCEPT
                          !.pc = IF @ \in InFlightPc THEN "interruptedRun"
                                 ELSE "interrupted",
                          !.session = session,
                          !.shut = @ \/ shut,
                          !.end = NoEnding]
                  ELSE IF shut \/ @.shut THEN Dead ELSE Idle]

\* An interruption of start_session may leave a kernel nobody recorded
MaybeStartedKernel(w) ==
    \/ UNCHANGED <<kernels, started>>
    \/ /\ job[w].pc = "prepare" /\ job[w].session = NoSession
       /\ started' = started + 1
       /\ kernels' = kernels \cup {started'}

\* The cancellation is dispatched in place of the local run: by admission if
\* both leases are free or its own, by the maximum-runtime audit regardless
DispatchCancellation(w) ==
    /\ row.status = "CANCEL_REQUESTED"
    /\ \/ row.reason = "MAX_RUNTIME"
       \/ /\ LeaseLive => lease.owner = w
          /\ CancelLeaseLive => lease.cowner = w
    /\ job[w].pc \in RunPc \ InterruptedPc
    /\ Interrupted(w, FALSE)
    /\ MaybeStartedKernel(w)
    /\ UNCHANGED <<db, done, cleaner, faults>>

Alive == {w \in Workers : job[w].pc # "dead" /\ ~job[w].shut}

\* The drain deadline of a stopping Worker passed: cancel_all
Shutdown(w) ==
    /\ w \in Alive /\ Alive # {w}
    /\ job[w].pc \notin InterruptedPc
    /\ Fault
    /\ Interrupted(w, TRUE)
    /\ MaybeStartedKernel(w)
    /\ UNCHANGED <<db, done, cleaner>>

\* hand_off_cancelled reads the status without a lock
HandOffCancelled(w) ==
    /\ job[w].pc \in {"interrupted", "interruptedRun"}
    /\ IF row.status \in {"CANCEL_REQUESTED", "CANCELLED"}
       THEN Go(w, "relCancel")
       ELSE IF job[w].shut /\ job[w].pc = "interruptedRun"
       THEN Go(w, "relHandover")
       ELSE GoEnding(w, "stop", Failing(RestartStrategy))
    /\ UNCHANGED <<db, runtime, cleaner, faults>>

ReleaseForCancellation(w) ==
    /\ job[w].pc = "relCancel" /\ Holds(w, {"CANCEL_REQUESTED"})
    /\ lease' = Released(lease)
    /\ attempt' = [attempt EXCEPT !.owner = NoWorker]
    /\ JobEnds(w)
    /\ UNCHANGED <<row, op, steps, handover, seen, runtime, cleaner, faults>>

Transferable ==
    /\ RunningSteps # {}
    /\ row.session # NoSession
    /\ row.abort # "PENDING"

\* begin_handover: clear the lease, raise the fence, leave a handover row
BeginHandover ==
    /\ lease' = [Released(lease) EXCEPT !.fence = @ + 1]
    /\ attempt' = [attempt EXCEPT !.owner = NoWorker]
    /\ handover' = TRUE
    /\ seen' = {}

ReleaseForHandover(w) ==
    /\ job[w].pc = "relHandover" /\ HoldsRun(w)
    /\ \/ /\ Transferable
          /\ BeginHandover
          /\ JobEnds(w)
       \/ /\ ~Transferable
          /\ GoEnding(w, "stop", Failing(RestartStrategy))
          /\ UNCHANGED <<lease, attempt, handover, seen>>
    /\ UNCHANGED <<row, op, steps, runtime, cleaner, faults>>

Crash(w) ==
    /\ w \in Alive /\ Alive # {w}
    /\ Fault
    /\ job' = [job EXCEPT ![w] = Dead]
    /\ MaybeStartedKernel(w)
    /\ UNCHANGED <<db, done, cleaner>>

----------------------------------------------------------------------------
(* The cancellation job. *)

CancelStop(w) ==
    /\ job[w].pc = "cancelStop"
    /\ IF job[w].session = NoSession
       THEN /\ GoEnding(w, "cancelFinalize", NoEnding)
            /\ UNCHANGED kernels
       ELSE /\ HoldsCancellation(w)
            /\ kernels' = kernels \ {job[w].session}
            /\ GoEnding(w, "cancelFinalize",
                        [NoEnding EXCEPT !.cleanup = "SUCCEEDED"])
    /\ UNCHANGED <<db, started, done, cleaner, faults>>

\* The target is missing, or the driver failed
CancelStopFails(w) ==
    /\ job[w].pc = "cancelStop" /\ job[w].session # NoSession
    /\ Fault
    /\ GoEnding(w, "cancelFinalize", [NoEnding EXCEPT !.cleanup = "FAILED"])
    /\ UNCHANGED <<db, runtime, cleaner>>

\* The maximum-runtime audit reuses the path; that ending is a failure
CancelFinalize(w) ==
    /\ job[w].pc = "cancelFinalize" /\ HoldsCancellation(w)
    /\ LET timedOut == row.finBy = "MAX_RUNTIME"
           ending == IF timedOut THEN "FAILED" ELSE "CANCELLED"
           cleanup == job[w].end.cleanup
       IN  /\ row' = [row EXCEPT
                !.status = ending, !.strategy = "NOT_RETRYABLE", !.from = 0,
                !.retained = "NONE", !.cleanup = cleanup,
                !.abort = ResolvedAbort(@, cleanup),
                !.session = SessionAfter(@, cleanup)]
           /\ attempt' = EndedAttempt(attempt, ending)
           /\ steps' = EndedSteps(steps, ending)
           /\ op' = EndedOperation(op, ending)
    /\ lease' = [Released(lease) EXCEPT !.cowner = NoWorker, !.clive = FALSE]
    /\ seen' = {}
    /\ JobEnds(w)
    /\ UNCHANGED <<handover, runtime, cleaner, faults>>


----------------------------------------------------------------------------
(* Background passes.  A pass acts on a RuntimeObservation, a copy of the  *)
(* row it may only act on while the copy is current.                       *)

CleanerPc == {"idle", "audit", "lost", "validate", "delete", "record"}

Observation ==
    [pc : CleanerPc, session : Nat, status : ExecutionStatus, fence : Nat,
     out : CleanupStatus]

NoObservation ==
    [pc |-> "idle", session |-> NoSession, status |-> "QUEUED", fence |-> 0,
     out |-> "NOT_REQUIRED"]

\* RuntimeObservation.capture, of the row as this transaction leaves it
Capture(c, pc) ==
    cleaner' = [cleaner EXCEPT ![c] =
                  [pc |-> pc, session |-> row'.session,
                   status |-> row'.status, fence |-> lease'.fence,
                   out |-> "NOT_REQUIRED"]]

PassEnds(c) == cleaner' = [cleaner EXCEPT ![c] = NoObservation]

\* RuntimeObservation.current
Current(c) ==
    /\ c \in seen
    /\ row.status = cleaner[c].status
    /\ lease.fence = cleaner[c].fence
    /\ row.session = cleaner[c].session

\* Mutant: only runs that recorded a session are recovered
ExpiredWithSession ==
    /\ row.status = "RUNNING" /\ ~LeaseLive /\ ~handover
    /\ row.session # NoSession

Expired == row.status = "RUNNING" /\ ~LeaseLive /\ ~handover

\* Mutant: the abandoned session is not put on the cleanup list
CleanupNotListed == "NOT_REQUIRED"

CleanupOfAbandoned ==
    IF row.session # NoSession THEN "PENDING" ELSE "NOT_REQUIRED"

\* An expired lease whose Step still runs on its kernel is handed over
HandOverExpired ==
    /\ Expired /\ Transferable /\ attempt.status = "RUNNING"
    /\ BeginHandover
    /\ UNCHANGED <<row, op, steps, runtime, job, cleaner, faults>>

\* fence_expired_leases: fail the run and clean its abandoned session
FailExpired(c) ==
    /\ cleaner[c].pc = "idle"
    /\ Expired /\ ~(Transferable /\ attempt.status = "RUNNING")
    /\ row' = [row EXCEPT
                 !.status = "FAILED", !.strategy = RestartStrategy,
                 !.from = IF Mode = "SINGLE" THEN 1 ELSE 0,
                 !.retained = "NONE", !.cleanup = CleanupOfAbandoned]
    /\ lease' = [Released(lease) EXCEPT !.fence = @ + 1]
    /\ attempt' = IF attempt.status = "RUNNING"
                  THEN EndedAttempt(attempt, "FAILED") ELSE attempt
    /\ op' = EndedOperation(op, "FAILED")
    /\ steps' = EndedSteps(steps, "FAILED")
    /\ IF row.session # NoSession
       THEN seen' = {c} /\ Capture(c, "validate")
       ELSE seen' = {} /\ UNCHANGED cleaner
    /\ UNCHANGED <<handover, runtime, job, faults>>

RetentionOver ==
    /\ row.status \in {"FAILED", "QUEUED"}
    /\ row.strategy = "FROM_FAILED_STEP" /\ row.retained = "PASSED"
    /\ row.session # NoSession

\* The reservation is committed before the kernel is deleted
CleanupExpired(c) ==
    /\ cleaner[c].pc = "idle" /\ RetentionOver
    /\ row' = [row EXCEPT !.status = "FAILED", !.strategy = "NOT_RETRYABLE",
                          !.from = 0, !.retained = "NONE",
                          !.cleanup = "PENDING"]
    /\ op' = IF row.status = "QUEUED" THEN EndedOperation(op, "FAILED") ELSE op
    /\ steps' = [s \in Seqs |->
                   IF row.status = "QUEUED" /\ steps[s] = "PENDING"
                   THEN "SKIPPED" ELSE steps[s]]
    /\ seen' = {c}
    /\ UNCHANGED lease
    /\ Capture(c, "validate")
    /\ UNCHANGED <<attempt, handover, runtime, job, faults>>

\* Mutant: every session an ended Execution still has is cleaned up
AnySessionUnresolved ==
    row.status \in {"FAILED", "CANCELLED"} /\ row.session # NoSession

\* Mutant: cancelled Executions are not looked at
FailedSessionUnresolved ==
    /\ row.status = "FAILED"
    /\ row.session # NoSession /\ row.cleanup \in UnresolvedCleanup

SessionUnresolved ==
    /\ row.status \in {"FAILED", "CANCELLED"}
    /\ row.session # NoSession /\ row.cleanup \in UnresolvedCleanup

RetryUnresolved(c) ==
    /\ cleaner[c].pc = "idle" /\ SessionUnresolved
    /\ row' = [row EXCEPT !.cleanup = "PENDING"]
    /\ seen' = {c}
    /\ UNCHANGED lease
    /\ Capture(c, "validate")
    /\ UNCHANGED <<attempt, op, steps, handover, runtime, job, faults>>

\* RuntimeSessionRecovery.cleanup: validate, delete, then record the result
ValidateObservation(c) ==
    /\ cleaner[c].pc = "validate"
    /\ IF Current(c) /\ row.status \in {"FAILED", "CANCELLED"}
       THEN cleaner' = [cleaner EXCEPT ![c].pc = "delete"]
       ELSE PassEnds(c)
    /\ UNCHANGED <<db, runtime, job, faults>>

DeleteObserved(c) ==
    /\ cleaner[c].pc = "delete"
    /\ kernels' = kernels \ {cleaner[c].session}
    /\ cleaner' = [cleaner EXCEPT ![c].pc = "record", ![c].out = "SUCCEEDED"]
    /\ UNCHANGED <<db, started, done, job, faults>>

DeleteObservedFails(c) ==
    /\ cleaner[c].pc = "delete"
    /\ Fault
    /\ cleaner' = [cleaner EXCEPT ![c].pc = "record", ![c].out = "FAILED"]
    /\ UNCHANGED <<db, runtime, job>>

RecordResult(c) ==
    /\ cleaner[c].pc = "record"
    /\ IF Current(c) /\ row.status \in {"FAILED", "CANCELLED"}
       THEN /\ row' = [row EXCEPT
                 !.session = SessionAfter(@, cleaner[c].out),
                 !.cleanup = cleaner[c].out,
                 !.abort = ResolvedAbort(@, cleaner[c].out)]
            /\ seen' = {}
       ELSE UNCHANGED <<row, seen>>
    /\ PassEnds(c)
    /\ UNCHANGED <<lease, attempt, op, steps, handover, runtime, job, faults>>

\* The process of the pass dies, or its database round trip fails
PassBreaks(c) ==
    /\ cleaner[c].pc # "idle"
    /\ Fault
    /\ PassEnds(c)
    /\ UNCHANGED <<db, runtime, job>>

\* No Worker claimed the Execution within the queue timeout
FailQueueTimeout ==
    /\ row.status = "QUEUED" /\ ~row.claimed
    /\ row' = [row EXCEPT !.status = "FAILED", !.strategy = "NOT_RETRYABLE",
                          !.from = 0]
    /\ op' = EndedOperation(op, "FAILED")
    /\ steps' = [s \in Seqs |->
                   IF steps[s] = "PENDING" THEN "SKIPPED" ELSE steps[s]]
    /\ seen' = {}
    /\ UNCHANGED <<lease, attempt, handover, runtime, job, cleaner, faults>>

\* Mutant: the maximum runtime ends only what is running
RunsPastMaximum == row.status = "RUNNING" /\ row.claimed

PastMaximum ==
    row.status \in {"QUEUED", "RUNNING", "FINALIZING"} /\ row.claimed

\* The maximum runtime passed: stop through the cancellation path
RequestExpiredCancellation ==
    /\ PastMaximum
    /\ row' = [row EXCEPT !.status = "CANCEL_REQUESTED",
                          !.finBy = "MAX_RUNTIME", !.reason = "MAX_RUNTIME"]
    /\ seen' = {}
    /\ UNCHANGED <<lease, attempt, op, steps, handover, runtime, job, cleaner,
                   faults>>

AuditCapture(c) ==
    /\ cleaner[c].pc = "idle"
    /\ Mode = "MULTI" /\ row.status = "WAITING_FOR_OPERATION"
    /\ seen' = seen \cup {c}
    /\ UNCHANGED <<row, lease, attempt, op, steps, handover, runtime, job,
                   faults>>
    /\ Capture(c, "audit")

CurrentWaiting(c) == Current(c) /\ row.status = "WAITING_FOR_OPERATION"

\* _fail_locked_waiting_execution
FailWaiting(c, by, lost) ==
    /\ row' = [row EXCEPT
                 !.status = "FAILED", !.strategy = "NOT_RETRYABLE",
                 !.from = 0, !.retained = "NONE", !.finBy = by,
                 !.cleanup = IF lost \/ row.session = NoSession THEN "NOT_REQUIRED"
                             ELSE "PENDING",
                 !.session = IF lost THEN NoSession ELSE @]
    /\ lease' = Released(lease)
    /\ attempt' = IF attempt.status = "WAITING"
                  THEN EndedAttempt(attempt, "FAILED") ELSE attempt
    /\ IF row'.cleanup = "PENDING"
       THEN seen' = {c} /\ Capture(c, "validate")
       ELSE seen' = {} /\ PassEnds(c)
    /\ UNCHANGED <<op, steps, handover, runtime, job, faults>>

\* A deadline passed: finalize a succeeded Operation, else fail
AuditEnd(c, by) ==
    /\ cleaner[c].pc = "audit" /\ CurrentWaiting(c)
    /\ \/ /\ op = "SUCCEEDED"
          /\ row' = [row EXCEPT !.status = "FINALIZING", !.finReq = TRUE,
                                !.finBy = by]
          /\ seen' = {}
          /\ PassEnds(c)
          /\ UNCHANGED <<lease, attempt, op, steps, handover, runtime, job,
                         faults>>
       \/ op # "SUCCEEDED" /\ FailWaiting(c, by, FALSE)

\* The assigned target is missing or disabled
AuditTargetGone(c) ==
    /\ cleaner[c].pc = "audit" /\ CurrentWaiting(c)
    /\ FailWaiting(c, "NONE", FALSE)

\* session_exists on the observed session
AuditProbe(c) ==
    /\ cleaner[c].pc = "audit"
    /\ IF cleaner[c].session \in kernels THEN PassEnds(c)
       ELSE cleaner' = [cleaner EXCEPT ![c].pc = "lost"]
    /\ UNCHANGED <<db, runtime, job, faults>>

AuditLost(c) ==
    /\ cleaner[c].pc = "lost"
    /\ \/ CurrentWaiting(c) /\ FailWaiting(c, "NONE", TRUE)
       \/ /\ ~CurrentWaiting(c)
          /\ PassEnds(c)
          /\ UNCHANGED <<db, runtime, job, faults>>

----------------------------------------------------------------------------
(* The passing of time, and kernels that die. *)

\* The heartbeat of this lease still renews it
Renewed ==
    /\ row.status = "RUNNING"
    /\ lease.owner # NoWorker
    /\ job[lease.owner].pc \in RunPc
    /\ job[lease.owner].fence = lease.fence

CancellationRenewed ==
    /\ row.status = "CANCEL_REQUESTED"
    /\ lease.cowner # NoWorker
    /\ job[lease.cowner].pc \in CancelPc
    /\ job[lease.cowner].fence = lease.fence

LeaseExpires ==
    /\ LeaseLive /\ ~Renewed
    /\ lease' = [lease EXCEPT !.live = FALSE]
    /\ UNCHANGED <<row, attempt, op, steps, handover, seen, runtime, job,
                   cleaner, faults>>

CancellationLeaseExpires ==
    /\ CancelLeaseLive /\ ~CancellationRenewed
    /\ lease' = [lease EXCEPT !.clive = FALSE]
    /\ UNCHANGED <<row, attempt, op, steps, handover, seen, runtime, job,
                   cleaner, faults>>

\* A Worker stalls, or loses its database, for longer than its lease
LeaseStalls ==
    /\ LeaseLive /\ Renewed
    /\ Fault
    /\ lease' = [lease EXCEPT !.live = FALSE]
    /\ UNCHANGED <<row, attempt, op, steps, handover, seen, runtime, job,
                   cleaner>>

CancellationLeaseStalls ==
    /\ CancelLeaseLive /\ CancellationRenewed
    /\ Fault
    /\ lease' = [lease EXCEPT !.clive = FALSE]
    /\ UNCHANGED <<row, attempt, op, steps, handover, seen, runtime, job,
                   cleaner>>

KernelDies(k) ==
    /\ k \in kernels
    /\ Fault
    /\ kernels' = kernels \ {k}
    /\ UNCHANGED <<db, started, done, job, cleaner>>

\* The kernel manager replaces a dead process: same id, empty memory.  Only
\* a Step whose code is running at that moment is told (KernelDies)
KernelRestarts(k) ==
    /\ AutoRestart /\ k \in kernels
    /\ Fault
    /\ done' = {d \in done : d[1] # k} \cup {<<k, 0, 0>>}
    /\ UNCHANGED <<db, kernels, started, job, cleaner>>

RetentionPasses ==
    /\ row.retained = "OPEN"
    /\ row' = [row EXCEPT !.retained = "PASSED"]
    /\ UNCHANGED <<lease, attempt, op, steps, handover, seen, runtime, job,
                   cleaner, faults>>

----------------------------------------------------------------------------
(* The specification. *)

Init ==
    /\ \E mode \in OperationMode : row = Submitted(mode)
    /\ lease = NoLease /\ attempt = NoAttempt
    /\ op = "QUEUED" /\ steps = [s \in Seqs |-> "PENDING"]
    /\ handover = FALSE /\ seen = {}
    /\ kernels = {} /\ started = 0 /\ done = {}
    /\ job = [w \in Workers |-> Idle]
    /\ cleaner = [c \in Cleaners |-> NoObservation]
    /\ faults = 0

Command ==
    RequestCancel \/ RequestRetry \/ RequestOperation \/ RequestFinalization

Claim(w) ==
    \/ ClaimWaiting(w) \/ ClaimNew(w) \/ ClaimHandover(w)
    \/ ClaimCancellation(w)

\* What a Worker's job does next of its own accord
JobStep(w) ==
    \/ Preflight(w) \/ DeferRetainedRetry(w) \/ StartSession(w)
    \/ KeepSession(w) \/ RecordRuntimeSession(w) \/ LoadRun(w)
    \/ MarkStarted(w) \/ ExecuteSucceeds(w) \/ ExecuteToolError(w)
    \/ ExecuteHitsLimit(w) \/ ExecuteLosesSession(w) \/ MarkSucceeded(w)
    \/ PublishSuccess(w) \/ MarkFailed(w) \/ RecordFailureEvidence(w)
    \/ SkipStepsAfter(w) \/ CompleteOperation(w)
    \/ AbortBegin(w) \/ AbortIdle(w) \/ AbortMissing(w) \/ AbortDeletes(w)
    \/ AbortRecord(w) \/ AbortMark(w)
    \/ AssertLease(w) \/ ReleaseSession(w) \/ StopSession(w)
    \/ StopSucceeds(w) \/ Finalize(w) \/ LoseLease(w)
    \/ HandOffCancelled(w) \/ ReleaseForCancellation(w)
    \/ ReleaseForHandover(w)
    \/ CancelStop(w) \/ CancelFinalize(w)

\* What the environment makes of it; each takes from the fault budget
JobFault(w) ==
    \/ PreflightUnreachable(w) \/ ExecuteBreaks(w) \/ AbortFails(w)
    \/ RunBreaks(w) \/ StopFails(w) \/ CancelStopFails(w)
    \/ Shutdown(w) \/ Crash(w)

\* Passes that start from the row, and the rest of a pass once it started
StartPass(c) ==
    FailExpired(c) \/ CleanupExpired(c) \/ RetryUnresolved(c)

PassStep(c) ==
    \/ ValidateObservation(c) \/ DeleteObserved(c) \/ RecordResult(c)
    \/ AuditProbe(c) \/ AuditLost(c)

Audit(c) ==
    \/ AuditCapture(c)
    \/ \E by \in {"WAIT_TIMEOUT", "MAX_RUNTIME"} : AuditEnd(c, by)
    \/ AuditTargetGone(c)

PassFault(c) == DeleteObservedFails(c) \/ PassBreaks(c)

Deadlines == FailQueueTimeout \/ RequestExpiredCancellation \/ RetentionPasses

Expiry == LeaseExpires \/ CancellationLeaseExpires

Environment ==
    \/ LeaseStalls \/ CancellationLeaseStalls \/ ClaimUnavailable
    \/ \E k \in kernels : KernelDies(k) \/ KernelRestarts(k)

Next ==
    \/ Command
    \/ \E w \in Workers : Claim(w) \/ JobStep(w) \/ JobFault(w)
                            \/ DispatchCancellation(w)
    \/ \E c \in Cleaners : StartPass(c) \/ PassStep(c) \/ Audit(c)
                             \/ PassFault(c)
    \/ HandOverExpired \/ Deadlines \/ Expiry \/ Environment

Spec == Init /\ [][Next]_vars

(***************************************************************************)
(* Fairness.  A job that has a step to take takes it, every Worker polls   *)
(* for cancellations and released Steps, the passes run periodically, and  *)
(* a lease nobody renews expires.  Nothing is assumed of new runs, which   *)
(* wait for capacity, or of the caller.                                    *)
(***************************************************************************)
Progress ==
    /\ \A w \in Workers :
         /\ WF_vars(JobStep(w))
         /\ WF_vars(ClaimCancellation(w))
         /\ WF_vars(ClaimHandover(w))
    /\ \A c \in Cleaners : WF_vars(StartPass(c)) /\ WF_vars(PassStep(c))
    /\ WF_vars(HandOverExpired)
    /\ WF_vars(LeaseExpires) /\ WF_vars(CancellationLeaseExpires)

\* A deadline passes, and from then on every pass that looks at it acts
DeadlinesPass ==
    /\ WF_vars(FailQueueTimeout)
    /\ WF_vars(RequestExpiredCancellation)
    /\ WF_vars(RetentionPasses)
    /\ \A c \in Cleaners :
         WF_vars(AuditCapture(c)) /\ SF_vars(AuditEnd(c, "MAX_RUNTIME"))

ProgressSpec == Spec /\ Progress
DeadlineSpec == Spec /\ Progress /\ DeadlinesPass

TypeOK ==
    /\ row \in Row /\ lease \in Lease /\ attempt \in Attempt
    /\ op \in OperationStatus /\ steps \in [Seqs -> StepStatus]
    /\ handover \in BOOLEAN /\ seen \subseteq Cleaners
    /\ kernels \subseteq 1 .. started /\ started \in Nat
    /\ done \subseteq Nat \X Nat \X Nat
    /\ job \in [Workers -> Job]
    /\ cleaner \in [Cleaners -> Observation]
    /\ faults \in 0 .. MaxFaults


----------------------------------------------------------------------------
(* Safety. *)

\* Two jobs never carry the same fencing token, however often a Worker
\* crashed, stalled or was replaced, and none is newer than the row's: the
\* token in require_active_lease names one job, not one Worker.  While a
\* cancellation has an owner, no other job carries the row's token.
TokensUnique ==
    /\ \A w \in Workers : job[w].fence <= lease.fence
    /\ \A v, w \in Workers :
         v # w /\ job[v].fence # 0 => job[v].fence # job[w].fence
    /\ lease.cowner # NoWorker =>
         /\ row.status = "CANCEL_REQUESTED"
         /\ \A w \in Workers :
              w # lease.cowner => job[w].fence # lease.fence

\* The lease on the row and the lease on its newest Attempt always name the
\* same owner and token, so renewing or checking one speaks for the other;
\* and an Attempt runs exactly while the Execution is running or being
\* cancelled, waits exactly between two Operations.
LeaseMatchesAttempt ==
    /\ lease.owner # NoWorker =>
         /\ row.status \in {"RUNNING", "CANCEL_REQUESTED"}
         /\ attempt.status = "RUNNING"
         /\ attempt.owner = lease.owner /\ attempt.fence = lease.fence
    /\ row.status = "RUNNING" => attempt.status = "RUNNING"
    /\ attempt.status = "RUNNING" =>
         row.status \in {"RUNNING", "CANCEL_REQUESTED"}
    /\ row.status \in {"WAITING_FOR_OPERATION", "FINALIZING"} =>
         attempt.status = "WAITING"

\* An ended Execution has nothing left open on any of its rows: no lease, no
\* active Attempt, no open Operation or Step, no released Step, no pending
\* abort but one that a pending cleanup of the session will resolve; and it is
\* SUCCEEDED only when every part of it is and its session is gone.
EndedIsClosed ==
    row.status \in TerminalStatus =>
        /\ lease.owner = NoWorker /\ lease.cowner = NoWorker
        /\ attempt.status \notin ActiveAttempt
        /\ op \notin OpenOperation
        /\ \A s \in Seqs : steps[s] \notin {"PENDING", "RUNNING"}
        /\ ~handover
        /\ row.abort = "PENDING" =>
             row.session # NoSession /\ row.cleanup = "PENDING"
        /\ row.status = "SUCCEEDED" =>
             /\ attempt.status = "SUCCEEDED" /\ op = "SUCCEEDED"
             /\ \A s \in Seqs : steps[s] = "SUCCEEDED"
             /\ row.session = NoSession

Restarted(k) == <<k, 0, 0>> \in done

\* The Step's code ran to its end on the kernel, as far as it remembers
RanOn(k, operation, s) == <<k, operation, s>> \in done \/ Restarted(k)

\* A Worker that may commit its result runs a Step only on the kernel of the
\* row, on which every earlier Step ran to its end, and a MULTI Step only on
\* the kernel all earlier Operations ran on: after a retry on the retained
\* session, a takeover or a restart of the service, no Step misses its
\* predecessors' variables.  The one exception is a kernel that Jupyter
\* restarted by itself, under the same id: it lost them and no check tells.
StepHasItsContext ==
    \A w \in Workers :
        HoldsRun(w) /\ job[w].pc = "execute" =>
            /\ job[w].session = row.session
            /\ \A s \in Seqs : s < job[w].seq =>
                 RanOn(job[w].session, row.ops, s)
            /\ Mode = "MULTI" =>
                 \A d \in done : d[2] # 0 => d[1] = job[w].session

\* A session that outlives its Execution is retained on purpose or is still
\* on the list of the cleanup passes.  A SINGLE takeover breaks this.
SessionIsAccountedFor ==
    row.status \in TerminalStatus /\ row.session # NoSession =>
        \/ row.retained # "NONE"
        \/ row.cleanup \in UnresolvedCleanup

\* ... which a MULTI Execution keeps to.
MultiSessionIsAccountedFor == Mode = "MULTI" => SessionIsAccountedFor

\* The row of a MULTI Execution forgets a kernel only after that kernel is
\* gone.  (A SINGLE one also forgets what it leaked, see above.)
ForgetsOnlyGoneKernels ==
    [][Mode = "MULTI" /\ row.session # NoSession /\ row'.session # row.session
         => row.session \notin kernels']_vars

\* A pass that deletes the session it observed never takes a kernel from a
\* Worker that holds the run, whatever was retried or claimed meanwhile.
PassSparesHeldKernel ==
    [][\A c \in Cleaners :
         cleaner[c].pc = "delete" /\ kernels' # kernels /\ cleaner'[c] # cleaner[c]
           => ~ \E w \in Workers :
                  HoldsRun(w) /\ job[w].session = cleaner[c].session]_vars

\* A run ends or is taken back whatever happens to its Worker, without any
\* deadline: by its own result, a takeover, or the recovery of its lease.
RunEnds == row.status = "RUNNING" ~> row.status # "RUNNING"

\* A Step that was let go does not wait for ever for another Worker.
HandoverIsTaken == handover ~> ~handover

\* A requested cancellation always ends the Execution, also when the Worker
\* it waits for, or the Worker that took it, is gone.
CancellationEnds ==
    row.status = "CANCEL_REQUESTED" ~> row.status \in TerminalStatus

\* With its deadlines, every Execution ends for good: no status is a trap.
EveryExecutionEnds == <>[](row.status \in TerminalStatus)

\* ... a MULTI Execution gives its session back, and a SINGLE one the session
\* it kept for a retry that the caller never asks for.
SessionsAreReclaimed ==
    /\ <>[](Mode = "MULTI" => row.session = NoSession)
    /\ row.status = "FAILED" /\ row.retained # "NONE"
         ~> row.session = NoSession \/ row.status # "FAILED"

\* The detailed system is, to its caller, one sequential run of the Steps.
Contract == INSTANCE ExecutionContract WITH status <- row.status

ImplementsContract == Contract!ContractSpec

=============================================================================
