-------------------------- MODULE ExecutionStore --------------------------
(***************************************************************************)
(* The PostgreSQL rows of one Execution, and the pure parts of the         *)
(* transactions over them: the status table every writer consults, what    *)
(* ends a Step or an Operation, and the record each column group is kept   *)
(* in.  A transaction of the service locks the execution row, so every     *)
(* action built from these operators is atomic.                            *)
(***************************************************************************)
EXTENDS Naturals, FiniteSets

CONSTANTS
    Workers,        \* Worker processes, each with its own lease owner identity
    Cleaners,       \* background passes that may hold a RuntimeObservation
    NoWorker,       \* a lease_owner column that is NULL
    NumSteps,       \* Steps of one Operation
    AutoRestart,    \* Jupyter restarts a dead kernel process under its id
    MaxRetries,     \* bound: explicit retries a caller asks for
    MaxOperations,  \* bound: Operations of a MULTI Execution
    MaxFaults       \* bound: crashes, shutdowns, stalls, driver and kernel faults

ASSUME AutoRestartAssumption == AutoRestart \in BOOLEAN
ASSUME WorkersAssumption == IsFiniteSet(Workers) /\ NoWorker \notin Workers
ASSUME StepsAssumption == NumSteps \in Nat \ {0}
ASSUME BoundsAssumption ==
    /\ MaxRetries \in Nat
    /\ MaxOperations \in Nat \ {0}
    /\ MaxFaults \in Nat

Seqs == 1 .. NumSteps           \* Step sequence numbers (the code's sequence + 1)

----------------------------------------------------------------------------
(* Status enumerations. *)

ExecutionStatus ==
    {"QUEUED", "RUNNING", "WAITING_FOR_OPERATION", "FINALIZING",
     "CANCEL_REQUESTED", "SUCCEEDED", "FAILED", "CANCELLED"}

OperationMode == {"SINGLE", "MULTI"}

TerminalStatus == {"SUCCEEDED", "FAILED", "CANCELLED"}

AttemptStatus ==
    {"NONE", "RUNNING", "WAITING", "SUCCEEDED", "FAILED", "CANCELLED"}

ActiveAttempt == {"RUNNING", "WAITING"}

OperationStatus == {"QUEUED", "RUNNING", "SUCCEEDED", "FAILED", "CANCELLED"}

OpenOperation == {"QUEUED", "RUNNING"}

StepStatus ==
    {"PENDING", "RUNNING", "SUCCEEDED", "FAILED", "SKIPPED", "CANCELLED"}

RetryStrategy == {"NOT_RETRYABLE", "FROM_START", "FROM_FAILED_STEP"}

CleanupStatus == {"NOT_REQUIRED", "PENDING", "SUCCEEDED", "FAILED"}

UnresolvedCleanup == {"PENDING", "FAILED"}

AbortStatus ==
    {"NOT_REQUIRED", "PENDING", "IDLE_CONFIRMED", "SESSION_DELETED",
     "SESSION_MISSING", "FAILED"}

FinalizedBy == {"NONE", "AGENT", "WAIT_TIMEOUT", "MAX_RUNTIME"}

\* cancellation_reason: written by a caller's cancel or by the runtime audit
CancelReason == {"NONE", "CALLER", "MAX_RUNTIME"}

\* retained_runtime_session_until: NULL, in the future, or already passed
Retention == {"NONE", "OPEN", "PASSED"}

EXECUTION_TRANSITIONS ==
    [s \in ExecutionStatus |->
        CASE s = "QUEUED" -> {"RUNNING", "CANCEL_REQUESTED", "FAILED"}
          [] s = "RUNNING" -> {"SUCCEEDED", "FAILED", "WAITING_FOR_OPERATION",
                               "CANCEL_REQUESTED", "QUEUED"}
          [] s = "WAITING_FOR_OPERATION" ->
                {"QUEUED", "FINALIZING", "CANCEL_REQUESTED", "FAILED"}
          [] s = "FINALIZING" -> {"RUNNING", "CANCEL_REQUESTED", "FAILED"}
          [] s = "CANCEL_REQUESTED" -> {"CANCELLED", "FAILED"}
          [] s = "FAILED" -> {"QUEUED"}
          [] OTHER -> {}]

----------------------------------------------------------------------------
(* Kernels are numbered in the order they were started; 0 is NULL. *)

NoSession == 0

(***************************************************************************)
(* The columns of the execution row, in two groups.                        *)
(***************************************************************************)
Row ==
    [mode : OperationMode,          \* operation_mode, never written again
     status : ExecutionStatus,
     session : Nat,                 \* runtime_session_id
     cleanup : CleanupStatus,       \* runtime_session_cleanup_status
     abort : AbortStatus,           \* runtime_abort_status
     strategy : RetryStrategy,
     from : 0 .. NumSteps,          \* retry_from_sequence, 0 is NULL
     retained : Retention,
     retries : 0 .. MaxRetries,
     ops : 1 .. MaxOperations,      \* operation_number of the active Operation
     claimed : BOOLEAN,             \* execution_expires_at is set
     finReq : BOOLEAN,              \* finalization_requested
     finBy : FinalizedBy,
     reason : CancelReason]

Lease ==
    [owner : Workers \cup {NoWorker},
     live : BOOLEAN,                \* lease_expires_at > now
     fence : Nat,                   \* fencing_token
     cowner : Workers \cup {NoWorker},
     clive : BOOLEAN]               \* cancellation_lease_expires_at > now

(* The newest Attempt; its own expiry is written together with the row's. *)
Attempt ==
    [no : Nat, status : AttemptStatus,
     owner : Workers \cup {NoWorker}, fence : Nat]

Submitted(mode) ==
    [mode |-> mode, status |-> "QUEUED", session |-> NoSession,
     cleanup |-> "NOT_REQUIRED", abort |-> "NOT_REQUIRED",
     strategy |-> "NOT_RETRYABLE", from |-> 0, retained |-> "NONE",
     retries |-> 0, ops |-> 1, claimed |-> FALSE,
     finReq |-> FALSE, finBy |-> "NONE", reason |-> "NONE"]

NoLease ==
    [owner |-> NoWorker, live |-> FALSE, fence |-> 0,
     cowner |-> NoWorker, clive |-> FALSE]

NoAttempt == [no |-> 0, status |-> "NONE", owner |-> NoWorker, fence |-> 0]

Released(l) == [l EXCEPT !.owner = NoWorker, !.live = FALSE]

Granted(l, w) ==
    [l EXCEPT !.owner = w, !.live = TRUE, !.fence = @ + 1]

\* Mutant: the cancellation owner inherits the token of the run it replaces
CancellationSameToken(l, w) ==
    [Released(l) EXCEPT !.cowner = w, !.clive = TRUE]

\* The cancellation lease replaces the execution lease, under a new token
CancellationGranted(l, w) ==
    [Released(l) EXCEPT !.fence = @ + 1, !.cowner = w, !.clive = TRUE]

\* Mutant: the Attempt keeps the token of its previous owner
AttemptOldToken(a, w, fence) ==
    [a EXCEPT !.status = "RUNNING", !.owner = w]

AttemptContinued(a, w, fence) ==
    [a EXCEPT !.status = "RUNNING", !.owner = w, !.fence = fence]

----------------------------------------------------------------------------
(* What a transaction that ends the Execution does to its children. *)

\* Mutant: only the Steps that ran are ended
OnlyRunningEnded(steps, ending) ==
    [s \in Seqs |-> IF steps[s] = "RUNNING" THEN ending ELSE steps[s]]

\* RUNNING Steps take the given ending, Steps that never ran are SKIPPED
EndedSteps(steps, ending) ==
    [s \in Seqs |->
        CASE steps[s] = "RUNNING" -> ending
          [] steps[s] = "PENDING" -> "SKIPPED"
          [] OTHER -> steps[s]]

EndedOperation(op, ending) == IF op \in OpenOperation THEN ending ELSE op

EndedAttempt(a, ending) ==
    IF a.status \in ActiveAttempt
    THEN [a EXCEPT !.status = ending, !.owner = NoWorker]
    ELSE a

\* A pending abort is resolved by the transaction that settles the session
ResolvedAbort(abort, cleanup) ==
    IF abort = "PENDING"
    THEN IF cleanup = "SUCCEEDED" THEN "SESSION_DELETED" ELSE "FAILED"
    ELSE abort

\* Mutant: the session is forgotten although its deletion failed
SessionForgotten(session, cleanup) == NoSession

\* The session column is cleared only by a confirmed deletion
SessionAfter(session, cleanup) ==
    IF cleanup = "SUCCEEDED" THEN NoSession ELSE session

=============================================================================
