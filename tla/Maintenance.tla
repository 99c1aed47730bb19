---------------------------- MODULE Maintenance ----------------------------
(***************************************************************************)
(* Executor-wide maintenance: the admission switch that every claim of new *)
(* work reads under a share lock, Maintenance Runs that stop what is        *)
(* active, the Workers that reconcile a Run under an expiring lease, and   *)
(* the report whether the service may be shut down.  Executions appear by  *)
(* the columns maintenance looks at and the steps that change them.        *)
(***************************************************************************)
EXTENDS Naturals, FiniteSets

CONSTANTS
    Executions,
    Workers,        \* processes, each with a reconciler
    Keys,           \* idempotency keys of drain and activate
    Runs,           \* idempotency keys of Maintenance Runs, and so the Runs
    MaxRetries,     \* bound: retries
    MaxFaults,      \* bound: crashes, stalls, failed cancels and deletes
    None

VARIABLES
    admission,  \* executor_maintenance: ACTIVE or DRAINING
    receipts,   \* keys of admission commands that were carried out
    run,        \* maintenance_runs
    target,     \* maintenance_run_targets
    rec,        \* the reconciliation each Worker is in
    exec,       \* status, session and cleanup of each Execution
    claiming,   \* Executions whose claim holds the share lock on admission
    view,       \* the counts a report has made so far
    undrained,  \* Runs since whose creation admission was ACTIVE again
    retries,
    faults

vars ==
    <<admission, receipts, run, target, rec, exec, claiming, view, undrained,
      retries, faults>>

control == <<admission, receipts, undrained>>

Fault == faults < MaxFaults /\ faults' = faults + 1

----------------------------------------------------------------------------
(* Executions.                                                              *)

Terminal(x) == exec[x].status \in {"FAILED", "ENDED"}

Active(x) == exec[x].status \in {"RUNNING", "WAITING", "FINALIZING"}

\* runtime_session_cleanup_status PENDING or FAILED
Unresolved(x) == exec[x].unresolved

Quiet(x) == ~Active(x) /\ ~Unresolved(x) /\ ~exec[x].session

Becomes(x, e) ==
    /\ x \notin claiming
    /\ exec' = [exec EXCEPT ![x] = e]
    /\ UNCHANGED <<control, run, target, rec, claiming, view, retries, faults>>

\* What is left when an Execution ends: nothing, or a session to clean up
EndedWith(x, status) ==
    {[status |-> status, session |-> FALSE, unresolved |-> FALSE]}
        \cup IF exec[x].session
             THEN {[exec[x] EXCEPT !.status = status, !.unresolved = TRUE]}
             ELSE {}

AdmissionIsActive == admission = "ACTIVE"

\* The claim's transaction where no session is owned: the share lock on
\* admission is held until it commits
ClaimBegin(x) ==
    /\ exec[x].status \in {"QUEUED", "FINALIZING"} /\ x \notin claiming
    /\ ~exec[x].session /\ AdmissionIsActive
    /\ claiming' = claiming \cup {x}
    /\ UNCHANGED <<control, run, target, rec, exec, view, retries, faults>>

\* Claimed, or left alone because no Target has room for it
ClaimCommit(x) ==
    /\ x \in claiming
    /\ claiming' = claiming \ {x}
    /\ \/ exec' = [exec EXCEPT ![x].status = "RUNNING"]
       \/ UNCHANGED exec
    /\ UNCHANGED <<control, run, target, rec, view, retries, faults>>

\* An owned session is gone on with, whatever the admission is
ClaimOwned(x) ==
    /\ exec[x].status \in {"QUEUED", "FINALIZING"} /\ exec[x].session
    /\ Becomes(x, [exec[x] EXCEPT !.status = "RUNNING"])

StartSession(x) ==
    /\ exec[x].status = "RUNNING" /\ ~exec[x].session
    /\ Becomes(x, [exec[x] EXCEPT !.session = TRUE])

\* A run ends, fails keeping its session for a retry, or waits
RunEnds(x) ==
    /\ exec[x].status = "RUNNING"
    /\ \E e \in EndedWith(x, "FAILED") \cup EndedWith(x, "ENDED") : Becomes(x, e)

RunPauses(x) ==
    /\ exec[x].status = "RUNNING" /\ exec[x].session
    /\ \E s \in {"FAILED", "WAITING"} : Becomes(x, [exec[x] EXCEPT !.status = s])

RequestOperation(x) ==
    /\ exec[x].status = "WAITING"
    /\ \E s \in {"QUEUED", "FINALIZING"} : Becomes(x, [exec[x] EXCEPT !.status = s])

Retry(x) ==
    /\ exec[x].status = "FAILED" /\ ~Unresolved(x)
    /\ x \notin claiming /\ retries < MaxRetries
    /\ retries' = retries + 1
    /\ exec' = [exec EXCEPT ![x].status = "QUEUED"]
    /\ UNCHANGED <<control, run, target, rec, claiming, view, faults>>

\* A queue, retention, waiting or maximum-runtime deadline of an Execution that
\* is not running
DeadlinePasses(x) ==
    /\ \/ exec[x].status \in {"QUEUED", "WAITING", "FINALIZING"}
       \/ exec[x].status = "FAILED" /\ exec[x].session /\ ~Unresolved(x)
    /\ \E e \in EndedWith(x, "FAILED") : Becomes(x, e)

Cancellable(x) == ~Terminal(x) /\ exec[x].status # "CANCEL_REQUESTED"

Cancelled(x) == [exec[x] EXCEPT !.status = "CANCEL_REQUESTED"]

CallerCancels(x) == Cancellable(x) /\ Becomes(x, Cancelled(x))

CancellationEnds(x) ==
    /\ exec[x].status = "CANCEL_REQUESTED"
    /\ \E e \in EndedWith(x, "ENDED") : Becomes(x, e)

Cleanup(x) ==
    /\ Terminal(x) /\ Unresolved(x)
    /\ Becomes(x, [exec[x] EXCEPT !.session = FALSE, !.unresolved = FALSE])

----------------------------------------------------------------------------
(* Admission: ExecutorMaintenanceService.                                   *)

\* Mutant: the claim reads admission without the lock
NobodyHolds == TRUE

\* FOR UPDATE waits for the share locks of the claims under way
AdmissionUnlocked == claiming = {}

\* A repeated key changes nothing, so each key stands for its first use
SetState(k, desired) ==
    /\ k \notin receipts /\ AdmissionUnlocked
    /\ admission' = desired
    /\ receipts' = receipts \cup {k}
    /\ undrained' = IF desired = "ACTIVE" THEN undrained \cup Runs ELSE undrained
    /\ view' = IF desired = "ACTIVE" THEN 0 ELSE view
    /\ UNCHANGED <<run, target, rec, exec, claiming, retries, faults>>

\* Mutant: the sessions are counted first
CountedSessionsFirst(i, x) ==
    CASE i = 1 -> exec[x].session
      [] i = 2 -> Active(x)
      [] i = 3 -> exec[x].status = "CANCEL_REQUESTED"
      [] i = 4 -> Unresolved(x)

\* What each count of a report looks at; a count is a statement of its own,
\* and the first that is not zero decides the report
Counted(i, x) ==
    CASE i = 1 -> Active(x)
      [] i = 2 -> exec[x].status = "CANCEL_REQUESTED"
      [] i = 3 -> Unresolved(x)
      [] i = 4 -> exec[x].session

\* A report on a service that drains; one that an activation overtakes says
\* nothing and is left out
ViewBegin ==
    /\ view = 0 /\ admission = "DRAINING"
    /\ view' = 1
    /\ UNCHANGED <<control, run, target, rec, exec, claiming, retries, faults>>

ViewCount ==
    /\ view \in 1 .. 4
    /\ view' = IF \E x \in Executions : Counted(view, x) THEN 0 ELSE view + 1
    /\ UNCHANGED <<control, run, target, rec, exec, claiming, retries, faults>>

SafeToShutdown == view = 5

ViewEnd ==
    /\ SafeToShutdown
    /\ view' = 0
    /\ UNCHANGED <<control, run, target, rec, exec, claiming, retries, faults>>

----------------------------------------------------------------------------
(* Maintenance Runs.                                                        *)

NoRun == [status |-> "none", owner |-> None, lease |-> "none", token |-> 0]

Runnable(r) == run[r].status \in {"REQUESTED", "RUNNING"}

Selected(x) == Active(x) \/ exec[x].status = "CANCEL_REQUESTED" \/ exec[x].session

\* Switches admission and captures the targets in one transaction
CreateRun(r) ==
    /\ run[r].status = "none" /\ AdmissionUnlocked
    /\ ~\E q \in Runs : Runnable(q)
    /\ admission' = "DRAINING"
    /\ LET selected == {x \in Executions : Selected(x)}
       IN  /\ run' = [run EXCEPT ![r].status =
                        IF selected = {} THEN "SUCCEEDED" ELSE "REQUESTED"]
           /\ target' = [target EXCEPT ![r] = [x \in Executions |->
                           IF x \in selected THEN "PENDING" ELSE "none"]]
    /\ undrained' = undrained \ {r}
    /\ UNCHANGED <<receipts, rec, exec, claiming, view, retries, faults>>

Idle == [pc |-> "idle", run |-> None, token |-> 0, todo |-> {}, at |-> None]

\* Mutant: only the owner goes on
OnlyOwnerClaims(w, r) == run[r].owner \in {None, w}

Claimable(w, r) == run[r].owner \in {None, w} \/ run[r].lease = "expired"

ClaimRun(w, r) ==
    /\ rec[w].pc = "idle" /\ Runnable(r) /\ Claimable(w, r)
    /\ LET token == IF run[r].lease = "live" THEN run[r].token ELSE run[r].token + 1
       IN  /\ run' = [run EXCEPT ![r] = [status |-> "RUNNING", owner |-> w,
                                         lease |-> "live", token |-> token]]
           /\ rec' = [rec EXCEPT ![w] = [Idle EXCEPT !.pc = "list", !.run = r,
                                                     !.token = token]]
    /\ UNCHANGED <<control, target, exec, claiming, view, retries, faults>>

PendingTargetIds(w) ==
    /\ rec[w].pc = "list"
    /\ rec' = [rec EXCEPT ![w].pc = "next", ![w].todo =
                 {x \in Executions : target[rec[w].run][x] = "PENDING"}]
    /\ UNCHANGED <<control, run, target, exec, claiming, view, retries, faults>>

Owned(w) ==
    LET r == run[rec[w].run]
    IN  r.status = "RUNNING" /\ r.owner = w /\ r.token = rec[w].token
        /\ r.lease = "live"

\* The lease is renewed before each cancellation; without it the pass ends
Renew(w) ==
    /\ rec[w].pc = "next" /\ rec[w].todo # {}
    /\ IF Owned(w)
       THEN \E x \in rec[w].todo :
              rec' = [rec EXCEPT ![w].pc = "cancel", ![w].todo = @ \ {x}, ![w].at = x]
       ELSE rec' = [rec EXCEPT ![w] = Idle]
    /\ UNCHANGED <<control, run, target, exec, claiming, view, retries, faults>>

\* The ordinary cancel command; an Execution that is terminal or already being
\* cancelled is left alone
CancelTarget(w) ==
    /\ rec[w].pc = "cancel" /\ rec[w].at \notin claiming
    /\ exec' = IF Cancellable(rec[w].at)
               THEN [exec EXCEPT ![rec[w].at] = Cancelled(rec[w].at)] ELSE exec
    /\ rec' = [rec EXCEPT ![w].pc = "mark"]
    /\ UNCHANGED <<control, run, target, claiming, view, retries, faults>>

\* The error is recorded and the target stays PENDING
CancelFails(w) ==
    /\ rec[w].pc = "cancel" /\ Fault
    /\ rec' = [rec EXCEPT ![w].pc = "next"]
    /\ UNCHANGED <<control, run, target, exec, claiming, view, retries>>

MarkStopRequested(w) ==
    /\ rec[w].pc = "mark"
    /\ target' = IF Owned(w) /\ target[rec[w].run][rec[w].at] = "PENDING"
                 THEN [target EXCEPT ![rec[w].run][rec[w].at] = "STOP_REQUESTED"]
                 ELSE target
    /\ rec' = [rec EXCEPT ![w].pc = "next"]
    /\ UNCHANGED <<control, run, exec, claiming, view, retries, faults>>

IsStopped(x) == Terminal(x) /\ ~exec[x].session /\ ~Unresolved(x)

Refreshed(r, x) ==
    CASE target[r][x] \in {"none", "STOPPED"} -> target[r][x]
      [] OTHER -> IF IsStopped(x) THEN "STOPPED"
                  ELSE IF exec[x].status = "CANCEL_REQUESTED" THEN "STOP_REQUESTED"
                  ELSE target[r][x]

RefreshAndFinalize(w) ==
    /\ rec[w].pc = "next" /\ rec[w].todo = {}
    /\ rec' = [rec EXCEPT ![w] = Idle]
    /\ LET r == rec[w].run
           after == [x \in Executions |-> Refreshed(r, x)]
           remaining == {x \in Executions : after[x] \in {"PENDING", "STOP_REQUESTED"}}
       IN  IF Owned(w)
           THEN /\ target' = [target EXCEPT ![r] = after]
                /\ run' = IF remaining # {} THEN run
                          ELSE [run EXCEPT ![r].status = "SUCCEEDED",
                                           ![r].owner = None, ![r].lease = "none"]
           ELSE UNCHANGED <<run, target>>
    /\ UNCHANGED <<control, exec, claiming, view, retries, faults>>

\* The process goes; its successor has another id and waits for the lease
WorkerDies(w) ==
    /\ Fault
    /\ \E r \in Runs : run[r].owner = w /\ run[r].lease = "live"
    /\ rec' = [rec EXCEPT ![w] = Idle]
    /\ run' = [r \in Runs |-> IF run[r].owner = w THEN [run[r] EXCEPT !.owner = "gone"]
                              ELSE run[r]]
    /\ UNCHANGED <<control, target, exec, claiming, view, retries>>

\* A lease nobody renews, or that of a Worker that stalls
LeaseExpires(r) ==
    /\ run[r].lease = "live"
    /\ \/ run[r].owner = "gone" /\ UNCHANGED faults
       \/ run[r].owner \in Workers /\ Fault
    /\ run' = [run EXCEPT ![r].lease = "expired"]
    /\ UNCHANGED <<control, target, rec, exec, claiming, view, retries>>

----------------------------------------------------------------------------
Init ==
    /\ admission = "ACTIVE"
    /\ receipts = {}
    /\ run = [r \in Runs |-> NoRun]
    /\ target = [r \in Runs |-> [x \in Executions |-> "none"]]
    /\ rec = [w \in Workers |-> Idle]
    /\ exec = [x \in Executions |->
         [status |-> "QUEUED", session |-> FALSE, unresolved |-> FALSE]]
    /\ claiming = {}
    /\ view = 0
    /\ undrained = Runs
    /\ retries = 0
    /\ faults = 0

Ends(x) ==
    RunEnds(x) \/ DeadlinePasses(x) \/ CancellationEnds(x) \/ Cleanup(x)

Works(x) ==
    \/ ClaimBegin(x) \/ ClaimCommit(x) \/ ClaimOwned(x) \/ StartSession(x) \/ RunPauses(x)
    \/ RequestOperation(x) \/ Retry(x) \/ CallerCancels(x)

Reconcile(w) ==
    \/ \E r \in Runs : ClaimRun(w, r)
    \/ PendingTargetIds(w) \/ Renew(w) \/ CancelTarget(w) \/ MarkStopRequested(w)
    \/ RefreshAndFinalize(w)

Next ==
    \/ \E x \in Executions : Works(x) \/ Ends(x)
    \/ \E k \in Keys, desired \in {"ACTIVE", "DRAINING"} : SetState(k, desired)
    \/ \E r \in Runs : CreateRun(r) \/ LeaseExpires(r)
    \/ \E w \in Workers : Reconcile(w) \/ CancelFails(w) \/ WorkerDies(w)
    \/ ViewBegin \/ ViewCount \/ ViewEnd

\* Workers poll for ever, time passes, cancellations and cleanups are repeated
\* until they succeed, a transaction ends, and who waits for a row gets it
Fairness ==
    /\ \A w \in Workers : SF_vars(Reconcile(w))
    /\ \A r \in Runs : WF_vars(run[r].owner = "gone" /\ LeaseExpires(r))
    /\ \A x \in Executions : SF_vars(Ends(x)) /\ WF_vars(ClaimCommit(x))

Spec == Init /\ [][Next]_vars /\ Fairness

----------------------------------------------------------------------------
(* Properties.                                                              *)

\* A Run that succeeded has stopped everything: unless admission was activated
\* again, no Execution is active or owns a session, although claims, retries and
\* callers went on beside it (claim's share lock, create, _refresh_and_finalize).
QuietWhenDone ==
    \A r \in Runs :
        run[r].status = "SUCCEEDED" /\ r \notin undrained =>
            \A x \in Executions : Quiet(x)

\* safe_to_shutdown of a draining service is true when it is reported, although
\* its counts are separate statements and work moves between them (_to_view).
SafeReportIsTrue ==
    SafeToShutdown => \A x \in Executions : Quiet(x)

\* Every Run is completed in the end: by another Worker when its owner died, and
\* whatever its targets were doing (reconcile_once).
RunFinishes ==
    \A r \in Runs : Runnable(r) ~> run[r].status = "SUCCEEDED"

=============================================================================
