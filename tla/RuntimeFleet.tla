---------------------------- MODULE RuntimeFleet ----------------------------
(***************************************************************************)
(* The Runtime Targets: registration, drain, disablement and purge by an   *)
(* operator, health probes whose answer is applied in a later transaction, *)
(* and the claims that reserve a slot on a Target for an Execution.  Runs  *)
(* appear only by what they do to reservations, sessions and Attempts.     *)
(***************************************************************************)
EXTENDS Naturals, Sequences, FiniteSets, FiniteSetsExt

CONSTANTS
    Targets,        \* Runtime Target ids
    Names,          \* their names
    Endpoints,      \* Jupyter servers
    Pools,          \* RuntimePool
    Capacities,     \* values of max_concurrent_executions
    Executions,
    PoolOf,         \* the runtime_pool each was submitted for
    Keys,           \* idempotency keys, and so the operator's commands
    Probers,        \* processes that probe: monitors and operators' requests
    Observed,       \* last probes of a Target: sessions counted, memory
    MaxAttempts,    \* bound: Attempts of each Execution
    MaxFaults,      \* bound: servers and kernels that go, deletes that fail
    None

ASSUME CapacityAssumption == Capacities \subseteq Nat \ {0}

ASSUME ExecutionsAssumption == IsFiniteSet(Executions)

ASSUME NoneAssumption == None \notin Executions \X Nat

\* A missing count, or the number of sessions
ASSUME ObservedAssumption ==
    \A o \in Observed : o.sessions = None \/ o.sessions \in Nat

VARIABLES
    row,        \* runtime_targets, and the tombstones of the purged ones
    receipts,   \* keys with a command receipt of the global scope
    probe,      \* a probe under way, of a monitor or of the operator
    exec,       \* the execution columns that hold a slot or a session
    attempts,   \* the Attempts of each Execution
    claim,      \* what the Worker of an Execution holds in memory only: a
                \* Target read but not yet locked, a session not yet recorded
    kernels,    \* live kernels and the server each runs on
    up,         \* the servers that answer
    stray,      \* kernels whose Target was moved away from their server
    faults

vars ==
    <<row, receipts, probe, exec, attempts, claim, kernels, up, stray, faults>>

fleet == <<row, receipts, probe>>

work == <<exec, attempts, claim>>

Fault == faults < MaxFaults /\ faults' = faults + 1

----------------------------------------------------------------------------
(* Rows.                                                                    *)

Unregistered ==
    [state |-> "absent", name |-> None, endpoint |-> None, pool |-> None,
     credential |-> None, status |-> "OFFLINE", enabled |-> FALSE, max |-> 0,
     verified |-> None]

Live(t) == row[t].state = "live"

NoProbe ==
    [pc |-> "idle", target |-> None, endpoint |-> None, pool |-> None,
     credential |-> None, healthy |-> FALSE]

Fresh ==
    [status |-> "QUEUED", target |-> None, session |-> None,
     cleanup |-> "NOT_REQUIRED", retained |-> "none", gaveUp |-> FALSE]

NewAttempt(t) ==
    [target |-> t, session |-> None, cleanup |-> "NOT_REQUIRED", active |-> TRUE]

Last(x) == attempts[x][Len(attempts[x])]

On(e) == {k \in kernels : k.at = e}

\* An Attempt RUNNING or WAITING, a retained session whose time has not
\* passed, or a session whose cleanup is unresolved
Reserves(x, t) ==
    \/ \E i \in DOMAIN attempts[x] : attempts[x][i].target = t /\ attempts[x][i].active
    \/ /\ exec[x].target = t /\ exec[x].session # None
       /\ \/ exec[x].status \in {"FAILED", "QUEUED"} /\ exec[x].retained = "open"
          \/ exec[x].cleanup \in {"PENDING", "FAILED"}

Reservations(t) == {x \in Executions : Reserves(x, t)}

\* The last probe counted the sessions on the server, those of others included;
\* an old or missing count does not matter
AdmissionUsed(t, seen) ==
    IF seen[t].sessions = None THEN Cardinality(Reservations(t))
    ELSE Max({seen[t].sessions, Cardinality(Reservations(t))})

----------------------------------------------------------------------------
(* Commands of the operator; each is one transaction, and the probe that    *)
(* follows an upsert or an activation is one of the probes below.           *)

\* A key is looked up in the transaction that uses it: a repeated command
\* changes nothing, so each key stands for its first use
Unused(k) == k \notin receipts

Receipt(k) == receipts' = receipts \cup {k}

Register(k, n, e, p, m) ==
    /\ Unused(k)
    /\ ~\E t \in Targets : Live(t) /\ (row[t].name = n \/ row[t].endpoint = e)
    /\ \E t \in Targets :
         /\ row[t].state = "absent"
         /\ row' = [row EXCEPT ![t] =
              [Unregistered EXCEPT !.state = "live", !.name = n, !.endpoint = e,
                                   !.pool = p, !.credential = k, !.enabled = TRUE,
                                   !.max = m]]
         /\ Receipt(k)
    /\ UNCHANGED <<probe, work, kernels, up, stray, faults>>

\* Another endpoint or pool: nothing observed so far counts any more
Moved(r, e, p) ==
    IF <<e, p>> = <<r.endpoint, r.pool>> THEN r
    ELSE [r EXCEPT !.endpoint = e, !.pool = p, !.verified = None,
                   !.status = IF @ = "DRAINING" THEN @ ELSE "OFFLINE"]

Update(k, t, e, p, m, credential) ==
    /\ Unused(k) /\ Live(t)
    /\ ~\E u \in Targets \ {t} : Live(u) /\ row[u].endpoint = e
    /\ <<e, p>> # <<row[t].endpoint, row[t].pool>> => Reservations(t) = {}
    /\ stray' = IF e = row[t].endpoint THEN stray
                ELSE stray \cup {k2.id : k2 \in On(row[t].endpoint)}
    /\ row' = [row EXCEPT ![t] =
         [Moved(row[t], e, p) EXCEPT
            !.enabled = TRUE, !.max = m,
            !.credential = IF credential THEN k ELSE @]]
    /\ Receipt(k)
    /\ UNCHANGED <<probe, work, kernels, up, faults>>

Disable(k, t) ==
    /\ Unused(k) /\ Live(t)
    /\ row' = [row EXCEPT ![t].enabled = FALSE, ![t].status = "OFFLINE"]
    /\ Receipt(k)
    /\ UNCHANGED <<probe, work, kernels, up, stray, faults>>

SetState(k, t, desired) ==
    /\ Unused(k) /\ Live(t)
    /\ row' = [row EXCEPT ![t].enabled = TRUE,
                          ![t].status = IF desired = "ACTIVE" THEN "OFFLINE"
                                        ELSE "DRAINING"]
    /\ Receipt(k)
    /\ UNCHANGED <<probe, work, kernels, up, stray, faults>>

\* ENDED is SUCCEEDED, CANCELLED or FAILED for good: never queued again
Terminal(x) == exec[x].status \in {"FAILED", "ENDED"}

PendingExecution(x, t) ==
    /\ exec[x].target = t
    /\ \/ ~Terminal(x)
       \/ exec[x].session # None /\ exec[x].cleanup # "SUCCEEDED"

SessionWasCleaned(x, i) ==
    \E j \in i .. Len(attempts[x]) :
        /\ attempts[x][j].target = attempts[x][i].target
        /\ attempts[x][j].session = attempts[x][i].session
        /\ attempts[x][j].cleanup = "SUCCEEDED"

ExecutionWasCleaned(x, i) ==
    /\ exec[x].target = attempts[x][i].target
    /\ exec[x].session = None /\ exec[x].cleanup = "SUCCEEDED"
    /\ i = Len(attempts[x])

PendingAttempt(x, i, t) ==
    /\ attempts[x][i].target = t /\ attempts[x][i].session # None
    /\ attempts[x][i].cleanup # "SUCCEEDED"
    /\ ~SessionWasCleaned(x, i) /\ ~ExecutionWasCleaned(x, i)

\* Mutant: an expired retention counts as a cleanup
PurgeableIfUnreserved(t) ==
    ~row[t].enabled /\ row[t].status = "OFFLINE" /\ Reservations(t) = {}

Purgeable(t) ==
    /\ ~row[t].enabled /\ row[t].status = "OFFLINE"
    /\ Reservations(t) = {}
    /\ \A x \in Executions :
         /\ ~PendingExecution(x, t)
         /\ \A i \in DOMAIN attempts[x] : ~PendingAttempt(x, i, t)

Purge(t) ==
    /\ Live(t) /\ Purgeable(t)
    /\ row' = [row EXCEPT ![t].state = "purged"]
    /\ UNCHANGED <<receipts, probe, work, kernels, up, stray, faults>>

----------------------------------------------------------------------------
(* Probes.                                                                  *)

\* Identity and answer; a disabled Target is not asked.  Monitors probe each
\* Target for ever, and a registration or activation probes its own once more
ProbeRead(p, t) ==
    /\ probe[p].pc = "idle" /\ Live(t) /\ row[t].enabled
    /\ probe' = [probe EXCEPT ![p] =
         [pc |-> "read", target |-> t, endpoint |-> row[t].endpoint,
          pool |-> row[t].pool, credential |-> row[t].credential,
          healthy |-> row[t].endpoint \in up]]
    /\ UNCHANGED <<row, receipts, work, kernels, up, stray, faults>>

SameIdentity(q, r) ==
    /\ q.endpoint = r.endpoint /\ q.pool = r.pool
    /\ q.credential = r.credential

Probed(q, r) ==
    IF ~SameIdentity(q, r) \/ ~r.enabled THEN r
    ELSE [r EXCEPT !.verified = IF q.healthy THEN q.endpoint ELSE @,
                   !.status = IF @ = "DRAINING" THEN @
                              ELSE IF q.healthy THEN "ACTIVE" ELSE "OFFLINE"]

ProbeApply(p) ==
    /\ probe[p].pc = "read"
    /\ LET t == probe[p].target
       IN  row' = IF Live(t) THEN [row EXCEPT ![t] = Probed(probe[p], @)] ELSE row
    /\ probe' = [probe EXCEPT ![p] = NoProbe]
    /\ UNCHANGED <<receipts, work, kernels, up, stray, faults>>

\* The process of a monitor or of the operator's request ends
ProbeDies(p) ==
    /\ probe[p].pc # "idle"
    /\ probe' = [probe EXCEPT ![p] = NoProbe]
    /\ UNCHANGED <<row, receipts, work, kernels, up, stray, faults>>

----------------------------------------------------------------------------
(* Claims: RuntimeTargetSelector.                                           *)

Eligible(x, t) ==
    /\ Live(t) /\ row[t].pool = PoolOf[x]
    /\ row[t].enabled /\ row[t].status = "ACTIVE"

Candidates(x, ts, seen) ==
    {t \in ts : /\ Eligible(x, t) /\ row[t].verified # None
                /\ AdmissionUsed(t, seen) < row[t].max}

\* Fresh resource observations decide when there are any, and memory at its
\* limit refuses; utilization only ranks, so any of the rest may be chosen
Best(x, ts, seen) ==
    LET candidates == Candidates(x, ts, seen)
        observed == {t \in candidates : seen[t].memory # None}
    IN  IF observed # {} THEN {t \in observed : seen[t].memory = "low"}
        ELSE candidates

Idle == [pc |-> "idle", target |-> None]

\* The Execution row is locked, the Targets are read without a lock
ClaimSelect(x) ==
    /\ exec[x].status = "QUEUED" /\ exec[x].session = None
    /\ claim[x].pc = "idle" /\ Len(attempts[x]) < MaxAttempts[x]
    /\ \E t \in UNION {Best(x, Targets, seen) : seen \in [Targets -> Observed]} :
         claim' = [claim EXCEPT ![x] = [pc |-> "chosen", target |-> t]]
    /\ UNCHANGED <<fleet, exec, attempts, kernels, up, stray, faults>>

\* A new claim takes a slot of its own; a retry of the Step resumes the old one
Run(x, t) ==
    /\ exec' = [exec EXCEPT
         ![x].status = "RUNNING", ![x].target = t, ![x].cleanup = "NOT_REQUIRED",
         ![x].retained = IF exec[x].session = None THEN "none" ELSE @,
         ![x].gaveUp = @ /\ exec[x].session # None]
    /\ attempts' = [attempts EXCEPT ![x] = Append(@, NewAttempt(t))]

\* Mutant: the choice made before the lock is trusted
StillChosen(x, t, seen) == Eligible(x, t)

\* Checked again with the Target row locked
StillBest(x, t, seen) == t \in Best(x, {t}, seen)

ClaimCommit(x) ==
    /\ claim[x].pc = "chosen"
    /\ claim' = [claim EXCEPT ![x] = Idle]
    /\ \E still \in {StillBest(x, claim[x].target, seen) : seen \in [Targets -> Observed]} :
         IF still THEN Run(x, claim[x].target) ELSE UNCHANGED <<exec, attempts>>
    /\ UNCHANGED <<fleet, kernels, up, stray, faults>>

\* A retained session: its time is checked before the Target is locked
ResumeBegin(x) ==
    /\ exec[x].status = "QUEUED" /\ exec[x].session # None
    /\ exec[x].retained = "open"
    /\ claim[x].pc = "idle" /\ Len(attempts[x]) < MaxAttempts[x]
    /\ claim' = [claim EXCEPT ![x] = [pc |-> "resume", target |-> exec[x].target]]
    /\ UNCHANGED <<fleet, exec, attempts, kernels, up, stray, faults>>

\* Missing, disabled or another pool: the retry fails and its session is due
\* for cleanup; OFFLINE may pass, so the retry stays queued
ResumeCommit(x) ==
    /\ claim[x].pc = "resume"
    /\ claim' = [claim EXCEPT ![x] = Idle]
    /\ LET t == claim[x].target
           serves == /\ Live(t) /\ row[t].enabled
                     /\ row[t].pool = PoolOf[x] /\ row[t].verified # None
       IN  \/ /\ ~serves
              /\ exec' = [exec EXCEPT ![x].status = "FAILED",
                                      ![x].retained = "none",
                                      ![x].cleanup = "FAILED"]
              /\ UNCHANGED attempts
           \/ serves /\ row[t].status = "OFFLINE" /\ UNCHANGED <<exec, attempts>>
           \/ serves /\ row[t].status # "OFFLINE" /\ Run(x, t)
    /\ UNCHANGED <<fleet, kernels, up, stray, faults>>

----------------------------------------------------------------------------
(* Runs.                                                                    *)

Server(x) == row[exec[x].target].endpoint

Kernel(x) == [id |-> exec[x].session, at |-> Server(x)]

SetLast(x, a) == attempts' = [attempts EXCEPT ![x][Len(attempts[x])] = a]

NewSession(x) == <<x, Len(attempts[x])>>

NewKernel(x) == [id |-> NewSession(x), at |-> Server(x)]

\* The server has started the kernel, and only the Worker knows its id
StartSession(x) ==
    /\ exec[x].status = "RUNNING" /\ exec[x].session = None
    /\ claim[x].pc = "idle" /\ Server(x) \in up
    /\ kernels' = kernels \cup {NewKernel(x)}
    /\ claim' = [claim EXCEPT ![x].pc = "started"]
    /\ UNCHANGED <<fleet, exec, attempts, up, stray, faults>>

\* record_runtime_session, with the lease checked
RecordSession(x) ==
    /\ claim[x].pc = "started" /\ exec[x].status = "RUNNING"
    /\ exec' = [exec EXCEPT ![x].session = NewSession(x)]
    /\ SetLast(x, [Last(x) EXCEPT !.session = NewSession(x)])
    /\ claim' = [claim EXCEPT ![x] = Idle]
    /\ UNCHANGED <<fleet, kernels, up, stray, faults>>

\* A resumed run finds its kernel and records it for its own Attempt
ResumeSession(x) ==
    /\ exec[x].status = "RUNNING" /\ exec[x].session # None
    /\ Last(x).session = None /\ Kernel(x) \in kernels /\ Server(x) \in up
    /\ SetLast(x, [Last(x) EXCEPT !.session = exec[x].session])
    /\ UNCHANGED <<fleet, exec, claim, kernels, up, stray, faults>>

Ended(x, status, cleanup) ==
    /\ exec' = [exec EXCEPT ![x].status = status, ![x].cleanup = cleanup,
                            ![x].retained = "none",
                            ![x].session = IF cleanup = "SUCCEEDED" THEN None ELSE @]
    /\ IF attempts[x] # <<>> /\ Last(x).active
       THEN SetLast(x, [Last(x) EXCEPT !.active = FALSE, !.cleanup = cleanup])
       ELSE UNCHANGED attempts

\* A run or a finalization ends and the kernel is deleted; the server answers
\* 404 for a kernel it does not have, which counts as deleted
EndStopped(x, status) ==
    /\ exec[x].status = "RUNNING" /\ exec[x].session # None
    /\ Live(exec[x].target) /\ Server(x) \in up
    /\ kernels' = kernels \ {Kernel(x)}
    /\ Ended(x, status, "SUCCEEDED")
    /\ UNCHANGED <<fleet, claim, up, stray, faults>>

\* The delete fails, or the lease expired: a pass will delete the session
EndUnstopped(x, status, cleanup) ==
    /\ exec[x].status = "RUNNING" /\ exec[x].session # None /\ Fault
    /\ Ended(x, status, cleanup)
    /\ UNCHANGED <<fleet, claim, kernels, up, stray>>

\* A run whose row names no session fails, or its cancellation ends.  A Worker
\* that lives and holds the lease deletes the session it has started; one that
\* was lost, or fenced, leaves a kernel that no row names
EndWithoutSession(x) ==
    /\ exec[x].status \in {"RUNNING", "CANCEL_REQUESTED"}
    /\ exec[x].session = None
    /\ Ended(x, IF exec[x].status = "RUNNING" THEN "FAILED" ELSE "ENDED",
             "NOT_REQUIRED")
    /\ \/ UNCHANGED kernels
       \/ /\ exec[x].status = "RUNNING" /\ claim[x].pc = "started"
          /\ kernels' = kernels \ {NewKernel(x)}
    /\ claim' = [claim EXCEPT ![x] = Idle]
    /\ UNCHANGED <<fleet, up, stray, faults>>

\* request_cancel; the row of a claim under way is locked.  A queued retry has
\* no active Attempt, so its retained session does not count any more
Cancel(x) ==
    /\ exec[x].status \in {"QUEUED", "RUNNING"}
    /\ claim[x].pc \in {"idle", "started"}
    /\ exec' = [exec EXCEPT
         ![x].status = "CANCEL_REQUESTED",
         ![x].gaveUp = @ \/ (exec[x].status = "QUEUED" /\ exec[x].session # None)]
    /\ UNCHANGED <<fleet, attempts, claim, kernels, up, stray, faults>>

\* _stop_cancelled_runtime and finalize of a cancellation: whatever the delete
\* answers, the Execution ends
CancelStopped(x) ==
    /\ exec[x].status = "CANCEL_REQUESTED" /\ exec[x].session # None
    /\ Live(exec[x].target) /\ Server(x) \in up
    /\ kernels' = kernels \ {Kernel(x)}
    /\ Ended(x, "ENDED", "SUCCEEDED")
    /\ UNCHANGED <<fleet, claim, up, stray, faults>>

CancelUnstopped(x) ==
    /\ exec[x].status = "CANCEL_REQUESTED" /\ exec[x].session # None
    /\ \/ (~Live(exec[x].target) \/ Server(x) \notin up) /\ UNCHANGED faults
       \/ Fault
    /\ Ended(x, "ENDED", "FAILED")
    /\ UNCHANGED <<fleet, claim, kernels, up, stray>>

\* The code failed: the session is kept for a retry of the Step
EndRetained(x) ==
    /\ exec[x].status = "RUNNING" /\ Last(x).session # None
    /\ exec' = [exec EXCEPT ![x].status = "FAILED", ![x].retained = "open",
                            ![x].cleanup = "NOT_REQUIRED"]
    /\ SetLast(x, [Last(x) EXCEPT !.active = FALSE, !.cleanup = "NOT_REQUIRED"])
    /\ UNCHANGED <<fleet, claim, kernels, up, stray, faults>>

\* FROM_FAILED_STEP keeps the session and its Target, FROM_START neither
Retry(x) ==
    /\ exec[x].status = "FAILED"
    /\ \/ /\ exec[x].retained = "open" /\ exec[x].session # None
          /\ exec' = [exec EXCEPT ![x].status = "QUEUED"]
       \/ /\ exec[x].session = None
          /\ exec' = [exec EXCEPT ![x].status = "QUEUED", ![x].target = None,
                                  ![x].retained = "none",
                                  ![x].cleanup = "NOT_REQUIRED"]
    /\ UNCHANGED <<fleet, attempts, claim, kernels, up, stray, faults>>

RetentionEnds(x) ==
    /\ exec[x].retained = "open" /\ exec[x].status \in {"FAILED", "QUEUED"}
    /\ exec' = [exec EXCEPT ![x].retained = "lapsed", ![x].gaveUp = TRUE]
    /\ UNCHANGED <<fleet, attempts, claim, kernels, up, stray, faults>>

\* cleanup_expired: the cleanup is reserved before the delete
CleanupExpired(x) ==
    /\ exec[x].retained = "lapsed" /\ exec[x].status \in {"FAILED", "QUEUED"}
    /\ claim[x].pc = "idle"
    /\ exec' = [exec EXCEPT ![x].status = "FAILED", ![x].retained = "none",
                            ![x].cleanup = "PENDING"]
    /\ SetLast(x, [Last(x) EXCEPT !.cleanup = "PENDING"])
    /\ UNCHANGED <<fleet, claim, kernels, up, stray, faults>>

\* Delete and record_result of a cleanup pass; without its Target it fails
Cleanup(x) ==
    /\ exec[x].status \in {"FAILED", "ENDED"}
    /\ exec[x].cleanup \in {"PENDING", "FAILED"} /\ exec[x].session # None
    /\ LET done == Live(exec[x].target) /\ Server(x) \in up
           cleanup == IF done THEN "SUCCEEDED" ELSE "FAILED"
       IN  /\ kernels' = IF done THEN kernels \ {Kernel(x)} ELSE kernels
           /\ exec' = [exec EXCEPT ![x].cleanup = cleanup,
                                   ![x].session = IF done THEN None ELSE @]
           /\ SetLast(x, [Last(x) EXCEPT !.cleanup = cleanup])
    /\ UNCHANGED <<fleet, claim, up, stray, faults>>

----------------------------------------------------------------------------
ServerFlips(e) ==
    /\ Fault
    /\ up' = IF e \in up THEN up \ {e} ELSE up \cup {e}
    /\ UNCHANGED <<fleet, work, kernels, stray>>

KernelDies(k) ==
    /\ k \in kernels /\ Fault
    /\ kernels' = kernels \ {k}
    /\ UNCHANGED <<fleet, work, up, stray>>

Init ==
    /\ row = [t \in Targets |-> Unregistered]
    /\ receipts = {}
    /\ probe = [p \in Probers |-> NoProbe]
    /\ exec = [x \in Executions |-> Fresh]
    /\ attempts = [x \in Executions |-> <<>>]
    /\ claim = [x \in Executions |-> Idle]
    /\ kernels = {}
    /\ up = Endpoints
    /\ stray = {}
    /\ faults = 0

Command(k) ==
    \/ \E n \in Names, e \in Endpoints, p \in Pools, m \in Capacities :
         Register(k, n, e, p, m)
    \/ \E t \in Targets :
         \/ \E e \in Endpoints, p \in Pools, m \in Capacities, c \in BOOLEAN :
              Update(k, t, e, p, m, c)
         \/ Disable(k, t)
         \/ \E desired \in {"ACTIVE", "DRAINING"} : SetState(k, t, desired)

RunStep(x) ==
    \/ StartSession(x) \/ RecordSession(x) \/ ResumeSession(x)
    \/ EndWithoutSession(x) \/ EndRetained(x) \/ Retry(x) \/ RetentionEnds(x)
    \/ Cancel(x) \/ CancelStopped(x) \/ CancelUnstopped(x)
    \/ \E s \in {"FAILED", "ENDED"} : EndStopped(x, s)
    \/ \E s \in {"FAILED", "ENDED"}, c \in {"PENDING", "FAILED"} :
         EndUnstopped(x, s, c)

Passes(x) == CleanupExpired(x) \/ Cleanup(x)

Claim(x) ==
    ClaimSelect(x) \/ ClaimCommit(x) \/ ResumeBegin(x) \/ ResumeCommit(x)

Monitor(p) == ProbeApply(p) \/ \E t \in Targets : ProbeRead(p, t)

Next ==
    \/ \E k \in Keys : Command(k)
    \/ \E t \in Targets : Purge(t)
    \/ \E p \in Probers : Monitor(p) \/ ProbeDies(p)
    \/ \E x \in Executions : Claim(x) \/ RunStep(x) \/ Passes(x)
    \/ \E e \in Endpoints : ServerFlips(e)
    \/ \E k \in kernels : KernelDies(k)

Spec == Init /\ [][Next]_vars

----------------------------------------------------------------------------
(* Properties.                                                              *)

\* Executions that have not given up their slot.  Two ways of giving it up leave
\* a session that counts again later: its retention passes before a pass
\* reserves its cleanup, and the retry it waits for is cancelled while QUEUED
\* and the delete then fails
Holders(t) == {x \in Reservations(t) : ~exec[x].gaveUp}

\* Whoever is added to a Target fits into it, beside everything that counts
\* there: two claims that chose the same free slot from an unlocked read do not
\* both get it (target_selector.select); and an ACTIVE Target is what a probe
\* found at its present endpoint, never at the one before
\* (RuntimeTargetProber).  The capacity itself may be exceeded: a session whose
\* slot was given up (Holders) is not asked when it counts again.
SlotsAreRespected ==
    [][\A t \in Targets :
         Live(t)' /\ ~(Holders(t)' \subseteq Holders(t)) =>
             /\ Cardinality(Reservations(t)') <= row'[t].max
             /\ row[t].status = "ACTIVE" => row[t].verified = row[t].endpoint]_vars

\* Purging a Target, which deletes its credential, leaves no kernel behind that
\* one of its Attempts recorded, whatever was retried, retained, cancelled or
\* lost before.  Two kinds of kernel are outside: one that no row ever recorded
\* (the Worker was lost or fenced between start_session and
\* record_runtime_session), and one on a server that the endpoint of its Target
\* was moved away from (stray), which an upsert does not look for.
PurgedLeavesNoKernel ==
    \A x \in Executions : \A i \in DOMAIN attempts[x] :
        row[attempts[x][i].target].state = "purged" =>
            ~\E k \in kernels : k.id = attempts[x][i].session /\ k.id \notin stray

=============================================================================
