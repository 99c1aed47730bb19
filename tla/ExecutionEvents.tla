-------------------------- MODULE ExecutionEvents --------------------------
(***************************************************************************)
(* The public events of an Execution.  Every transaction that changes what *)
(* a consumer may know writes its events itself, at the place in the code  *)
(* where it makes the change, and each event is validated when it is       *)
(* built: an event nobody wrote leaves the consumer behind for good, and   *)
(* one that is not valid rolls the whole transaction back.                 *)
(*                                                                         *)
(* The module repeats the next-state relation of ExecutionLifecycle with   *)
(* the events of each action, and keeps what a consumer that applies them  *)
(* in order knows (view).  That they arrive in order is the subject of     *)
(* Outbox.                                                                 *)
(***************************************************************************)
EXTENDS ExecutionLifecycle

VARIABLES
    view,       \* what the consumer knows
    deleted     \* the Operations whose operation_started row retention took

eventVars == <<vars, view, deleted>>

View ==
    [started : BOOLEAN,                     \* execution.started was read
     announced : SUBSET (1 .. MaxOperations),
     running : SUBSET Seqs,                 \* Steps between start and end
     paused : BOOLEAN,                      \* a handover is under way
     closed : BOOLEAN,                      \* the Operation has ended
     ended : BOOLEAN,                       \* the Execution has ended
     offer : BOOLEAN,                       \* a retry was offered
     valid : BOOLEAN]                       \* every event so far was

NothingRead ==
    [started |-> FALSE, announced |-> {}, running |-> {}, paused |-> FALSE,
     closed |-> FALSE, ended |-> FALSE, offer |-> FALSE, valid |-> TRUE]

----------------------------------------------------------------------------
(* Payloads, built from the state the transaction is about to commit.      *)

\* add_operation_completed_event
OperationCompletedPayload ==
    LET of(status) == Cardinality({s \in Seqs : steps'[s] = status})
    IN  [status |-> op', execution_status |-> row'.status,
         completed |-> of("SUCCEEDED") + of("FAILED") + of("CANCELLED"),
         running |-> of("RUNNING"),
         continuation |-> row'.status = "WAITING_FOR_OPERATION",
         error |-> op' # "SUCCEEDED"]

\* OperationCompletedPayload.validate_outcome and its Literal fields
ValidOperation(p) ==
    /\ p.status \in TerminalStatus
    /\ p.execution_status \in TerminalStatus \cup {"WAITING_FOR_OPERATION"}
    /\ p.error = (p.status # "SUCCEEDED")
    /\ p.continuation => p.execution_status = "WAITING_FOR_OPERATION"
    /\ p.completed <= NumSteps

\* Mutant: a retry is offered only on a retained session
OffersRetainedOnly ==
    [status |-> row'.status,
     retry |-> row'.status = "FAILED" /\ row'.retained # "NONE",
     error |-> row'.status # "SUCCEEDED"]

\* add_execution_completed_event: the Step at retry_from_sequence exists
\* (sequences start at 0) and one of the two deadlines is set
ExecutionCompletedPayload ==
    [status |-> row'.status,
     retry |-> /\ row'.status = "FAILED" /\ row'.strategy # "NOT_RETRYABLE"
               /\ row'.from # 0
               /\ row'.retained # "NONE" \/ row'.claimed,
     error |-> row'.status # "SUCCEEDED"]

\* ExecutionCompletedPayload.validate_outcome
ValidExecution(p) ==
    /\ p.status \in TerminalStatus
    /\ p.status = "SUCCEEDED" => ~p.retry /\ ~p.error
    /\ p.status # "SUCCEEDED" => p.error
    /\ p.retry => p.status = "FAILED"

----------------------------------------------------------------------------
(* Events.  `of' names the Steps or the Operation an event is about.  What *)
(* a transaction writes for several Steps is one entry: none of these      *)
(* events depends on another, so their order is left out.                  *)

Event(type, of, valid) == [type |-> type, of |-> of, valid |-> valid]

Running(set) == \A s \in set : steps'[s] = "RUNNING"
Over(set) == \A s \in set : steps'[s] \in TerminalStatus

StepStarted(s) == Event("step_started", {s}, Running({s}))
HandoverStarted(set) == Event("handover_started", set, Running(set))
HandoverCompleted(s) == Event("handover_completed", {s}, Running({s}))
StepsCompleted(set) == Event("step_completed", set, Over(set))
OperationCompleted ==
    Event("operation_completed", {row.ops}, ValidOperation(OperationCompletedPayload))
\* ... of an Operation that had ended before
OperationRepeated == [OperationCompleted EXCEPT !.type = "operation_repeated"]
\* ... with the Step a retry would start from
ExecutionCompleted ==
    Event("completed",
          IF ExecutionCompletedPayload.retry THEN {row'.from} ELSE {},
          ValidExecution(ExecutionCompletedPayload))

----------------------------------------------------------------------------
(* The consumer, by the event contract (dev_docs/executor-events.md, 6 to  *)
(* 14): what it expects next, and what it makes of it.                     *)

Expected(v, e) ==
    CASE e.type = "completed" -> v.running = {} /\ v.closed /\ ~v.ended
      [] e.type = "operation_completed" ->
            v.running = {} /\ ~v.closed /\ ~v.ended
      [] e.type = "step_completed" ->
            e.of \subseteq v.running /\ (e.of # {} => ~v.closed)
      [] e.type = "step_started" ->
            /\ v.announced # {} /\ ~v.ended /\ ~v.closed
            /\ v.running = {}
      [] e.type = "started" -> ~v.ended
      [] e.type = "operation_started" -> v.started /\ ~v.ended /\ ~v.closed
      [] e.type = "handover_started" -> \A s \in e.of : v.running = {s}
      [] e.type = "handover_completed" -> v.running = e.of /\ v.paused
      [] e.type = "operation_repeated" -> v.running = {} /\ v.closed /\ ~v.ended

Applied(v, e) ==
    CASE e.type = "completed" ->
            [v EXCEPT !.ended = TRUE, !.offer = e.of # {}]
      [] e.type = "operation_completed" -> [v EXCEPT !.closed = TRUE]
      [] e.type = "step_completed" ->
            [v EXCEPT !.running = @ \ e.of, !.paused = @ /\ e.of = {}]
      [] e.type = "step_started" -> [v EXCEPT !.running = e.of]
      [] e.type = "started" -> [v EXCEPT !.started = TRUE]
      [] e.type = "operation_started" -> [v EXCEPT !.announced = @ \cup e.of]
      [] e.type = "handover_started" ->
            [v EXCEPT !.paused = @ \/ e.of # {}]
      [] e.type = "handover_completed" -> [v EXCEPT !.paused = FALSE]
      [] e.type = "operation_repeated" -> v

Consume(v, e) == [Applied(v, e) EXCEPT !.valid = @ /\ e.valid /\ Expected(v, e)]

\* ... an event that is not always written
ConsumeIf(condition, v, e) == IF condition THEN Consume(v, e) ELSE v

Emit(e) == view' = Consume(view, e)

----------------------------------------------------------------------------
(* What the consumer knows after a transaction that writes several events. *)

\* add_start_events: the outbox is searched for a row of the one event, the
\* event history for the other, and what is not found is written.  A row is
\* there for what was announced, unless retention has deleted it.
AfterStart(found) ==
    LET begun == ConsumeIf(~found, view, Event("started", {}, TRUE))
    IN  ConsumeIf(~row.finReq /\ row.ops \notin view.announced \ deleted, begun,
                  Event("operation_started", {row.ops}, TRUE))

\* The Steps that still ran, the Operation if it was open, the Execution
AfterEnd ==
    LET stopped == ConsumeIf(row'.status # "SUCCEEDED", view,
                             StepsCompleted(RunningSteps))
        closed == ConsumeIf(op \in OpenOperation, stopped, OperationCompleted)
    IN  Consume(closed, ExecutionCompleted)

\* Mutant: the Execution's end is announced before its Operation's
CancelledOutOfOrder ==
    LET stopped == Consume(view, StepsCompleted(RunningSteps))
    IN  Consume(Consume(stopped, ExecutionCompleted), OperationCompleted)

\* CancellationProcessor.finalize names the active Operation in any case,
\* also one whose end was already announced
AfterCancellation ==
    LET stopped == Consume(view, StepsCompleted(RunningSteps))
        closed == Consume(stopped, IF op \in OpenOperation
                                   THEN OperationCompleted
                                   ELSE OperationRepeated)
    IN  Consume(closed, ExecutionCompleted)

\* begin_handover: every Step that runs
AfterHandover == Consume(view, HandoverStarted(RunningSteps))

\* The view after a transaction that may have ended the Execution
EndedIf(condition) == view' = IF condition THEN AfterEnd ELSE view

\* A caller that adds an Operation or a retry expects a new cycle
NextCycle ==
    view' = [view EXCEPT !.closed = FALSE, !.ended = FALSE, !.offer = FALSE]

----------------------------------------------------------------------------
(* The actions and their events.                                           *)

CommandEvents ==
    /\ \/ (RequestCancel \/ RequestFinalization) /\ UNCHANGED view
       \/ RequestOperation /\ NextCycle
    /\ UNCHANGED deleted

\* _delete_execution_events may have emptied the history of an Execution
\* that had ended
RetryEvents ==
    /\ RequestRetry /\ NextCycle
    /\ deleted' \in {deleted, view.announced}

\* on_caught_up: the replay of a Step that was taken over has caught up
RecordHandoverCompleted(w) ==
    /\ job[w].pc = "execute" /\ HoldsRun(w) /\ view.paused
    /\ UNCHANGED vars
    /\ Emit(HandoverCompleted(job[w].seq))

\* The terminal line of a replay comes after that report
CaughtUp(w) == HoldsRun(w) => ~view.paused

\* _delete_published_outbox may have deleted the entry of execution.started,
\* whatever the Execution's status
StartEvents(w) ==
    /\ RecordRuntimeSession(w)
    /\ \E found \in BOOLEAN :
         (found => view.started) /\ view' = AfterStart(found)
    /\ deleted' = IF row.finReq THEN deleted ELSE deleted \ {row.ops}

RunEvents(w) ==
    /\ \/ MarkStarted(w) /\ Emit(StepStarted(job[w].seq))
       \/ RecordHandoverCompleted(w)
       \/ /\ MarkSucceeded(w) \/ MarkFailed(w) \/ AbortMark(w)
          /\ Emit(StepsCompleted({job[w].seq}))
       \/ CompleteOperation(w) /\ Emit(OperationCompleted)
       \/ Finalize(w) /\ view' = AfterEnd
       \/ CancelFinalize(w) /\ view' = AfterCancellation
       \/ /\ ReleaseForHandover(w)
          /\ view' = IF handover' THEN AfterHandover ELSE view
    /\ UNCHANGED deleted

\* What a Worker does without telling
QuietRun(w) ==
    /\ \/ Claim(w) \/ JobFault(w) \/ DispatchCancellation(w)
       \/ Preflight(w) \/ DeferRetainedRetry(w) \/ StartSession(w)
       \/ KeepSession(w) \/ LoadRun(w)
       \/ (ExecuteSucceeds(w) \/ ExecuteToolError(w)) /\ CaughtUp(w)
       \/ ExecuteHitsLimit(w) \/ ExecuteLosesSession(w)
       \/ PublishSuccess(w) \/ RecordFailureEvidence(w) \/ SkipStepsAfter(w)
       \/ AbortBegin(w) \/ AbortIdle(w) \/ AbortMissing(w) \/ AbortDeletes(w)
       \/ AbortRecord(w) \/ AssertLease(w) \/ ReleaseSession(w)
       \/ StopSession(w) \/ StopSucceeds(w) \/ LoseLease(w)
       \/ HandOffCancelled(w) \/ ReleaseForCancellation(w) \/ CancelStop(w)
    /\ UNCHANGED <<view, deleted>>

\* fence_expired_leases, the retention of a queued retry, the waiting audit
PassEvents(c) ==
    /\ \/ FailExpired(c) /\ view' = AfterEnd
       \/ CleanupExpired(c) /\ EndedIf(row.status = "QUEUED")
       \/ /\ AuditLost(c) \/ AuditTargetGone(c)
               \/ \E by \in {"WAIT_TIMEOUT", "MAX_RUNTIME"} : AuditEnd(c, by)
          /\ EndedIf(row'.status = "FAILED" /\ row.status # "FAILED")
    /\ UNCHANGED deleted

QuietPass(c) ==
    /\ \/ RetryUnresolved(c) \/ ValidateObservation(c) \/ DeleteObserved(c)
       \/ RecordResult(c) \/ AuditProbe(c) \/ AuditCapture(c) \/ PassFault(c)
    /\ UNCHANGED <<view, deleted>>

OtherEvents ==
    /\ \/ HandOverExpired /\ view' = AfterHandover
       \/ (FailQueueTimeout \/ ClaimUnavailable) /\ view' = AfterEnd
       \/ /\ \/ RequestExpiredCancellation \/ RetentionPasses \/ Expiry
             \/ LeaseStalls \/ CancellationLeaseStalls
             \/ \E k \in kernels : KernelDies(k) \/ KernelRestarts(k)
          /\ UNCHANGED view
    /\ UNCHANGED deleted

EventInit == Init /\ view = NothingRead /\ deleted = {}

EventNext ==
    \/ CommandEvents \/ RetryEvents
    \/ \E w \in Workers : StartEvents(w) \/ RunEvents(w) \/ QuietRun(w)
    \/ \E c \in Cleaners : PassEvents(c) \/ QuietPass(c)
    \/ OtherEvents

EventSpec == EventInit /\ [][EventNext]_eventVars

----------------------------------------------------------------------------
(* Properties.                                                             *)

\* Every event is built from a state its validation accepts and comes where
\* the event contract puts it, whichever of the transactions that end a Step,
\* an Operation or an Execution wrote it: a Step's end after its start, the
\* Operation's after its Steps' and once in its cycle, the Execution's after
\* both, a handover only of a Step that runs, a Step only in an Operation that
\* was announced.  Two things the contract excludes are part of what the
\* consumer must expect: a start event that comes again, since retention
\* deletes the rows by which the first is recognised, and the end of an
\* Operation that a cancellation announces once more.
EventsFollowContract == view \in View /\ view.valid

\* A consumer that applies the events knows the state: which Step runs, that
\* it is being handed over, whether the Operation and the Execution have
\* ended and, while the Execution is FAILED, of every retry it could ask for.
ConsumerKnowsState ==
    /\ view.running = RunningSteps
    /\ handover => view.paused
    /\ view.closed <=> op \notin OpenOperation
    /\ view.ended <=> row.status \in TerminalStatus
    /\ row.session # NoSession => view.started
    /\ row.status = "FAILED" /\ row.strategy # "NOT_RETRYABLE" => view.offer
=============================================================================
