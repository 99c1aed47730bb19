----------------------- MODULE ExecutionEvents_proofs -----------------------
(***************************************************************************)
(* Proofs about ExecutionEvents: what a consumer makes of the events of an *)
(* Execution, for any number of Workers, passes, Steps, retries,           *)
(* Operations and faults.                                                  *)
(***************************************************************************)
EXTENDS ExecutionEvents, ExecutionLifecycle_proofs, FiniteSetTheorems

----------------------------------------------------------------------------
(* The inductive invariant.                                                *)

\* Of an Execution that has a session, the consumer has read an Operation
SessionIsAnnounced ==
    row.session # NoSession => view.started /\ view.announced # {}

\* A Step runs only in an Operation whose end was not announced
RunsInOperation == RunningSteps # {} => op \in OpenOperation

ViewIsGood ==
    /\ EventsFollowContract /\ ConsumerKnowsState
    /\ SessionIsAnnounced /\ RunsInOperation

----------------------------------------------------------------------------
(* What a consumer makes of an event that it expects.                      *)

\* The start of the Execution, which may come again.
LEMMA ConsumesStarted ==
    ASSUME NEW v \in View, v.valid, ~v.ended
    PROVE  /\ Consume(v, Event("started", {}, TRUE)) \in View
           /\ Consume(v, Event("started", {}, TRUE))
                = [v EXCEPT !.started = TRUE]
<1> DEFINE e == Event("started", {}, TRUE)
<1>1. e.type = "started" /\ e.valid
  BY DEF Event
<1>2. Applied(v, e) = [v EXCEPT !.started = TRUE] /\ Expected(v, e)
  BY <1>1 DEF Applied, Expected
<1>3. Consume(v, e) = [v EXCEPT !.started = TRUE, !.valid = TRUE]
  BY <1>1, <1>2 DEF Consume, View
<1> QED
  BY <1>3 DEF View

\* The start of an Operation.
LEMMA ConsumesOperationStarted ==
    ASSUME NEW v \in View, v.valid, v.started, ~v.ended, ~v.closed,
           NEW n \in 1 .. MaxOperations
    PROVE  /\ Consume(v, Event("operation_started", {n}, TRUE)) \in View
           /\ Consume(v, Event("operation_started", {n}, TRUE))
                = [v EXCEPT !.announced = @ \cup {n}]
<1> DEFINE e == Event("operation_started", {n}, TRUE)
<1>1. e.type = "operation_started" /\ e.valid /\ e.of = {n}
  BY DEF Event
<1>2. /\ Applied(v, e) = [v EXCEPT !.announced = @ \cup {n}]
      /\ Expected(v, e)
  BY <1>1 DEF Applied, Expected
<1>3. Consume(v, e) = [v EXCEPT !.announced = @ \cup {n}, !.valid = TRUE]
  BY <1>1, <1>2 DEF Consume, View
<1> QED
  BY <1>3 DEF View

\* The start of a Step.
LEMMA ConsumesStepStarted ==
    ASSUME NEW v \in View, v.valid, ~v.ended, ~v.closed, v.running = {},
           v.announced # {}, NEW s \in Seqs, steps'[s] = "RUNNING"
    PROVE  /\ Consume(v, StepStarted(s)) \in View
           /\ Consume(v, StepStarted(s)) = [v EXCEPT !.running = {s}]
<1> DEFINE e == StepStarted(s)
<1>1. e.type = "step_started" /\ e.valid /\ e.of = {s}
  BY DEF Event, StepStarted, Running
<1>2. Applied(v, e) = [v EXCEPT !.running = {s}] /\ Expected(v, e)
  BY <1>1 DEF Applied, Expected
<1>3. Consume(v, e) = [v EXCEPT !.running = {s}, !.valid = TRUE]
  BY <1>1, <1>2 DEF Consume, View
<1>4. {s} \in SUBSET Seqs /\ v.valid = TRUE
  BY DEF View
<1> QED
  BY <1>3, <1>4 DEF View

\* The handover of the Step that runs.
LEMMA ConsumesHandoverStarted ==
    ASSUME NEW v \in View, v.valid, NEW s \in Seqs, v.running = {s},
           steps'[s] = "RUNNING"
    PROVE  /\ Consume(v, HandoverStarted({s})) \in View
           /\ Consume(v, HandoverStarted({s})) = [v EXCEPT !.paused = TRUE]
<1> DEFINE e == HandoverStarted({s})
<1>1. e.type = "handover_started" /\ e.valid /\ e.of = {s} /\ e.of # {}
  BY DEF Event, HandoverStarted, Running
<1>2. Expected(v, e)
  BY <1>1 DEF Expected
<1>3. Applied(v, e) = [v EXCEPT !.paused = TRUE]
  BY <1>1 DEF Applied, View
<1>4. Consume(v, e) = [v EXCEPT !.paused = TRUE, !.valid = TRUE]
  BY <1>1, <1>2, <1>3 DEF Consume, View
<1> QED
  BY <1>4 DEF View

\* ... and its end.
LEMMA ConsumesHandoverCompleted ==
    ASSUME NEW v \in View, v.valid, NEW s \in Seqs, v.running = {s}, v.paused,
           steps'[s] = "RUNNING"
    PROVE  /\ Consume(v, HandoverCompleted(s)) \in View
           /\ Consume(v, HandoverCompleted(s)) = [v EXCEPT !.paused = FALSE]
<1> DEFINE e == HandoverCompleted(s)
<1>1. e.type = "handover_completed" /\ e.valid /\ e.of = {s}
  BY DEF Event, HandoverCompleted, Running
<1>2. Applied(v, e) = [v EXCEPT !.paused = FALSE] /\ Expected(v, e)
  BY <1>1 DEF Applied, Expected
<1>3. Consume(v, e) = [v EXCEPT !.paused = FALSE, !.valid = TRUE]
  BY <1>1, <1>2 DEF Consume, View
<1> QED
  BY <1>3 DEF View

\* The end of Steps that run.
LEMMA ConsumesStepsCompleted ==
    ASSUME NEW v \in View, v.valid, NEW set \in SUBSET Seqs,
           set \subseteq v.running, set # {} => ~v.closed,
           \A s \in set : steps'[s] \in TerminalStatus
    PROVE  /\ Consume(v, StepsCompleted(set)) \in View
           /\ Consume(v, StepsCompleted(set))
                = [v EXCEPT !.running = @ \ set, !.paused = @ /\ set = {}]
<1> DEFINE e == StepsCompleted(set)
           w == [v EXCEPT !.running = @ \ set, !.paused = @ /\ set = {}]
<1>1. e.type = "step_completed" /\ e.valid /\ e.of = set
  BY DEF Event, StepsCompleted, Over
<1>2. Applied(v, e) = w /\ Expected(v, e)
  BY <1>1 DEF Applied, Expected
<1>3. w \in View /\ w.valid = TRUE
  BY DEF View
<1>4. Consume(v, e) = [w EXCEPT !.valid = TRUE]
  BY <1>1, <1>2, <1>3 DEF Consume, View
<1> QED
  BY <1>3, <1>4 DEF View

\* The end of an Operation that has no Step running.
LEMMA ConsumesOperationCompleted ==
    ASSUME NEW v \in View, v.valid, ~v.ended, ~v.closed, v.running = {},
           ValidOperation(OperationCompletedPayload)
    PROVE  /\ Consume(v, OperationCompleted) \in View
           /\ Consume(v, OperationCompleted) = [v EXCEPT !.closed = TRUE]
<1> DEFINE e == OperationCompleted
<1>1. e.type = "operation_completed" /\ e.valid
  BY DEF Event, OperationCompleted
<1>2. Applied(v, e) = [v EXCEPT !.closed = TRUE] /\ Expected(v, e)
  BY <1>1 DEF Applied, Expected
<1>3. Consume(v, e) = [v EXCEPT !.closed = TRUE, !.valid = TRUE]
  BY <1>1, <1>2 DEF Consume, View
<1> QED
  BY <1>3 DEF View

\* ... and once more, when the Execution is cancelled.
LEMMA ConsumesOperationRepeated ==
    ASSUME NEW v \in View, v.valid, ~v.ended, v.closed, v.running = {},
           ValidOperation(OperationCompletedPayload)
    PROVE  Consume(v, OperationRepeated) = v
<1> DEFINE e == OperationRepeated
<1>1. e.type = "operation_repeated" /\ e.valid
  BY DEF Event, OperationCompleted, OperationRepeated
<1>2. Applied(v, e) = v /\ Expected(v, e)
  BY <1>1 DEF Applied, Expected
<1>3. Consume(v, e) = [v EXCEPT !.valid = TRUE]
  BY <1>1, <1>2 DEF Consume, View
<1>4. v.valid = TRUE
  BY DEF View
<1> QED
  BY <1>3, <1>4 DEF View

\* The end of an Execution whose Operation has ended, and the retry it offers.
LEMMA ConsumesExecutionCompleted ==
    ASSUME NEW v \in View, v.valid, ~v.ended, v.closed, v.running = {},
           row'.status \in TerminalStatus
    PROVE  LET after == Consume(v, ExecutionCompleted) IN
           /\ after \in View /\ after.valid /\ after.ended
           /\ after.offer <=> ExecutionCompletedPayload.retry
           /\ after.started = v.started /\ after.announced = v.announced
           /\ after.running = v.running /\ after.closed = v.closed
           /\ after.paused = v.paused
<1> DEFINE e == ExecutionCompleted
           offered == ExecutionCompletedPayload.retry
           w == [v EXCEPT !.ended = TRUE, !.offer = e.of # {}]
<1>1. ValidExecution(ExecutionCompletedPayload)
  BY DEF ValidExecution, ExecutionCompletedPayload, TerminalStatus
<1>2. e.type = "completed" /\ e.valid /\ (e.of # {} <=> offered)
  BY <1>1 DEF Event, ExecutionCompleted
<1>3. Applied(v, e) = w /\ Expected(v, e)
  BY <1>2 DEF Applied, Expected
<1>4. w \in View /\ w.valid = TRUE
  BY DEF View
<1>5. Consume(v, e) = [w EXCEPT !.valid = TRUE]
  BY <1>2, <1>3, <1>4 DEF Consume, View
<1>6. w.ended /\ (w.offer <=> offered)
  BY <1>2 DEF View
<1> QED
  BY <1>4, <1>5, <1>6 DEF View

----------------------------------------------------------------------------
(* Ends.                                                                   *)

\* An Operation never reports more Steps than it has.
LEMMA CountsFit ==
    ASSUME TypeOK'
    PROVE  OperationCompletedPayload.completed <= NumSteps
<1> DEFINE S == {s \in Seqs : steps'[s] = "SUCCEEDED"}
           F == {s \in Seqs : steps'[s] = "FAILED"}
           C == {s \in Seqs : steps'[s] = "CANCELLED"}
<1>1. IsFiniteSet(Seqs) /\ Cardinality(Seqs) = NumSteps
  BY FS_Interval, StepsAssumption DEF Seqs
<1>2. /\ IsFiniteSet(S) /\ IsFiniteSet(F) /\ IsFiniteSet(C)
      /\ IsFiniteSet(S \cup F)
  <2>1. /\ S \in SUBSET Seqs /\ F \in SUBSET Seqs /\ C \in SUBSET Seqs
        /\ S \cup F \in SUBSET Seqs
    OBVIOUS
  <2>2. ASSUME NEW T \in SUBSET Seqs PROVE IsFiniteSet(T)
    BY <1>1, FS_Subset
  <2> HIDE DEF S, F, C
  <2> QED
    BY <2>1, <2>2
<1>3. S \cap F = {} /\ (S \cup F) \cap C = {}
  OBVIOUS
<1>4. /\ Cardinality(S) \in Nat /\ Cardinality(F) \in Nat
      /\ Cardinality(C) \in Nat /\ Cardinality(S \cup F) \in Nat
  BY <1>2, FS_CardinalityType
<1> HIDE DEF S, F, C
<1>5. Cardinality(S \cap F) = 0 /\ Cardinality((S \cup F) \cap C) = 0
  BY <1>3, FS_EmptySet, Zenon
<1>6. Cardinality(S \cup F) = Cardinality(S) + Cardinality(F)
  <2>1. Cardinality(S \cup F)
          = Cardinality(S) + Cardinality(F) - Cardinality(S \cap F)
    BY <1>2, FS_Union
  <2> QED
    BY <2>1, <1>4, <1>5
<1>7. Cardinality((S \cup F) \cup C) = Cardinality(S \cup F) + Cardinality(C)
  <2>1. Cardinality((S \cup F) \cup C)
          = Cardinality(S \cup F) + Cardinality(C)
              - Cardinality((S \cup F) \cap C)
    BY <1>2, FS_Union
  <2> QED
    BY <2>1, <1>4, <1>5
<1>8. Cardinality((S \cup F) \cup C) <= Cardinality(Seqs)
  <2>1. (S \cup F) \cup C \in SUBSET Seqs
    BY DEF S, F, C
  <2> QED
    BY <2>1, <1>1, FS_Subset
<1>9. OperationCompletedPayload.completed
        = Cardinality(S) + Cardinality(F) + Cardinality(C)
  BY DEF OperationCompletedPayload, S, F, C
<1> QED
  BY <1>1, <1>4, <1>6, <1>7, <1>8, <1>9

\* What ends an Operation reports it as it is.
LEMMA OperationReportIsValid ==
    ASSUME TypeOK', op' \in TerminalStatus,
           row'.status \in TerminalStatus \cup {"WAITING_FOR_OPERATION"}
    PROVE  ValidOperation(OperationCompletedPayload)
<1>1. OperationCompletedPayload.completed <= NumSteps
  BY CountsFit
<1>2. /\ OperationCompletedPayload.status = op'
      /\ OperationCompletedPayload.execution_status = row'.status
      /\ OperationCompletedPayload.error = (op' # "SUCCEEDED")
      /\ OperationCompletedPayload.continuation
           = (row'.status = "WAITING_FOR_OPERATION")
  BY DEF OperationCompletedPayload
<1> QED
  BY <1>1, <1>2 DEF ValidOperation

\* The Steps that run are Steps, and none of an Execution that waits, is
\* queued or has ended.
LEMMA RunningStepsAre ==
    ASSUME RowIsGood
    PROVE  /\ RunningSteps \in SUBSET Seqs
           /\ row.status \in TerminalStatus \cup
                {"QUEUED", "WAITING_FOR_OPERATION", "FINALIZING"}
                => RunningSteps = {}
<1>1. RunningSteps \in SUBSET Seqs
  BY DEF RunningSteps
<1>2. CASE row.status = "QUEUED"
  BY <1>1, <1>2, NoneRunsInQueue DEF RunningSteps
<1>3. CASE row.status \in TerminalStatus
                            \cup {"WAITING_FOR_OPERATION", "FINALIZING"}
  BY <1>1, <1>3
     DEF RunningSteps, RowIsGood, WaitingIsGood, EndIsGood, NoneOpen
<1> QED
  BY <1>1, <1>2, <1>3

\* A consumer that has read an end knows the rows that transaction left.
LEMMA EndIsKnown ==
    ASSUME RowIsGood', row'.status \in TerminalStatus,
           SessionIsAnnounced, row'.session # NoSession => row.session # NoSession,
           view' \in View, view'.valid, view'.ended, view'.closed,
           view'.running = {}, view'.started = view.started,
           view'.announced = view.announced,
           row'.status = "FAILED" /\ row'.strategy # "NOT_RETRYABLE"
             => view'.offer
    PROVE  ViewIsGood'
<1>1. RunningSteps' = {}
  BY DEF RowIsGood, EndIsGood, NoneOpen, RunningSteps
<1>2. ~handover' /\ op' \notin OpenOperation
  BY DEF RowIsGood, EndIsGood, ModeIsGood, TerminalStatus
<1>3. EventsFollowContract'
  BY DEF EventsFollowContract
<1>4. ConsumerKnowsState'
  BY <1>1, <1>2 DEF ConsumerKnowsState, SessionIsAnnounced, View
<1> QED
  BY <1>1, <1>3, <1>4 DEF ViewIsGood, SessionIsAnnounced, RunsInOperation

\* The view after a transaction that ends the Execution: the ends of the Steps
\* that ran, of the Operation that was open and of the Execution all come
\* where the consumer expects them.
LEMMA AfterEndIs ==
    ASSUME TypeOK, TypeOK', RowIsGood', ViewIsGood,
           row.status \notin TerminalStatus, row'.status \in TerminalStatus,
           \A s \in RunningSteps : steps'[s] \in TerminalStatus,
           row'.status = "SUCCEEDED" => RunningSteps = {}
    PROVE  /\ AfterEnd \in View /\ AfterEnd.valid /\ AfterEnd.ended
           /\ AfterEnd.closed /\ AfterEnd.running = {}
           /\ AfterEnd.started = view.started
           /\ AfterEnd.announced = view.announced
           /\ AfterEnd.offer <=> ExecutionCompletedPayload.retry
<1> DEFINE stopped == ConsumeIf(row'.status # "SUCCEEDED", view,
                                StepsCompleted(RunningSteps))
           closed == ConsumeIf(op \in OpenOperation, stopped, OperationCompleted)
<1>v. /\ view \in View /\ view.valid /\ view.running = RunningSteps
      /\ view.closed <=> op \notin OpenOperation
      /\ ~view.ended
      /\ RunningSteps # {} => op \in OpenOperation
  BY DEF ViewIsGood, EventsFollowContract, ConsumerKnowsState, RunsInOperation
<1>r. RunningSteps \in SUBSET Seqs
  BY DEF RunningSteps
<1>1. /\ stopped \in View /\ stopped.valid /\ stopped.running = {}
      /\ stopped.closed = view.closed /\ ~stopped.ended
      /\ stopped.started = view.started /\ stopped.announced = view.announced
  <2>1. CASE row'.status = "SUCCEEDED"
    BY <2>1, <1>v DEF ConsumeIf
  <2>2. CASE row'.status # "SUCCEEDED"
    <3>1. stopped = Consume(view, StepsCompleted(RunningSteps))
      BY <2>2 DEF ConsumeIf
    <3>2. /\ stopped \in View
          /\ stopped = [view EXCEPT !.running = @ \ RunningSteps,
                                    !.paused = @ /\ RunningSteps = {}]
      BY <3>1, <1>v, <1>r, ConsumesStepsCompleted
    <3> QED
      BY <3>2, <1>v DEF View
  <2> QED
    BY <2>1, <2>2
<1> HIDE DEF stopped
<1>2. op' \in TerminalStatus
  BY DEF TypeOK, RowIsGood, EndIsGood, OperationStatus, OpenOperation,
         TerminalStatus
<1>3. /\ closed \in View /\ closed.valid /\ closed.running = {}
      /\ closed.closed /\ ~closed.ended
      /\ closed.started = view.started /\ closed.announced = view.announced
  <2>1. CASE op \notin OpenOperation
    BY <2>1, <1>1, <1>v DEF ConsumeIf
  <2>2. CASE op \in OpenOperation
    <3>1. closed = Consume(stopped, OperationCompleted)
      BY <2>2 DEF ConsumeIf
    <3>2. ValidOperation(OperationCompletedPayload)
      BY <1>2, OperationReportIsValid
    <3>3. ~stopped.closed
      BY <2>2, <1>1, <1>v
    <3>4. closed \in View /\ closed = [stopped EXCEPT !.closed = TRUE]
      BY <3>1, <3>2, <3>3, <1>1, ConsumesOperationCompleted
    <3> QED
      BY <3>4, <1>1 DEF View
  <2> QED
    BY <2>1, <2>2
<1> HIDE DEF closed
<1>4. AfterEnd = Consume(closed, ExecutionCompleted)
  BY DEF AfterEnd, closed, stopped
<1> QED
  BY <1>3, <1>4, ConsumesExecutionCompleted

\* ... and for a cancellation, which reports its Operation in any case.
LEMMA AfterCancellationIs ==
    ASSUME TypeOK, TypeOK', RowIsGood', ViewIsGood,
           row.status \notin TerminalStatus, row'.status \in TerminalStatus,
           \A s \in RunningSteps : steps'[s] \in TerminalStatus
    PROVE  /\ AfterCancellation \in View /\ AfterCancellation.valid
           /\ AfterCancellation.ended /\ AfterCancellation.closed
           /\ AfterCancellation.running = {}
           /\ AfterCancellation.started = view.started
           /\ AfterCancellation.announced = view.announced
<1> DEFINE stopped == Consume(view, StepsCompleted(RunningSteps))
           closed == Consume(stopped, IF op \in OpenOperation
                                      THEN OperationCompleted
                                      ELSE OperationRepeated)
<1>v. /\ view \in View /\ view.valid /\ view.running = RunningSteps
      /\ view.closed <=> op \notin OpenOperation
      /\ ~view.ended
      /\ RunningSteps # {} => op \in OpenOperation
  BY DEF ViewIsGood, EventsFollowContract, ConsumerKnowsState, RunsInOperation
<1>r. RunningSteps \in SUBSET Seqs
  BY DEF RunningSteps
<1>1. /\ stopped \in View
      /\ stopped = [view EXCEPT !.running = @ \ RunningSteps,
                                !.paused = @ /\ RunningSteps = {}]
  BY <1>v, <1>r, ConsumesStepsCompleted
<1>2. /\ stopped.valid /\ stopped.running = {} /\ ~stopped.ended
      /\ stopped.started = view.started /\ stopped.announced = view.announced
      /\ stopped.closed <=> op \notin OpenOperation
  BY <1>1, <1>v DEF View
<1> HIDE DEF stopped
<1>3. ValidOperation(OperationCompletedPayload)
  <2>1. op' \in TerminalStatus
    BY DEF TypeOK, RowIsGood, EndIsGood, OperationStatus, OpenOperation,
           TerminalStatus
  <2> QED
    BY <2>1, OperationReportIsValid
<1>4. closed \in View /\ closed = [stopped EXCEPT !.closed = TRUE]
  <2>1. CASE op \in OpenOperation
    BY <2>1, <1>1, <1>2, <1>3, ConsumesOperationCompleted
  <2>2. CASE op \notin OpenOperation
    <3>1. closed = stopped
      <4>1. stopped.closed
        BY <2>2, <1>2
      <4>2. Consume(stopped, OperationRepeated) = stopped
        BY <4>1, <1>1, <1>2, <1>3, ConsumesOperationRepeated
      <4> QED
        BY <2>2, <4>2
    <3>2. stopped \in View
      BY <1>1
    <3>3. stopped.closed = TRUE
      BY <2>2, <3>2, <1>2 DEF View
    <3>4. stopped = [stopped EXCEPT !.closed = TRUE]
      BY <3>2, <3>3 DEF View
    <3> HIDE DEF closed
    <3> QED
      BY <3>1, <3>2, <3>4
  <2> QED
    BY <2>1, <2>2
<1>5. /\ closed.valid /\ closed.running = {} /\ closed.closed /\ ~closed.ended
      /\ closed.started = view.started /\ closed.announced = view.announced
  BY <1>4, <1>1, <1>2 DEF View
<1> HIDE DEF closed
<1>6. AfterCancellation = Consume(closed, ExecutionCompleted)
  BY DEF AfterCancellation, closed, stopped
<1> QED
  BY <1>4, <1>5, <1>6, ConsumesExecutionCompleted

----------------------------------------------------------------------------
(* Steps.                                                                  *)

\* A transaction that changes nothing a consumer should know may be silent.
LEMMA SilenceIsGood ==
    ASSUME ViewIsGood, view' = view,
           steps' = steps \/ (RunningSteps = {} /\ RunningSteps' = {}),
           handover' => handover,
           op' \in OpenOperation <=> op \in OpenOperation,
           row'.status \in TerminalStatus <=> row.status \in TerminalStatus,
           row'.session # NoSession => row.session # NoSession,
           row'.status = "FAILED" /\ row'.strategy # "NOT_RETRYABLE"
             => row.status = "FAILED" /\ row.strategy # "NOT_RETRYABLE"
    PROVE  ViewIsGood'
<1>1. RunningSteps' = RunningSteps
  BY DEF RunningSteps
<1>2. EventsFollowContract'
  BY DEF ViewIsGood, EventsFollowContract
<1>3. ConsumerKnowsState'
  BY <1>1 DEF ViewIsGood, ConsumerKnowsState
<1> QED
  BY <1>1, <1>2, <1>3 DEF ViewIsGood, SessionIsAnnounced, RunsInOperation

\* ... which is so of one that writes no row,
LEMMA LocalIsSilent ==
    ASSUME ViewIsGood, view' = view, UNCHANGED db
    PROVE  ViewIsGood'
BY SilenceIsGood DEF db

\* ... or ends the Execution and says so.
LEMMA AnnouncedEnd ==
    ASSUME TypeOK, TypeOK', LifecycleIsGood, LifecycleIsGood', ViewIsGood,
           row.status \notin TerminalStatus, row'.status \in TerminalStatus,
           \A s \in RunningSteps : steps'[s] \in TerminalStatus,
           row'.status = "SUCCEEDED" => RunningSteps = {},
           row'.session # NoSession => row.session # NoSession,
           row'.status = "FAILED" /\ row'.strategy # "NOT_RETRYABLE"
             => row'.from # 0 /\ row'.claimed,
           view' = AfterEnd
    PROVE  ViewIsGood'
<1>1. RowIsGood' /\ SessionIsAnnounced
  BY DEF LifecycleIsGood, ViewIsGood
<1>2. /\ view' \in View /\ view'.valid /\ view'.ended
      /\ view'.closed /\ view'.running = {}
      /\ view'.started = view.started /\ view'.announced = view.announced
      /\ view'.offer <=> ExecutionCompletedPayload.retry
  BY <1>1, AfterEndIs
<1>3. row'.status = "FAILED" /\ row'.strategy # "NOT_RETRYABLE"
        => ExecutionCompletedPayload.retry
  BY DEF ExecutionCompletedPayload
<1> QED
  BY <1>1, <1>2, <1>3, EndIsKnown

\* What is known of a Worker that holds the run.
LEMMA HolderIs ==
    ASSUME TypeOK, LifecycleIsGood, NEW w \in Workers, HoldsRun(w)
    PROVE  /\ row.status = "RUNNING" /\ ~handover
           /\ row.status \notin TerminalStatus
           /\ row.claimed /\ Position(job[w], row, steps)
           /\ row.finReq => RunningSteps = {} /\ op = "SUCCEEDED"
           /\ ~row.finReq => op = "RUNNING"
           /\ job[w] \in Job /\ row \in Row
           /\ steps \in [Seqs -> StepStatus]
<1>1. row.status = "RUNNING" /\ lease.owner = w /\ w # NoWorker
  BY WorkersAssumption DEF HoldsRun, Holds
<1>2. RowIsGood /\ HoldersAreGood
  BY DEF LifecycleIsGood
<1>3. ~handover /\ row.claimed
  BY <1>1, <1>2 DEF RowIsGood, ModeIsGood, TypeOK, Row
<1>4. Position(job[w], row, steps)
  BY <1>2 DEF HoldersAreGood
<1>5. /\ row.finReq => RunningSteps = {} /\ op = "SUCCEEDED"
      /\ ~row.finReq => op = "RUNNING"
  BY <1>1, <1>2 DEF RowIsGood, RunningIsGood, All, RunningSteps
<1> QED
  BY <1>1, <1>3, <1>4, <1>5 DEF TypeOK, TerminalStatus

\* The Step a run stands at is the one that runs, if any does.
LEMMA RunsAt ==
    ASSUME NEW n, NEW x, At(steps, n, x)
    PROVE  /\ n \in Seqs
           /\ RunningSteps = IF x = "RUNNING" THEN {n} ELSE {}
<1>1. n \in Seqs /\ steps[n] = x
  BY DEF At
<1>2. \A s \in Seqs : steps[s] = "RUNNING" => s = n
  BY OneRuns
<1> QED
  BY <1>1, <1>2 DEF RunningSteps

\* A session is recorded, and what begins with it announced.
LEMMA RecordIsTold ==
    ASSUME TypeOK, TypeOK', LifecycleIsGood, SessionsAreGood, ViewIsGood,
           NEW w \in Workers, StartEvents(w)
    PROVE  ViewIsGood'
<1>f. PICK found \in BOOLEAN : (found => view.started) /\ view' = AfterStart(found)
  BY DEF StartEvents
<1> DEFINE begun == ConsumeIf(~found, view, Event("started", {}, TRUE))
           unknown == ~row.finReq /\ row.ops \notin view.announced \ deleted
<1>h. /\ HoldsRun(w) /\ job[w].pc = "record"
      /\ UNCHANGED <<op, steps, handover>>
      /\ row' = [row EXCEPT !.session = job[w].session]
  BY DEF StartEvents, RecordRuntimeSession
<1>r. /\ row.status = "RUNNING" /\ ~handover /\ row \in Row
      /\ row.finReq => op = "SUCCEEDED"
      /\ ~row.finReq => op = "RUNNING"
  BY <1>h, HolderIs
<1>s. /\ row'.status = row.status /\ row'.strategy = row.strategy
  BY <1>h, <1>r DEF Row
<1>v. /\ view \in View /\ view.valid /\ ~view.ended
      /\ row.session # NoSession => view.started /\ view.announced # {}
      /\ view.closed <=> op \notin OpenOperation
  BY <1>r DEF ViewIsGood, EventsFollowContract, ConsumerKnowsState,
              SessionIsAnnounced, TerminalStatus
<1>1. /\ begun \in View /\ begun = [view EXCEPT !.started = TRUE]
  <2>1. CASE found
    BY <2>1, <1>f, <1>v DEF ConsumeIf, View
  <2>2. CASE ~found
    BY <2>2, <1>v, ConsumesStarted DEF ConsumeIf
  <2> QED
    BY <2>1, <2>2
<1>2. /\ begun.valid /\ begun.started /\ ~begun.ended
      /\ begun.announced = view.announced
      /\ ~row.finReq => ~begun.closed
  BY <1>1, <1>r, <1>v DEF View, OpenOperation
<1> HIDE DEF begun
<1>3. /\ view' \in View
      /\ \/ view' = begun /\ (row.finReq \/ row.ops \in view.announced)
         \/ view' = [begun EXCEPT !.announced = @ \cup {row.ops}]
  <2>1. view' = ConsumeIf(unknown, begun,
                          Event("operation_started", {row.ops}, TRUE))
    BY <1>f DEF AfterStart, begun
  <2>2. row.ops \in 1 .. MaxOperations
    BY <1>r DEF Row
  <2>3. CASE unknown
    BY <2>1, <2>2, <2>3, <1>1, <1>2, ConsumesOperationStarted DEF ConsumeIf
  <2>4. CASE ~unknown
    BY <2>1, <2>4, <1>1 DEF ConsumeIf
  <2> QED
    BY <2>3, <2>4
<1>4. row.finReq => row.session # NoSession
  BY <1>h DEF SessionsAreGood, HoldersOnSession, OnItsSession
<1>5. /\ view'.valid /\ view'.started /\ view'.announced # {}
      /\ view'.running = view.running /\ view'.closed = view.closed
      /\ view'.ended = view.ended /\ view'.paused = view.paused
  BY <1>1, <1>2, <1>3, <1>4, <1>v DEF View
<1>6. RunningSteps' = RunningSteps
  BY <1>h DEF RunningSteps
<1>7. EventsFollowContract'
  BY <1>3, <1>5 DEF EventsFollowContract
<1>8. ConsumerKnowsState'
  BY <1>5, <1>6, <1>h, <1>r, <1>s DEF ViewIsGood, ConsumerKnowsState
<1> QED
  BY <1>5, <1>6, <1>7, <1>8, <1>h
     DEF ViewIsGood, SessionIsAnnounced, RunsInOperation

\* A Step starts where none runs, in an Operation that was announced.
LEMMA StartIsTold ==
    ASSUME TypeOK, LifecycleIsGood, ViewIsGood, NEW w \in Workers,
           MarkStarted(w), Emit(StepStarted(job[w].seq))
    PROVE  ViewIsGood'
<1> DEFINE n == job[w].seq
<1>h. /\ HoldsRun(w) /\ job[w].pc = "next" /\ UNCHANGED <<row, op, handover>>
      /\ steps' = [steps EXCEPT ![n] = "RUNNING"]
  BY DEF MarkStarted
<1>r. /\ row.status = "RUNNING" /\ ~handover /\ row.status \notin TerminalStatus
      /\ Position(job[w], row, steps) /\ steps \in [Seqs -> StepStatus]
      /\ row.finReq => op = "SUCCEEDED"
      /\ ~row.finReq => op = "RUNNING"
  BY <1>h, HolderIs
<1>1. At(steps, n, "PENDING") /\ row.session # NoSession
  BY <1>h, <1>r DEF Position, OnSessionPc
<1>2. n \in Seqs /\ RunningSteps = {}
  BY <1>1, RunsAt
<1>3. steps'[n] = "RUNNING" /\ RunningSteps' = {n}
  BY <1>h, <1>r, <1>2 DEF RunningSteps
<1>4. op = "RUNNING"
  <2>1. ~All(steps, "SUCCEEDED")
    BY <1>1, OneRuns
  <2> QED
    BY <2>1, <1>r DEF LifecycleIsGood, RowIsGood, RunningIsGood
<1>v. /\ view \in View /\ view.valid /\ ~view.ended /\ ~view.closed
      /\ view.running = {} /\ view.started /\ view.announced # {}
  BY <1>1, <1>2, <1>4, <1>r
     DEF ViewIsGood, EventsFollowContract, ConsumerKnowsState,
         SessionIsAnnounced, OpenOperation
<1>5. view' \in View /\ view' = [view EXCEPT !.running = {n}]
  BY <1>2, <1>3, <1>v, ConsumesStepStarted DEF Emit
<1>6. /\ view'.valid /\ view'.running = {n} /\ ~view'.ended /\ ~view'.closed
      /\ view'.started /\ view'.announced # {}
  BY <1>5, <1>v DEF View
<1>7. EventsFollowContract'
  BY <1>5, <1>6 DEF EventsFollowContract
<1>8. ConsumerKnowsState'
  BY <1>3, <1>4, <1>5, <1>6, <1>h, <1>r
     DEF ConsumerKnowsState, OpenOperation, View
<1> QED
  BY <1>4, <1>6, <1>7, <1>8, <1>h
     DEF ViewIsGood, SessionIsAnnounced, RunsInOperation, OpenOperation

\* The end of the Step that ran.
LEMMA StepEndIsTold ==
    ASSUME TypeOK, LifecycleIsGood, ViewIsGood, NEW w \in Workers,
           MarkSucceeded(w) \/ MarkFailed(w) \/ AbortMark(w),
           Emit(StepsCompleted({job[w].seq}))
    PROVE  ViewIsGood'
<1> DEFINE n == job[w].seq
<1>h. /\ HoldsRun(w) /\ job[w].pc \in RunsStepPc
      /\ UNCHANGED <<row, op, handover>>
      /\ \E x \in TerminalStatus : steps' = [steps EXCEPT ![n] = x]
  BY DEF MarkSucceeded, MarkFailed, AbortMark, RunsStepPc, TerminalStatus
<1>r. /\ row.status = "RUNNING" /\ ~handover /\ row.status \notin TerminalStatus
      /\ Position(job[w], row, steps) /\ steps \in [Seqs -> StepStatus]
  BY <1>h, HolderIs
<1>1. At(steps, n, "RUNNING")
  BY <1>h, <1>r DEF Position
<1>2. n \in Seqs /\ RunningSteps = {n}
  BY <1>1, RunsAt
<1>3. steps'[n] \in TerminalStatus /\ RunningSteps' = {}
  BY <1>h, <1>r, <1>2 DEF RunningSteps, TerminalStatus
<1>v. /\ view \in View /\ view.valid /\ ~view.ended /\ ~view.closed
      /\ view.running = {n} /\ op \in OpenOperation
  BY <1>2, <1>r
     DEF ViewIsGood, EventsFollowContract, ConsumerKnowsState, RunsInOperation
<1>4. /\ view' \in View
      /\ view' = [view EXCEPT !.running = @ \ {n}, !.paused = @ /\ {n} = {}]
  <2> HIDE DEF n
  <2>1. {n} \in SUBSET Seqs /\ \A s \in {n} : steps'[s] \in TerminalStatus
    BY <1>2, <1>3
  <2>2. view' = Consume(view, StepsCompleted({n}))
    BY DEF Emit, n
  <2> QED
    BY <2>1, <2>2, <1>v, ConsumesStepsCompleted
<1>5. /\ view'.valid /\ view'.running = {} /\ ~view'.ended /\ ~view'.closed
      /\ view'.started = view.started /\ view'.announced = view.announced
  BY <1>4, <1>v DEF View
<1>6. EventsFollowContract'
  BY <1>4, <1>5 DEF EventsFollowContract
<1>7. ConsumerKnowsState'
  BY <1>3, <1>5, <1>h, <1>r, <1>v, <1>4
     DEF ViewIsGood, SessionIsAnnounced, ConsumerKnowsState, View
<1> QED
  BY <1>3, <1>5, <1>6, <1>7, <1>h
     DEF ViewIsGood, SessionIsAnnounced, RunsInOperation

\* The replay of a Step that was taken over has caught up.
LEMMA CatchUpIsTold ==
    ASSUME TypeOK, LifecycleIsGood, ViewIsGood, NEW w \in Workers,
           RecordHandoverCompleted(w)
    PROVE  ViewIsGood'
<1> DEFINE n == job[w].seq
<1>h. /\ HoldsRun(w) /\ job[w].pc = "execute" /\ view.paused
      /\ UNCHANGED <<row, op, steps, handover>>
      /\ view' = Consume(view, HandoverCompleted(n))
  BY DEF RecordHandoverCompleted, Emit, vars, db
<1>r. row.status = "RUNNING" /\ ~handover /\ Position(job[w], row, steps)
  BY <1>h, HolderIs
<1>1. At(steps, n, "RUNNING")
  BY <1>h, <1>r DEF Position, RunsStepPc
<1>2. n \in Seqs /\ RunningSteps = {n} /\ steps'[n] = "RUNNING"
  BY <1>1, <1>h, RunsAt DEF At
<1>v. view \in View /\ view.valid /\ view.running = {n}
  BY <1>2 DEF ViewIsGood, EventsFollowContract, ConsumerKnowsState
<1>3. view' \in View /\ view' = [view EXCEPT !.paused = FALSE]
  BY <1>2, <1>v, <1>h, ConsumesHandoverCompleted
<1>4. /\ view'.valid /\ view'.running = view.running
      /\ view'.ended = view.ended /\ view'.closed = view.closed
      /\ view'.started = view.started /\ view'.announced = view.announced
      /\ view'.offer = view.offer
  BY <1>3, <1>v DEF View
<1>5. RunningSteps' = RunningSteps
  BY <1>h DEF RunningSteps
<1>6. EventsFollowContract'
  BY <1>3, <1>4 DEF EventsFollowContract
<1>7. ConsumerKnowsState'
  BY <1>4, <1>5, <1>h, <1>r DEF ViewIsGood, ConsumerKnowsState
<1> QED
  BY <1>4, <1>5, <1>6, <1>7, <1>h
     DEF ViewIsGood, SessionIsAnnounced, RunsInOperation

\* An Operation ends after its Steps.
LEMMA OperationEndIsTold ==
    ASSUME TypeOK, TypeOK', LifecycleIsGood, LifecycleIsGood', ViewIsGood,
           NEW w \in Workers, CompleteOperation(w), Emit(OperationCompleted)
    PROVE  ViewIsGood'
<1>h. /\ HoldsRun(w) /\ job[w].pc = "opDone" /\ UNCHANGED <<steps, handover>>
      /\ op' = job[w].end.status
      /\ row' = [row EXCEPT !.status = "WAITING_FOR_OPERATION",
                            !.finReq = FALSE]
  BY DEF CompleteOperation
<1>r. /\ row.status = "RUNNING" /\ ~handover /\ row.status \notin TerminalStatus
      /\ Position(job[w], row, steps) /\ row \in Row /\ job[w] \in Job
  BY <1>h, HolderIs
<1>1. /\ row'.status = "WAITING_FOR_OPERATION" /\ row'.session = row.session
      /\ row'.status \notin TerminalStatus
  BY <1>h, <1>r DEF Row, TerminalStatus
<1>2. RunningSteps' = {} /\ op' \notin OpenOperation
  BY <1>1 DEF LifecycleIsGood, RowIsGood, WaitingIsGood, NoneOpen, RunningSteps
<1>3. RunningSteps = {}
  BY <1>2, <1>h DEF RunningSteps
<1>4. op' \in TerminalStatus
  BY <1>2 DEF TypeOK, OperationStatus, OpenOperation, TerminalStatus
<1>5. ValidOperation(OperationCompletedPayload)
  BY <1>1, <1>4, OperationReportIsValid
<1>v. /\ view \in View /\ view.valid /\ ~view.ended /\ ~view.closed
      /\ view.running = {}
  <2>1. op \in OpenOperation
    BY DEF CompleteOperation, OpenOperation
  <2> QED
    BY <2>1, <1>3, <1>r DEF ViewIsGood, EventsFollowContract, ConsumerKnowsState
<1>6. view' \in View /\ view' = [view EXCEPT !.closed = TRUE]
  BY <1>5, <1>v, ConsumesOperationCompleted DEF Emit
<1>7. /\ view'.valid /\ view'.running = {} /\ ~view'.ended /\ view'.closed
      /\ view'.started = view.started /\ view'.announced = view.announced
  BY <1>6, <1>v DEF View
<1>8. EventsFollowContract'
  BY <1>6, <1>7 DEF EventsFollowContract
<1>9. ConsumerKnowsState'
  <2>1. ~handover' /\ row'.status # "FAILED"
    BY <1>1, <1>h, <1>r
  <2>2. row'.session # NoSession => view'.started
    BY <1>1, <1>7 DEF ViewIsGood, SessionIsAnnounced
  <2> QED
    BY <2>1, <2>2, <1>1, <1>2, <1>7 DEF ConsumerKnowsState
<1> QED
  BY <1>1, <1>2, <1>7, <1>8, <1>9
     DEF ViewIsGood, SessionIsAnnounced, RunsInOperation

\* A run that is let go is announced as a handover of the one Step that runs.
LEMMA HandoverIsTold ==
    ASSUME TypeOK, LifecycleIsGood, ViewIsGood, row.status = "RUNNING",
           Transferable, UNCHANGED <<row, op, steps>>, view' = AfterHandover
    PROVE  ViewIsGood'
<1>1. PICK s \in Seqs : steps[s] = "RUNNING"
  BY DEF Transferable, RunningSteps
<1>2. At(steps, s, "RUNNING")
  BY <1>1 DEF LifecycleIsGood, RowIsGood, RunningIsGood
<1>3. RunningSteps = {s} /\ steps'[s] = "RUNNING"
  BY <1>1, <1>2, RunsAt
<1>v. view \in View /\ view.valid /\ view.running = {s}
  BY <1>3 DEF ViewIsGood, EventsFollowContract, ConsumerKnowsState
<1>4. view' = Consume(view, HandoverStarted({s}))
  BY <1>3 DEF AfterHandover
<1>5. view' \in View /\ view' = [view EXCEPT !.paused = TRUE]
  BY <1>3, <1>4, <1>v, ConsumesHandoverStarted
<1>6. /\ view'.valid /\ view'.running = view.running /\ view'.paused
      /\ view'.ended = view.ended /\ view'.closed = view.closed
      /\ view'.started = view.started /\ view'.announced = view.announced
      /\ view'.offer = view.offer
  BY <1>5, <1>v DEF View
<1>7. RunningSteps' = RunningSteps
  BY DEF RunningSteps
<1>8. EventsFollowContract'
  BY <1>5, <1>6 DEF EventsFollowContract
<1>9. ConsumerKnowsState'
  BY <1>6, <1>7 DEF ViewIsGood, ConsumerKnowsState
<1> QED
  BY <1>6, <1>7, <1>8, <1>9
     DEF ViewIsGood, SessionIsAnnounced, RunsInOperation

\* The transactions of a run, a cancellation or a handover that write events.
LEMMA RunIsTold ==
    ASSUME TypeOK, TypeOK', LifecycleIsGood, LifecycleIsGood',
           SessionsAreGood, ViewIsGood, NEW w \in Workers, RunEvents(w)
    PROVE  ViewIsGood'
<1>t. /\ row \in Row /\ steps \in [Seqs -> StepStatus] /\ job[w] \in Job
  BY DEF TypeOK
<1>2. CASE MarkStarted(w) /\ Emit(StepStarted(job[w].seq))
  BY <1>2, StartIsTold
<1>3. CASE RecordHandoverCompleted(w)
  BY <1>3, CatchUpIsTold
<1>4. CASE /\ MarkSucceeded(w) \/ MarkFailed(w) \/ AbortMark(w)
           /\ Emit(StepsCompleted({job[w].seq}))
  BY <1>4, StepEndIsTold
<1>5. CASE CompleteOperation(w) /\ Emit(OperationCompleted)
  BY <1>5, OperationEndIsTold
<1>6. CASE Finalize(w) /\ view' = AfterEnd
  <2>h. /\ HoldsRun(w)
        /\ job[w].pc \in {"finalize", "finalizeOk", "abortFinalize"}
    BY <1>6 DEF Finalize
  <2>r. /\ row.status \notin TerminalStatus /\ row.claimed
        /\ Position(job[w], row, steps)
    BY <2>h, HolderIs
  <2>1. /\ row'.status = job[w].end.status
        /\ row'.strategy = job[w].end.strategy
        /\ row'.from = CASE job[w].end.strategy = "FROM_FAILED_STEP" -> job[w].seq
                         [] job[w].end.strategy = "FROM_START" -> 1
                         [] OTHER -> 0
        /\ row'.claimed = row.claimed
        /\ row'.session \in {row.session, NoSession}
    BY <1>6, <1>t DEF Finalize, Row, SessionAfter
  <2>2. job[w].end.status \in {"SUCCEEDED", "FAILED"}
    BY <1>t DEF Job, Ending
  <2>3. CASE job[w].end.status = "SUCCEEDED"
    <3>1. RunningSteps = {}
      BY <1>6, <2>3 DEF Finalize, CompletedResults, RunningSteps
    <3> QED
      BY <3>1, <2>1, <2>3, <2>r, <1>6, AnnouncedEnd DEF TerminalStatus
  <2>4. CASE job[w].end.status = "FAILED"
    <3>1. \A s \in RunningSteps : steps'[s] \in TerminalStatus
      BY <1>6, <2>4 DEF Finalize, EndedSteps, RunningSteps, TerminalStatus
    <3>2. job[w].end.strategy # "NOT_RETRYABLE" => row'.from # 0
      <4>1. CASE job[w].end.strategy = "FROM_FAILED_STEP"
        <5>1. KeepsSession(job[w])
          BY <4>1, <2>h, <2>4 DEF LifecycleIsGood, JobsAreGood, JobIsGood,
             FailsPlainly, FailsRetaining, KeepsSession
        <5>2. job[w].seq \in Seqs
          BY <5>1, <2>r DEF Position, At
        <5> QED
          BY <4>1, <5>2, <2>1, StepsAssumption DEF Seqs
      <4>2. CASE job[w].end.strategy = "FROM_START"
        BY <4>2, <2>1
      <4> QED
        BY <4>1, <4>2, <1>t DEF Job, Ending, RetryStrategy
    <3> QED
      BY <3>1, <3>2, <2>1, <2>4, <2>r, <1>6, AnnouncedEnd DEF TerminalStatus
  <2> QED
    BY <2>2, <2>3, <2>4
<1>7. CASE CancelFinalize(w) /\ view' = AfterCancellation
  <2>1. /\ row.status = "CANCEL_REQUESTED"
        /\ row'.status \in {"FAILED", "CANCELLED"}
        /\ row'.strategy = "NOT_RETRYABLE"
        /\ row'.session \in {row.session, NoSession}
        /\ steps' = EndedSteps(steps, row'.status)
    BY <1>7, <1>t
       DEF CancelFinalize, HoldsCancellation, Row, SessionAfter
  <2>2. \A s \in RunningSteps : steps'[s] \in TerminalStatus
    BY <2>1 DEF EndedSteps, RunningSteps, TerminalStatus
  <2>3. RowIsGood' /\ SessionIsAnnounced
    BY DEF LifecycleIsGood, ViewIsGood
  <2>4. /\ row.status \notin TerminalStatus
        /\ row'.status \in TerminalStatus
    BY <2>1 DEF TerminalStatus
  <2>5. /\ view' \in View /\ view'.valid /\ view'.ended
        /\ view'.closed /\ view'.running = {}
        /\ view'.started = view.started /\ view'.announced = view.announced
    BY <1>7, <2>2, <2>3, <2>4, AfterCancellationIs
  <2> QED
    BY <2>1, <2>3, <2>4, <2>5, EndIsKnown
<1>8. CASE /\ ReleaseForHandover(w)
           /\ view' = IF handover' THEN AfterHandover ELSE view
  <2>h. HoldsRun(w) /\ UNCHANGED <<row, op, steps>>
    BY <1>8 DEF ReleaseForHandover
  <2>r. row.status = "RUNNING" /\ ~handover
    BY <2>h, HolderIs
  <2>1. CASE Transferable /\ BeginHandover
    BY <2>1, <2>h, <2>r, <1>8, HandoverIsTold DEF BeginHandover
  <2>2. CASE handover' = handover
    BY <2>2, <2>h, <2>r, <1>8, SilenceIsGood
  <2> QED
    BY <2>1, <2>2, <1>8 DEF ReleaseForHandover
<1> QED
  BY <1>2, <1>3, <1>4, <1>5, <1>6, <1>7, <1>8 DEF RunEvents

\* What a Worker does without telling.
LEMMA QuietRunIsSilent ==
    ASSUME TypeOK, TypeOK', LifecycleIsGood, LifecycleIsGood', ViewIsGood,
           NEW w \in Workers, QuietRun(w)
    PROVE  ViewIsGood'
<1>t. row \in Row /\ view' = view
  BY DEF TypeOK, QuietRun
<1>g. RowIsGood
  BY DEF LifecycleIsGood
<1>1. CASE LocalStep(w)
  BY <1>1, <1>t, LocalKeepsRows, LocalIsSilent
<1>2. CASE ClaimWaiting(w) \/ ClaimNew(w)
  <2>1. /\ row.status \in {"QUEUED", "FINALIZING"} /\ row'.status = "RUNNING"
        /\ row'.session = row.session
        /\ UNCHANGED <<steps, handover>>
    BY <1>2, <1>t DEF ClaimWaiting, ClaimNew, Claimable, Row
  <2>2. op' \in OpenOperation <=> op \in OpenOperation
    <3>1. CASE row.status = "QUEUED"
      BY <3>1, <1>2, <1>g
         DEF ClaimWaiting, ClaimNew, RowIsGood, QueuedIsGood, OpenOperation
    <3>2. CASE row.status = "FINALIZING"
      <4>1. row.finReq /\ row.session # NoSession /\ row.mode = "MULTI"
        BY <3>2, <1>g, <1>t
           DEF RowIsGood, WaitingIsGood, ModeIsGood, Row, OperationMode
      <4> QED
        BY <4>1, <1>2 DEF ClaimWaiting, ClaimNew, ContinuesAttempt, Mode
    <3> QED
      BY <2>1, <3>1, <3>2
  <2> QED
    BY <2>1, <2>2, <1>t, SilenceIsGood DEF TerminalStatus
<1>3. CASE ClaimHandover(w) \/ ClaimCancellation(w)
  <2>1. UNCHANGED <<row, op, steps>> /\ (handover' => handover)
    BY <1>3 DEF ClaimHandover, ClaimCancellation
  <2> QED
    BY <2>1, <1>t, SilenceIsGood
<1>4. CASE DeferRetainedRetry(w)
  <2>1. /\ row.status = "RUNNING" /\ row'.status = "QUEUED"
        /\ row'.session = row.session /\ UNCHANGED <<steps, handover>>
        /\ op' = IF op = "RUNNING" THEN "QUEUED" ELSE op
    BY <1>4, <1>t DEF DeferRetainedRetry, HoldsRun, Holds, Row
  <2> QED
    BY <2>1, <1>t, SilenceIsGood DEF TerminalStatus, OpenOperation
<1>5. CASE SkipStepsAfter(w)
  <2>1. /\ HoldsRun(w) /\ job[w].pc \in {"opSkip", "abortSkip"}
        /\ UNCHANGED <<row, op, handover>>
        /\ \A s \in Seqs : steps'[s] = "RUNNING" => steps[s] = "RUNNING"
    BY <1>5 DEF SkipStepsAfter
  <2>2. Position(job[w], row, steps)
    BY <2>1, HolderIs
  <2>3. At(steps, job[w].seq, "FAILED")
    BY <2>1, <2>2 DEF Position
  <2>4. RunningSteps = {}
    BY <2>3, RunsAt
  <2>5. RunningSteps' = {}
    BY <2>1, <2>4 DEF RunningSteps
  <2> QED
    BY <2>1, <2>4, <2>5, <1>t, SilenceIsGood
<1>6. CASE AbortBegin(w) \/ AbortRecord(w)
  <2>1. /\ row'.status = row.status /\ row'.session = row.session
        /\ row'.strategy = row.strategy /\ UNCHANGED <<op, steps, handover>>
    BY <1>6, <1>t DEF AbortBegin, AbortRecord, Row
  <2> QED
    BY <2>1, <1>t, SilenceIsGood
<1>7. CASE ReleaseForCancellation(w)
  <2>1. UNCHANGED <<row, op, steps, handover>>
    BY <1>7 DEF ReleaseForCancellation
  <2> QED
    BY <2>1, <1>t, SilenceIsGood
<1> QED
  BY <1>1, <1>2, <1>3, <1>4, <1>5, <1>6, <1>7
     DEF QuietRun, LocalStep, Claim

\* An Execution whose Operation has ended while it waits fails with it.
LEMMA WaitingEndIsTold ==
    ASSUME TypeOK, TypeOK', LifecycleIsGood, LifecycleIsGood', ViewIsGood,
           NEW c \in Cleaners, NEW by, NEW lost, FailWaiting(c, by, lost),
           row.status = "WAITING_FOR_OPERATION",
           EndedIf(row'.status = "FAILED" /\ row.status # "FAILED")
    PROVE  ViewIsGood'
<1>t. row \in Row /\ RowIsGood
  BY DEF TypeOK, LifecycleIsGood
<1>1. /\ row'.status = "FAILED" /\ row'.strategy = "NOT_RETRYABLE"
      /\ row'.session \in {row.session, NoSession} /\ steps' = steps
  BY <1>t DEF FailWaiting, Row
<1>2. RunningSteps = {}
  BY <1>t, RunningStepsAre
<1>3. view' = AfterEnd
  BY <1>1 DEF EndedIf
<1> QED
  BY <1>1, <1>2, <1>3, AnnouncedEnd DEF TerminalStatus

\* The passes that recover, expire and audit.
LEMMA PassIsTold ==
    ASSUME TypeOK, TypeOK', LifecycleIsGood, LifecycleIsGood', ViewIsGood,
           NEW c \in Cleaners, PassEvents(c)
    PROVE  ViewIsGood'
<1>t. /\ row \in Row /\ RowIsGood /\ steps \in [Seqs -> StepStatus]
  BY DEF TypeOK, LifecycleIsGood
<1>1. CASE FailExpired(c) /\ view' = AfterEnd
  <2>1. /\ row.status = "RUNNING" /\ row'.status = "FAILED"
        /\ row'.strategy = RestartStrategy
        /\ row'.from = (IF Mode = "SINGLE" THEN 1 ELSE 0)
        /\ row'.claimed = row.claimed /\ row'.session = row.session
        /\ steps' = EndedSteps(steps, "FAILED")
    BY <1>1, <1>t DEF FailExpired, Expired, Row
  <2>2. row.claimed
    BY <2>1, <1>t DEF RowIsGood, ModeIsGood
  <2>3. row'.strategy # "NOT_RETRYABLE" => row'.from # 0
    BY <2>1 DEF RestartStrategy
  <2>4. \A s \in RunningSteps : steps'[s] \in TerminalStatus
    BY <2>1 DEF EndedSteps, RunningSteps, TerminalStatus
  <2> QED
    BY <1>1, <2>1, <2>2, <2>3, <2>4, AnnouncedEnd DEF TerminalStatus
<1>2. CASE CleanupExpired(c) /\ EndedIf(row.status = "QUEUED")
  <2>1. /\ row.status \in {"FAILED", "QUEUED"} /\ row'.status = "FAILED"
        /\ row'.strategy = "NOT_RETRYABLE" /\ row'.session = row.session
        /\ handover' = handover
    BY <1>2, <1>t DEF CleanupExpired, RetentionOver, Row
  <2>2. CASE row.status = "QUEUED"
    <3>1. RunningSteps = {} /\ view' = AfterEnd
      BY <2>2, <1>2, <1>t, RunningStepsAre DEF EndedIf
    <3> QED
      BY <2>1, <2>2, <3>1, AnnouncedEnd DEF TerminalStatus
  <2>3. CASE row.status = "FAILED"
    <3>1. /\ view' = view /\ op' = op
          /\ \A s \in Seqs : steps'[s] = steps[s]
      BY <2>3, <1>2 DEF CleanupExpired, EndedIf
    <3>2. RunningSteps = {} /\ RunningSteps' = {}
      <4>1. RunningSteps = {}
        BY <2>3, <1>t, RunningStepsAre DEF TerminalStatus
      <4> QED
        BY <3>1, <4>1 DEF RunningSteps
    <3> QED
      BY <2>1, <2>3, <3>1, <3>2, SilenceIsGood DEF TerminalStatus
  <2> QED
    BY <2>1, <2>2, <2>3
<1>3. CASE /\ AuditLost(c) \/ AuditTargetGone(c)
                \/ \E by \in {"WAIT_TIMEOUT", "MAX_RUNTIME"} : AuditEnd(c, by)
           /\ EndedIf(row'.status = "FAILED" /\ row.status # "FAILED")
  <2>1. CASE /\ row.status = "WAITING_FOR_OPERATION"
             /\ \E by, lost : FailWaiting(c, by, lost)
    BY <2>1, <1>3, WaitingEndIsTold
  <2>2. CASE UNCHANGED db
    <3>1. view' = view
      BY <2>2, <1>3 DEF EndedIf, db
    <3> QED
      BY <2>2, <3>1, LocalIsSilent
  <2>3. CASE /\ row.status = "WAITING_FOR_OPERATION"
             /\ row'.status = "FINALIZING" /\ row'.session = row.session
             /\ UNCHANGED <<op, steps, handover>>
    <3>1. view' = view
      BY <2>3, <1>3 DEF EndedIf
    <3> QED
      BY <2>3, <3>1, SilenceIsGood DEF TerminalStatus
  <2> QED
    BY <2>1, <2>2, <2>3, <1>3, <1>t
       DEF AuditLost, AuditTargetGone, AuditEnd, CurrentWaiting, Row
<1> QED
  BY <1>1, <1>2, <1>3 DEF PassEvents

\* ... and what they do without telling.
LEMMA QuietPassIsSilent ==
    ASSUME TypeOK, LifecycleIsGood, ViewIsGood,
           NEW c \in Cleaners, QuietPass(c)
    PROVE  ViewIsGood'
<1>t. row \in Row /\ view' = view
  BY DEF TypeOK, QuietPass
<1>1. CASE RetryUnresolved(c) \/ RecordResult(c)
  <2>1. /\ row'.status = row.status /\ row'.strategy = row.strategy
        /\ row'.session \in {row.session, NoSession}
        /\ UNCHANGED <<op, steps, handover>>
    BY <1>1, <1>t DEF RetryUnresolved, RecordResult, SessionAfter, Row
  <2> QED
    BY <2>1, <1>t, SilenceIsGood
<1>2. CASE \/ ValidateObservation(c) \/ DeleteObserved(c) \/ AuditProbe(c)
           \/ AuditCapture(c) \/ PassFault(c)
  <2>1. UNCHANGED <<row, op, steps, handover>>
    BY <1>2, Zenon
       DEF ValidateObservation, DeleteObserved, AuditProbe, AuditCapture,
           PassFault, DeleteObservedFails, PassBreaks, db
  <2> QED
    BY <2>1, <1>t, SilenceIsGood
<1> QED
  BY <1>1, <1>2 DEF QuietPass

\* Deadlines, leases that expire, kernels that die.
LEMMA OtherIsTold ==
    ASSUME TypeOK, TypeOK', LifecycleIsGood, LifecycleIsGood', ViewIsGood,
           OtherEvents
    PROVE  ViewIsGood'
<1>t. row \in Row /\ RowIsGood
  BY DEF TypeOK, LifecycleIsGood
<1>1. CASE HandOverExpired /\ view' = AfterHandover
  BY <1>1, HandoverIsTold DEF HandOverExpired, Expired
<1>2. CASE (FailQueueTimeout \/ ClaimUnavailable) /\ view' = AfterEnd
  <2>1. /\ row.status = "QUEUED" /\ row'.status = "FAILED"
        /\ row'.session = row.session /\ row'.claimed = row.claimed
        /\ row'.strategy # "NOT_RETRYABLE" => row'.from = 1 /\ IsResume
    BY <1>2, <1>t DEF FailQueueTimeout, ClaimUnavailable, Row
  <2>2. RunningSteps = {}
    BY <2>1, <1>t, RunningStepsAre
  <2>3. IsResume => row.claimed
    BY <1>t DEF IsResume, RowIsGood, ModeIsGood
  <2> QED
    BY <1>2, <2>1, <2>2, <2>3, AnnouncedEnd DEF TerminalStatus
<1>3. CASE RequestExpiredCancellation /\ view' = view
  <2>1. /\ row.status \notin TerminalStatus
        /\ row'.status = "CANCEL_REQUESTED" /\ row'.session = row.session
        /\ UNCHANGED <<op, steps, handover>>
    BY <1>3, <1>t
       DEF RequestExpiredCancellation, PastMaximum, Row, TerminalStatus
  <2> QED
    BY <2>1, <1>3, SilenceIsGood DEF TerminalStatus
<1>4. CASE RetentionPasses /\ view' = view
  <2>1. /\ row'.status = row.status /\ row'.strategy = row.strategy
        /\ row'.session = row.session /\ UNCHANGED <<op, steps, handover>>
    BY <1>4, <1>t DEF RetentionPasses, Row
  <2> QED
    BY <2>1, <1>4, SilenceIsGood
<1>5. CASE /\ \/ Expiry \/ LeaseStalls \/ CancellationLeaseStalls
              \/ \E k \in kernels : KernelDies(k) \/ KernelRestarts(k)
           /\ view' = view
  <2>1. UNCHANGED <<row, op, steps, handover>>
    BY <1>5
       DEF Expiry, LeaseExpires, CancellationLeaseExpires, LeaseStalls,
           CancellationLeaseStalls, KernelDies, KernelRestarts, db
  <2> QED
    BY <2>1, <1>5, SilenceIsGood
<1> QED
  BY <1>1, <1>2, <1>3, <1>4, <1>5 DEF OtherEvents

\* The commands of the caller: a retry and a new Operation begin a cycle.
LEMMA CommandIsTold ==
    ASSUME TypeOK, TypeOK', LifecycleIsGood, LifecycleIsGood', ViewIsGood,
           CommandEvents \/ RetryEvents
    PROVE  ViewIsGood'
<1>t. row \in Row /\ RowIsGood /\ RowIsGood'
  BY DEF TypeOK, LifecycleIsGood
<1>1. CASE (RequestCancel \/ RequestFinalization) /\ view' = view
  <2>1. /\ row.status \notin TerminalStatus
        /\ row'.status \in {"CANCEL_REQUESTED", "FINALIZING"}
        /\ row'.session = row.session /\ UNCHANGED <<op, steps, handover>>
    BY <1>1, <1>t DEF RequestCancel, RequestFinalization, Row, TerminalStatus
  <2> QED
    BY <2>1, <1>1, SilenceIsGood DEF TerminalStatus
<1>2. CASE (RequestRetry \/ RequestOperation) /\ NextCycle
  <2>1. /\ row'.status = "QUEUED" /\ row'.session = row.session
        /\ op' = "QUEUED" /\ handover' = handover
        /\ row.status \in TerminalStatus \cup {"WAITING_FOR_OPERATION"}
    BY <1>2, <1>t DEF RequestRetry, RequestOperation, Row, TerminalStatus
  <2>2. RunningSteps = {} /\ ~handover
    BY <2>1, <1>t, RunningStepsAre
       DEF RowIsGood, ModeIsGood, TerminalStatus
  <2>3. RunningSteps' = {}
    BY <2>1, <1>2, <2>2
       DEF RequestRetry, RequestOperation, RunningSteps
  <2>v. view \in View /\ view.valid /\ view.running = {}
    BY <2>2 DEF ViewIsGood, EventsFollowContract, ConsumerKnowsState
  <2>4. /\ view' \in View /\ view'.valid /\ view'.running = {}
        /\ ~view'.closed /\ ~view'.ended
        /\ view'.started = view.started /\ view'.announced = view.announced
    BY <1>2, <2>v DEF NextCycle, View
  <2>5. EventsFollowContract'
    BY <2>4 DEF EventsFollowContract
  <2>6. SessionIsAnnounced'
    BY <2>1, <2>4 DEF ViewIsGood, SessionIsAnnounced
  <2>7. ConsumerKnowsState'
    BY <2>1, <2>2, <2>3, <2>4, <2>6
       DEF ConsumerKnowsState, SessionIsAnnounced, OpenOperation,
           TerminalStatus
  <2> QED
    BY <2>3, <2>5, <2>6, <2>7 DEF ViewIsGood, RunsInOperation
<1> QED
  BY <1>1, <1>2 DEF CommandEvents, RetryEvents

----------------------------------------------------------------------------
(* The theorems.                                                           *)

\* The events are written by the lifecycle as it is: each of its transactions
\* is one of ExecutionLifecycle.
LEMMA EventsOfLifecycle == [EventNext]_eventVars => [Next]_vars
<1> SUFFICES ASSUME [EventNext]_eventVars PROVE [Next]_vars
  OBVIOUS
<1>1. CASE CommandEvents \/ RetryEvents
  BY <1>1 DEF CommandEvents, RetryEvents, Command, Next
<1>2. ASSUME NEW w \in Workers, StartEvents(w) \/ RunEvents(w) \/ QuietRun(w)
      PROVE  [Next]_vars
  <2>1. \/ Claim(w) \/ JobStep(w) \/ JobFault(w) \/ DispatchCancellation(w)
        \/ UNCHANGED vars
    BY <1>2 DEF StartEvents, RunEvents, QuietRun, RecordHandoverCompleted, JobStep
  <2> QED
    BY <2>1 DEF Next
<1>3. ASSUME NEW c \in Cleaners, PassEvents(c) \/ QuietPass(c)
      PROVE  [Next]_vars
  <2>1. StartPass(c) \/ PassStep(c) \/ Audit(c) \/ PassFault(c)
    BY <1>3 DEF PassEvents, QuietPass, StartPass, PassStep, Audit
  <2> QED
    BY <2>1 DEF Next
<1>4. CASE OtherEvents
  BY <1>4 DEF OtherEvents, Deadlines, Environment, Next
<1>5. CASE UNCHANGED eventVars
  BY <1>5 DEF eventVars
<1> QED
  BY <1>1, <1>2, <1>3, <1>4, <1>5 DEF EventNext

\* So what was proved of the lifecycle is true of it with its events.
LEMMA EventsKeepLifecycle == EventSpec => Spec
BY EventsOfLifecycle, PTL DEF EventSpec, EventInit, Spec

\* Nothing was read of an Execution that was just submitted.
LEMMA ViewInit == EventInit => ViewIsGood
<1> SUFFICES ASSUME EventInit PROVE ViewIsGood
  OBVIOUS
<1>1. /\ row.status = "QUEUED" /\ row.session = NoSession /\ op = "QUEUED"
      /\ steps = [s \in Seqs |-> "PENDING"] /\ handover = FALSE
      /\ view = NothingRead
  BY DEF EventInit, Init, Submitted
<1>2. RunningSteps = {}
  BY <1>1 DEF RunningSteps
<1> QED
  BY <1>1, <1>2
     DEF ViewIsGood, EventsFollowContract, ConsumerKnowsState,
         SessionIsAnnounced, RunsInOperation, NothingRead, View, OpenOperation,
         TerminalStatus

\* Every step keeps the consumer's view good.
LEMMA ViewStep ==
    ASSUME TypeOK, TypeOK', LifecycleIsGood, LifecycleIsGood',
           SessionsAreGood, ViewIsGood, [EventNext]_eventVars
    PROVE  ViewIsGood'
<1>1. CASE CommandEvents \/ RetryEvents
  BY <1>1, CommandIsTold
<1>2. ASSUME NEW w \in Workers, StartEvents(w) \/ RunEvents(w) \/ QuietRun(w)
      PROVE  ViewIsGood'
  BY <1>2, RecordIsTold, RunIsTold, QuietRunIsSilent
<1>3. ASSUME NEW c \in Cleaners, PassEvents(c) \/ QuietPass(c)
      PROVE  ViewIsGood'
  BY <1>3, PassIsTold, QuietPassIsSilent
<1>4. CASE OtherEvents
  BY <1>4, OtherIsTold
<1>5. CASE UNCHANGED eventVars
  BY <1>5, LocalIsSilent DEF eventVars, vars
<1> QED
  BY <1>1, <1>2, <1>3, <1>4, <1>5 DEF EventNext

\* The consumer's view is always good.
LEMMA ViewGood == EventSpec => []ViewIsGood
<1>1. TypeOK /\ TypeOK' /\ LifecycleIsGood /\ LifecycleIsGood'
        /\ SessionsAreGood /\ ViewIsGood /\ [EventNext]_eventVars
        => ViewIsGood'
  BY ViewStep
<1> QED
  BY <1>1, ViewInit, EventsKeepLifecycle, TypeCorrect, LifecycleGood,
     SessionsGood, PTL DEF EventSpec

\* Every event a transaction writes passes its own validation, which would
\* otherwise roll the transaction back, and comes where the event contract
\* puts it: whoever ends a Step, an Operation or an Execution, a Worker, a
\* cancellation, a recovery pass or a deadline, and however they race.  What a
\* consumer has to expect beyond the contract is part of the statement: start
\* events again after retention, and an ended Operation named by a cancellation.
THEOREM EventsAreContractual == EventSpec => []EventsFollowContract
<1>1. ViewIsGood => EventsFollowContract
  BY DEF ViewIsGood
<1> QED
  BY <1>1, ViewGood, PTL

\* A consumer that applies the events in their order knows which Step runs,
\* which handover is under way, what has ended and which retry it may ask for:
\* no transaction that changes one of these leaves its event out.
THEOREM ConsumerIsInformed == EventSpec => []ConsumerKnowsState
<1>1. ViewIsGood => ConsumerKnowsState
  BY DEF ViewIsGood
<1> QED
  BY <1>1, ViewGood, PTL

\* The lifecycle with its events still implements its caller's contract.
THEOREM EventsKeepContract == EventSpec => ImplementsContract
BY EventsKeepLifecycle, ContractIsKept, PTL

=============================================================================
