------------------------------ MODULE Commands ------------------------------
(***************************************************************************)
(* The command side of the API: concurrent REST and MCP handlers that      *)
(* submit, append to, finalize, cancel and retry Executions under          *)
(* idempotency keys.  A handler authorizes and validates its request,      *)
(* looks for the receipt of an earlier one, and then writes in one         *)
(* transaction that locks the execution row.  The lookup and the write are *)
(* two steps: another handler, or a Worker, may commit in between.         *)
(***************************************************************************)
EXTENDS Naturals, Sequences, FiniteSets, SequencesExt

CONSTANTS
    Calls,                  \* handlers that may be in flight at once
    Requests,               \* the requests callers send, and send again
    Contents,               \* contents a PATH source file may have
    Profiles,               \* runtime profiles of the configured offerings
    Stateful,               \* ... whose runtime keeps a session's state
    NoRequest,              \* the request of an idle handler
    MaxStepsPerOperation,   \* max_steps_per_operation
    MaxStepsPerExecution,   \* max_steps_per_execution
    MaxExecutions,          \* bound: Executions ever submitted
    MaxVersion              \* bound: versions of all Executions together

ASSUME StepLimitsAssumption ==
    /\ MaxStepsPerOperation \in Nat \ {0}
    /\ MaxStepsPerExecution \in Nat
    /\ MaxStepsPerExecution >= MaxStepsPerOperation

CommandType == {"submit", "operation", "finalize", "cancel", "retry"}

\* The fields of all commands together; "none" stands for no key
Request ==
    [type : CommandType, tenant : STRING, user : STRING,
     key : STRING \ {"none"}, exec : Nat, version : Nat,
     mode : {"SINGLE", "MULTI"}, wait : BOOLEAN, trigger : STRING,
     profile : STRING, first : Nat, count : Nat, blank : BOOLEAN,
     overlong : BOOLEAN, source : {"INLINE", "PATH"}, sha : STRING]

ASSUME RequestsAssumption == Requests \subseteq Request

VARIABLES
    execs,      \* the execution rows with their children, in commit order
    call,       \* one record for every handler
    file        \* the content of the PATH source file on the shared volume

vars == <<execs, call, file>>

----------------------------------------------------------------------------
(* Requests.                                                                *)

\* Everything but the key, the caller's identity included
Fingerprint(r) == [r EXCEPT !.key = "none"]

Carries(r) == r.type \in {"submit", "operation"}

\* A PATH source is read again, and hashed, for every repeat of a request
PathReads(r) == r.sha = file

\* ExecutionSpec.validate_steps and the resolver's limit
SpecValid(r) == r.count \in 1 .. MaxStepsPerOperation /\ ~r.blank

LifecycleValid(r) ==
    /\ (r.mode = "MULTI") <=> r.wait
    /\ r.mode = "MULTI" => r.trigger = "INTERACTIVE"

WithinLimits(current, r) ==
    /\ r.count <= MaxStepsPerOperation
    /\ current + r.count <= MaxStepsPerExecution

\* validate_timeouts: no limit beyond the maximum runtime of an Execution
TimeoutsValid(r) == ~r.overlong

StepsValid(r, start) == r.count > 0 /\ ~r.blank /\ r.first = start

OfferingServes(r) ==
    /\ r.profile \in Profiles
    /\ r.mode = "MULTI" => r.profile \in Stateful

SubmitValid(r) ==
    /\ LifecycleValid(r)
    /\ StepsValid(r, 0)
    /\ WithinLimits(0, r)
    /\ TimeoutsValid(r)
    /\ OfferingServes(r)

\* authorize_execution(write=True)
Authorized(r) ==
    r.type # "submit" =>
        /\ r.exec \in DOMAIN execs
        /\ execs[r.exec].tenant = r.tenant
        /\ execs[r.exec].user = r.user

----------------------------------------------------------------------------
(* What the tables say about a key.                                         *)

\* get_by_submit_key: 0 when no Execution of the tenant has the key
SubmitKeyOwner(r) ==
    LET owners == {e \in DOMAIN execs :
                     execs[e].tenant = r.tenant /\ execs[e].key = r.key}
    IN  IF owners = {} THEN 0 ELSE CHOOSE e \in owners : TRUE

\* get_operation_id_by_key: the operation_number of the key, 0 for none
OperationByKey(e, key) ==
    LET numbers == {n \in DOMAIN execs[e].ops : execs[e].ops[n].key = key}
    IN  IF numbers = {} THEN 0 ELSE CHOOSE n \in numbers : TRUE

ReceiptsFor(e, key) == {x \in execs[e].receipts : x.key = key}

\* The effect of this very request is in the database
Applied(r) ==
    CASE r.type = "submit" ->
           SubmitKeyOwner(r) # 0 /\ execs[SubmitKeyOwner(r)].fp = Fingerprint(r)
      [] r.type \in {"operation", "finalize"} ->
           /\ r.exec \in DOMAIN execs
           /\ \E x \in ReceiptsFor(r.exec, r.key) : x.fp = Fingerprint(r)
      [] r.type = "retry" ->
           r.exec \in DOMAIN execs /\ Contains(execs[r.exec].retries, r.key)
      [] r.type = "cancel" ->
           r.exec \in DOMAIN execs /\ execs[r.exec].cancelKey = r.key

----------------------------------------------------------------------------
(* Handlers.                                                                *)

Idle ==
    [pc |-> "idle", req |-> NoRequest, repeat |-> FALSE,
     answer |-> "none", exec |-> 0, op |-> 0]

Refuse(c, error) ==
    call' = [call EXCEPT ![c] = [Idle EXCEPT !.pc = "done", !.answer = error]]

Answer(c, e, n) ==
    call' = [call EXCEPT ![c] = [Idle EXCEPT !.pc = "done", !.answer = "OK",
                                             !.exec = e, !.op = n]]

\* What a request must satisfy whatever the tables and the files hold
Admissible(r) ==
    /\ Carries(r) => SpecValid(r)
    /\ r.type = "submit" => SubmitValid(r)

SourceReads(r) == Carries(r) /\ r.source = "PATH" => PathReads(r)

\* repeat remembers that an earlier call already did it
Accept(c, r) ==
    call' = [call EXCEPT ![c] =
        [Idle EXCEPT !.pc = "lookup", !.req = r, !.repeat = Applied(r)]]

\* submit_execution: the sources are resolved before the service is called
SubmitRoute(c, r) ==
    /\ r.type = "submit"
    /\ IF SourceReads(r) /\ Admissible(r)
       THEN Accept(c, r)
       ELSE Refuse(c, "INVALID")

\* create_operation, finalize_execution, cancel_execution, retry_execution:
\* the row must be the caller's, and an Operation's sources are resolved
CommandRoute(c, r) ==
    /\ r.type # "submit"
    /\ IF ~Authorized(r) THEN Refuse(c, "NOT_FOUND")
       ELSE IF SourceReads(r) /\ Admissible(r) THEN Accept(c, r)
       ELSE Refuse(c, "INVALID")

\* A request arrives, over HTTP or as the MCP tool that takes the same steps
Receive(c, r) ==
    /\ call[c].pc \in {"idle", "done"}
    /\ SubmitRoute(c, r) \/ CommandRoute(c, r)
    /\ UNCHANGED <<execs, file>>

\* submit: an earlier Execution under the key must be the same request
AnswerSubmitKey(c, e) ==
    IF execs[e].fp = Fingerprint(call[c].req)
    THEN Answer(c, e, OperationByKey(e, call[c].req.key))
    ELSE Refuse(c, "IDEMPOTENCY_CONFLICT")

AnswerReceipt(c, x) ==
    IF x.type = call[c].req.type /\ x.fp = Fingerprint(call[c].req)
    THEN Answer(c, call[c].req.exec, x.op)
    ELSE Refuse(c, "IDEMPOTENCY_CONFLICT")

\* What the first transaction of the command finds under the key
Repeated(c) ==
    LET r == call[c].req
    IN  \/ /\ r.type = "submit" /\ SubmitKeyOwner(r) # 0
           /\ AnswerSubmitKey(c, SubmitKeyOwner(r))
        \/ /\ r.type \in {"operation", "finalize"}
           /\ \E x \in ReceiptsFor(r.exec, r.key) : AnswerReceipt(c, x)
        \/ /\ r.type = "cancel" /\ execs[r.exec].cancelKey = r.key
           /\ Answer(c, r.exec, 0)
        \/ /\ r.type = "retry" /\ Contains(execs[r.exec].retries, r.key)
           /\ Answer(c, r.exec, Len(execs[r.exec].ops))

\* Mutant: only a submit looks for its key before it writes
OnlySubmitLooks(r) == r.type = "submit" /\ SubmitKeyOwner(r) # 0

KeyIsKnown(r) ==
    CASE r.type = "submit" -> SubmitKeyOwner(r) # 0
      [] r.type \in {"operation", "finalize"} -> ReceiptsFor(r.exec, r.key) # {}
      [] r.type = "cancel" -> execs[r.exec].cancelKey = r.key
      [] r.type = "retry" -> Contains(execs[r.exec].retries, r.key)

Lookup(c) ==
    /\ call[c].pc = "lookup"
    /\ IF KeyIsKnown(call[c].req)
       THEN Repeated(c)
       ELSE call' = [call EXCEPT ![c].pc = "write"]
    /\ UNCHANGED <<execs, file>>

----------------------------------------------------------------------------
(* The write of each command: one transaction.                              *)

NewOperation(r) ==
    [key |-> r.key, fp |-> Fingerprint(r), first |-> r.first,
     last |-> r.first + r.count - 1, status |-> "QUEUED"]

NewExecution(r) ==
    [tenant |-> r.tenant, user |-> r.user, key |-> r.key,
     fp |-> Fingerprint(r), mode |-> r.mode, status |-> "QUEUED",
     version |-> 0, steps |-> r.count, ops |-> <<NewOperation(r)>>,
     receipts |-> {}, retries |-> <<>>, retryCount |-> 0,
     cancelKey |-> "none", retryable |-> FALSE, finReq |-> FALSE]

Save(e, row) ==
    execs' = [execs EXCEPT ![e] = [row EXCEPT !.version = execs[e].version + 1]]

\* add_operation flushes, so a key taken since the lookup is an
\* IntegrityError that no handler translates
WriteSubmit(c) ==
    LET r == call[c].req
    IN  /\ call[c].pc = "write" /\ r.type = "submit"
        /\ IF SubmitKeyOwner(r) # 0
           THEN Refuse(c, "INTERNAL_ERROR") /\ UNCHANGED execs
           ELSE /\ Len(execs) < MaxExecutions
                /\ execs' = Append(execs, NewExecution(r))
                /\ Answer(c, Len(execs) + 1, 1)
        /\ UNCHANGED file

LastOperation(x) == x.ops[Len(x.ops)]

\* request_operation and request_finalization: state first, then version
Refusal(x, r) ==
    CASE x.mode # "MULTI" \/ x.status # "WAITING_FOR_OPERATION" -> "INVALID_STATE"
      [] x.mode = "MULTI" /\ x.status = "WAITING_FOR_OPERATION"
           /\ x.version # r.version -> "VERSION_CONFLICT"
      [] OTHER -> "none"

Receipt(r, n) ==
    [key |-> r.key, type |-> r.type, fp |-> Fingerprint(r), op |-> n,
     version |-> r.version]

\* The receipt's unique key is checked last, by the commit
WriteOperation(c) ==
    LET r == call[c].req
        x == execs[r.exec]
        n == Len(x.ops) + 1
    IN  /\ call[c].pc = "write" /\ r.type = "operation"
        /\ \/ /\ Refusal(x, r) # "none"
              /\ Refuse(c, Refusal(x, r)) /\ UNCHANGED execs
           \/ /\ Refusal(x, r) = "none"
              /\ ~(WithinLimits(x.steps, r) /\ TimeoutsValid(r)
                     /\ StepsValid(r, x.steps))
              /\ Refuse(c, "INVALID") /\ UNCHANGED execs
           \/ /\ Refusal(x, r) = "none"
              /\ WithinLimits(x.steps, r) /\ TimeoutsValid(r)
              /\ StepsValid(r, x.steps)
              /\ IF OperationByKey(r.exec, r.key) # 0
                 THEN Refuse(c, "INTERNAL_ERROR") /\ UNCHANGED execs
                 ELSE /\ Save(r.exec, [x EXCEPT
                           !.status = "QUEUED", !.finReq = FALSE,
                           !.steps = @ + r.count,
                           !.ops = Append(@, NewOperation(r)),
                           !.receipts = @ \cup {Receipt(r, n)}])
                      /\ Answer(c, r.exec, n)
        /\ UNCHANGED file

WriteFinalize(c) ==
    LET r == call[c].req
        x == execs[r.exec]
    IN  /\ call[c].pc = "write" /\ r.type = "finalize"
        /\ \/ /\ Refusal(x, r) # "none"
              /\ Refuse(c, Refusal(x, r)) /\ UNCHANGED execs
           \/ /\ Refusal(x, r) = "none" /\ LastOperation(x).status # "SUCCEEDED"
              /\ Refuse(c, "INVALID_STATE") /\ UNCHANGED execs
           \/ /\ Refusal(x, r) = "none" /\ LastOperation(x).status = "SUCCEEDED"
              /\ IF ReceiptsFor(r.exec, r.key) # {}
                 THEN /\ call' = [call EXCEPT ![c].pc = "resolve"]
                      /\ UNCHANGED execs
                 ELSE /\ Save(r.exec, [x EXCEPT
                           !.status = "FINALIZING", !.finReq = TRUE,
                           !.receipts = @ \cup {Receipt(r, 0)}])
                      /\ Answer(c, r.exec, 0)
        /\ UNCHANGED file

Terminal == {"SUCCEEDED", "FAILED", "CANCELLED"}

\* A cancellation that is under way is answered, its key is not recorded
WriteCancel(c) ==
    LET r == call[c].req
        x == execs[r.exec]
    IN  /\ call[c].pc = "write" /\ r.type = "cancel"
        /\ \/ /\ x.status = "CANCEL_REQUESTED"
              /\ Answer(c, r.exec, 0) /\ UNCHANGED execs
           \/ /\ x.status \in Terminal
              /\ Refuse(c, "INVALID_STATE") /\ UNCHANGED execs
           \/ /\ x.status \notin Terminal \cup {"CANCEL_REQUESTED"}
              /\ Save(r.exec, [x EXCEPT !.status = "CANCEL_REQUESTED",
                                        !.cancelKey = r.key])
              /\ Answer(c, r.exec, 0)
        /\ UNCHANGED file

Retryable(x) == x.status = "FAILED" /\ x.mode = "SINGLE" /\ x.retryable

\* Mutant: the commit does not find the key of a retry made since the lookup
RetryKeyUnseen(x, r) == FALSE

\* uq (execution_id, idempotency_key) of execution_retries
RetryKeyTaken(x, r) == Contains(x.retries, r.key)

WriteRetry(c) ==
    LET r == call[c].req
        x == execs[r.exec]
    IN  /\ call[c].pc = "write" /\ r.type = "retry"
        /\ \/ /\ ~Retryable(x)
              /\ Refuse(c, "INVALID_STATE") /\ UNCHANGED execs
           \/ /\ Retryable(x) /\ RetryKeyTaken(x, r)
              /\ call' = [call EXCEPT ![c].pc = "resolve"] /\ UNCHANGED execs
           \/ /\ Retryable(x) /\ ~RetryKeyTaken(x, r)
              /\ Save(r.exec, [x EXCEPT
                   !.status = "QUEUED", !.retryCount = @ + 1,
                   !.retries = Append(@, r.key),
                   !.ops[Len(x.ops)].status = "QUEUED"])
              /\ Answer(c, r.exec, Len(x.ops))
        /\ UNCHANGED file

\* After a PersistenceConflictError: a second transaction reads the receipt
Resolve(c) ==
    /\ call[c].pc = "resolve"
    /\ Repeated(c)
    /\ UNCHANGED <<execs, file>>

\* The process stops; an open transaction is rolled back
Crash(c) ==
    /\ call[c].pc \notin {"idle", "done"}
    /\ call' = [call EXCEPT ![c] = Idle]
    /\ UNCHANGED <<execs, file>>

----------------------------------------------------------------------------
(* Workers and the maximum-runtime audit, from the status table; and the    *)
(* callers' files.                                                          *)

WorkerTransitions(x) ==
    CASE x.status = "QUEUED" -> {"RUNNING", "FAILED", "CANCEL_REQUESTED"}
      [] x.status = "RUNNING" ->
           {"FAILED", "CANCEL_REQUESTED"} \cup
           (IF x.mode = "SINGLE" THEN {"SUCCEEDED", "QUEUED"}
            ELSE IF x.finReq THEN {"SUCCEEDED"} ELSE {"WAITING_FOR_OPERATION"})
      [] x.status = "WAITING_FOR_OPERATION" ->
           IF LastOperation(x).status = "SUCCEEDED" THEN {"FAILED", "FINALIZING"}
           ELSE {"FAILED"}
      [] x.status = "FINALIZING" -> {"RUNNING", "FAILED", "CANCEL_REQUESTED"}
      [] x.status = "CANCEL_REQUESTED" -> {"CANCELLED", "FAILED"}
      [] OTHER -> {}

\* The Operation that is still open takes the ending of its run
OperationOutcomes(x, status) ==
    CASE LastOperation(x).status \notin {"QUEUED", "RUNNING"}
           \/ status = "CANCEL_REQUESTED" -> {LastOperation(x).status}
      [] LastOperation(x).status \in {"QUEUED", "RUNNING"}
           /\ status = "WAITING_FOR_OPERATION" -> {"SUCCEEDED", "FAILED"}
      [] OTHER -> {status}

TotalVersion == FoldSeq(LAMBDA x, total : x.version + total, 0, execs)

\* A claim, the end of a run, an audit or a cancellation
WorkerMoves(e) ==
    LET x == execs[e]
    IN  /\ TotalVersion < MaxVersion
        /\ \E status \in WorkerTransitions(x), again \in BOOLEAN :
             /\ again => /\ status = "FAILED" /\ x.status = "RUNNING"
                         /\ x.mode = "SINGLE"
             /\ \E outcome \in OperationOutcomes(x, status) :
                  Save(e, [x EXCEPT !.status = status, !.retryable = again,
                                    !.finReq = @ \/ status = "FINALIZING",
                                    !.ops[Len(x.ops)].status = outcome])
    /\ UNCHANGED <<call, file>>

CallerEditsFile(content) ==
    /\ content # file
    /\ file' = content
    /\ UNCHANGED <<execs, call>>

----------------------------------------------------------------------------
Init ==
    /\ execs = <<>>
    /\ call = [c \in Calls |-> Idle]
    /\ file \in Contents

Write(c) ==
    \/ WriteSubmit(c) \/ WriteOperation(c) \/ WriteFinalize(c)
    \/ WriteCancel(c) \/ WriteRetry(c)

Next ==
    \/ \E c \in Calls, r \in Requests : Receive(c, r)
    \/ \E c \in Calls : Lookup(c) \/ Write(c) \/ Resolve(c) \/ Crash(c)
    \/ \E e \in DOMAIN execs : WorkerMoves(e)
    \/ \E content \in Contents : CallerEditsFile(content)

Spec == Init /\ [][Next]_vars

----------------------------------------------------------------------------
(* Properties.                                                              *)

Answered(c) == call[c].req # NoRequest /\ call'[c].pc = "done"

\* What an answer to call c must be
AnswersItsRequest(c) ==
    LET r == call[c].req
        x == execs'[call'[c].exec]
    IN  /\ call[c].repeat => call'[c].answer = "OK"
        /\ call'[c].answer = "OK" =>
             /\ x.tenant = r.tenant /\ x.user = r.user
             /\ r.type # "submit" => call'[c].exec = r.exec
             /\ Carries(r) =>
                  /\ x.ops[call'[c].op].key = r.key
                  /\ x.ops[call'[c].op].fp = Fingerprint(r)
             /\ r.type = "finalize" =>
                  \E y \in x.receipts : y.key = r.key /\ y.fp = Fingerprint(r)
             /\ r.type = "retry" => Contains(x.retries, r.key)

TurnedAway(c) == call[c].req = NoRequest /\ call'[c].pc = "done" /\ call' # call

\* It was the caller's own request, which had been committed before
WasRepeat(c, r) == Applied(r) /\ Authorized(r) /\ Receive(c, r)

\* A caller that repeats a command whose effect was committed before the repeat
\* arrived gets the Execution and the Operation the first call made, whatever
\* Workers and other callers did since (ensure_same_receipt, get_by_submit_key,
\* get_by_cancel_key, get_by_retry_key), with one exception: the sources are
\* resolved before the key is looked up, so a repeat whose PATH file no longer
\* has the sha256 it names is refused like a new request.  And no success names
\* what another request left under a reused key.
RepeatGetsItsEffect ==
    [][\A c \in Calls :
         /\ Answered(c) => AnswersItsRequest(c)
         /\ TurnedAway(c) =>
              \A r \in Requests : WasRepeat(c, r) => ~SourceReads(r)]_vars

\* However often and however late a command is repeated it takes effect once: a
\* tenant's submit key names one Execution, an Operation key one Operation, an
\* Execution is retried exactly once for every retry receipt, and of the Agents
\* that saw one version at most one decides it (expected_version).
OneEffectPerKey ==
    /\ \A d, e \in DOMAIN execs :
         execs[d].tenant = execs[e].tenant /\ execs[d].key = execs[e].key => d = e
    /\ \A e \in DOMAIN execs :
         /\ IsInjective(execs[e].retries)
         /\ execs[e].retryCount = Len(execs[e].retries)
         /\ IsInjective([n \in DOMAIN execs[e].ops |-> execs[e].ops[n].key])
         /\ \A x, y \in execs[e].receipts : x.version = y.version => x = y

=============================================================================
