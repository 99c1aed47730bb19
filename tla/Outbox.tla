------------------------------- MODULE Outbox -------------------------------
(***************************************************************************)
(* Event delivery: transactions append events and outbox rows under a      *)
(* sequence number, publishers in several processes send the rows to a     *)
(* Redis stream and mark them in one transaction, retention deletes what   *)
(* was published, and an Agent reads the stream and closes gaps from the   *)
(* event history.  Redis may lose an answer, or carry out a command after  *)
(* the publisher gave up on it.                                            *)
(***************************************************************************)
EXTENDS Naturals, Sequences, FiniteSets, FiniteSetsExt, SequencesExt

CONSTANTS
    Executions,     \* aggregates
    Publishers,     \* processes that run an OutboxPublisher
    BatchSize,      \* batch_size
    MaxEvents,      \* bound: events of all Executions
    MaxFaults       \* bound: crashes, lost answers, failed publications

ASSUME BatchAssumption == BatchSize \in Nat \ {0}

VARIABLES
    events,     \* last_sequence of each Execution: its committed events
    outbox,     \* status of the outbox row of each event
    history,    \* sequence numbers execution_events still holds
    ended,      \* the Execution is terminal
    pub,        \* the open transaction of each publisher
    late,       \* XADDs the publisher gave up on that Redis may still run
    log,        \* every entry ever added to the stream
    agent,      \* the Agent's position in the stream and what it applied
    faults

vars ==
    <<events, outbox, history, ended, pub, late, log, agent, faults>>

tables == <<events, outbox, history, ended>>

Fault == faults < MaxFaults /\ faults' = faults + 1

Numbers(a) == 1 .. events[a]

\* Outbox rows as <<execution, event_sequence>>
Rows == UNION {{a} \X Numbers(a) : a \in Executions}

Status(e) == outbox[e[1]][e[2]]

\* WAITING is a PENDING row whose available_at lies in the future
Pending(e) == Status(e) \in {"PENDING", "WAITING"}

----------------------------------------------------------------------------
(* Writers: event_writer.                                                   *)

\* The sequence row is locked until commit, so numbers commit in order; the
\* clock of the writer may be ahead of the publisher's
Persist(a) ==
    /\ FoldSet(LAMBDA x, sum : events[x] + sum, 0, Executions) < MaxEvents
    /\ ~ended[a]
    /\ events' = [events EXCEPT ![a] = @ + 1]
    /\ \E status \in {"PENDING", "WAITING"} :
         outbox' = [outbox EXCEPT ![a] = Append(@, status)]
    /\ history' = [history EXCEPT ![a] = @ \cup {events[a] + 1}]
    /\ UNCHANGED <<pub, late, log, agent, faults>>

\* execution.started, the Operation's and the Steps' events
AddEvent(a) == Persist(a) /\ UNCHANGED ended

AddCompletedEvent(a) == Persist(a) /\ ended' = [ended EXCEPT ![a] = TRUE]

\* A FAILED Execution is retried
Reopen(a) ==
    /\ ended[a]
    /\ ended' = [ended EXCEPT ![a] = FALSE]
    /\ UNCHANGED <<events, outbox, history, pub, late, log, agent, faults>>

----------------------------------------------------------------------------
(* Publishers: one transaction that selects, publishes and marks.           *)

NoBatch ==
    [pc |-> "idle", batch |-> {}, sent |-> {}, failed |-> {}]

Locked(p) == UNION {pub[q].batch : q \in Publishers \ {p}}

Before(e, f) == e[1] = f[1] /\ e[2] < f[2]

\* Mutant: a row is a head as soon as it is available
AvailableRow(e) == Status(e) = "PENDING"

\* Available rows with no earlier PENDING row of the same Execution
IsHead(e) ==
    /\ Status(e) = "PENDING"
    /\ ~\E f \in Rows : Pending(f) /\ Before(f, e)

\* FOR UPDATE SKIP LOCKED, LIMIT batch_size
SelectHeads(p) ==
    /\ pub[p].pc = "idle"
    /\ LET heads == {e \in Rows : IsHead(e)} \ Locked(p)
       IN  /\ heads # {}
           /\ \E batch \in kSubset(Min({BatchSize, Cardinality(heads)}), heads) :
                pub' = [pub EXCEPT ![p].pc = "follow", ![p].batch = batch]
    /\ UNCHANGED <<tables, late, log, agent, faults>>

\* Rows behind a head of this batch with no unavailable row in between
Follows(e, heads) ==
    /\ Status(e) = "PENDING" /\ e \notin heads
    /\ \E f \in heads : f[1] = e[1]
    /\ ~\E f \in Rows \ heads : Before(f, e) /\ Status(f) = "WAITING"

\* Ordered by Execution and sequence number, so a prefix of each is taken
AppendFollowers(p) ==
    /\ pub[p].pc = "follow"
    /\ LET heads == pub[p].batch
           found == {e \in Rows : Follows(e, heads)} \ Locked(p)
           room == BatchSize - Cardinality(heads)
       IN  \E more \in kSubset(Min({room, Cardinality(found)}), found) :
             /\ \A e \in more, f \in found : Before(f, e) => f \in more
             /\ pub' = [pub EXCEPT ![p].pc = "publish",
                                   ![p].batch = heads \cup more]
    /\ UNCHANGED <<tables, late, log, agent, faults>>

\* blocked_aggregates
Blocked(p) == {e[1] : e \in pub[p].failed}

Remaining(p) ==
    {e \in pub[p].batch \ (pub[p].sent \cup pub[p].failed) : e[1] \notin Blocked(p)}

\* The batch is worked through in order within each Execution
IsNext(p, e) ==
    /\ pub[p].pc = "publish" /\ e \in Remaining(p)
    /\ ~\E f \in Remaining(p) : Before(f, e)

Publish(p, e) ==
    /\ IsNext(p, e)
    /\ log' = Append(log, e)
    /\ pub' = [pub EXCEPT ![p].sent = @ \cup {e}]
    /\ UNCHANGED <<tables, late, agent, faults>>

\* A timeout or a connection error ends the batch; Redis has run the XADD,
\* will still run it, or never does
PublishTimesOut(p, e) ==
    /\ IsNext(p, e) /\ Fault
    /\ \/ log' = Append(log, e) /\ UNCHANGED late
       \/ late' = late \cup {e} /\ UNCHANGED log
       \/ UNCHANGED <<log, late>>
    /\ pub' = [pub EXCEPT ![p].failed = @ \cup {e}, ![p].pc = "commit"]
    /\ UNCHANGED <<tables, agent>>

\* Any other exception blocks the Execution and goes on with the others
PublishRejected(p, e) ==
    /\ IsNext(p, e) /\ Fault
    /\ pub' = [pub EXCEPT ![p].failed = @ \cup {e}]
    /\ UNCHANGED <<tables, late, log, agent>>

\* Mutant: whatever was in the batch is marked
MarkedAll(p, e) == e \in pub[p].batch

Marked(p, e) == e \in pub[p].sent

CommitBatch(p) ==
    /\ \/ pub[p].pc = "commit"
       \/ pub[p].pc = "publish" /\ Remaining(p) = {}
    /\ outbox' = [a \in Executions |-> [n \in Numbers(a) |->
         CASE Marked(p, <<a, n>>) -> "PUBLISHED"
           [] ~Marked(p, <<a, n>>) /\ <<a, n>> \in pub[p].failed -> "WAITING"
           [] OTHER -> outbox[a][n]]]
    /\ pub' = [pub EXCEPT ![p] = NoBatch]
    /\ UNCHANGED <<events, history, ended, late, log, agent, faults>>

\* The process dies, or the commit fails: every mark is lost
Rollback(p) ==
    /\ pub[p].pc # "idle" /\ Fault
    /\ pub' = [pub EXCEPT ![p] = NoBatch]
    /\ UNCHANGED <<tables, late, log, agent>>

----------------------------------------------------------------------------
(* Redis and time.                                                          *)

LateAdd(e) ==
    /\ e \in late
    /\ late' = late \ {e}
    /\ log' = Append(log, e)
    /\ UNCHANGED <<tables, pub, agent, faults>>

Available(e) ==
    /\ Status(e) = "WAITING" /\ e \notin UNION {pub[p].batch : p \in Publishers}
    /\ outbox' = [outbox EXCEPT ![e[1]][e[2]] = "PENDING"]
    /\ UNCHANGED <<events, history, ended, pub, late, log, agent, faults>>

\* MAXLEN of an XADD, or trim_before of a retention pass, removes an entry
\* from the head of the stream before the Agent has read it
Trim ==
    /\ agent.read < Len(log)
    /\ agent' = [agent EXCEPT !.read = @ + 1]
    /\ UNCHANGED <<tables, pub, late, log, faults>>

DeletePublishedOutbox(e) ==
    /\ Status(e) = "PUBLISHED"
    /\ outbox' = [outbox EXCEPT ![e[1]][e[2]] = "DELETED"]
    /\ UNCHANGED <<events, history, ended, pub, late, log, agent, faults>>

\* Terminal long enough, and no outbox row refers to the event
Deletable(e) == ended[e[1]] /\ Status(e) = "DELETED"

DeleteExecutionEvents(e) ==
    /\ e[2] \in history[e[1]] /\ Deletable(e)
    /\ history' = [history EXCEPT ![e[1]] = @ \ {e[2]}]
    /\ UNCHANGED <<events, outbox, ended, pub, late, log, agent, faults>>

----------------------------------------------------------------------------
(* The Agent: ExecutionEventWaiter.                                         *)

LastSequence(a) == Len(agent.applied[a])

\* An entry that follows, one seen before, or one behind a gap that the
\* history closes: the missing range is applied first
Applied(a, n) ==
    IF n <= LastSequence(a) THEN agent.applied[a]
    ELSE agent.applied[a] \o [i \in 1 .. n - LastSequence(a) |-> LastSequence(a) + i]

Read ==
    LET position == agent.read + 1
    IN  /\ position <= Len(log) /\ ~agent.stuck
        /\ LET a == log[position][1]
               n == log[position][2]
               missing == (LastSequence(a) + 1 .. n - 1) \ history[a]
           IN  agent' =
                 IF missing = {}
                 THEN [agent EXCEPT !.read = position,
                                    !.applied[a] = Applied(a, n)]
                 ELSE [agent EXCEPT !.stuck = TRUE]
        /\ UNCHANGED <<tables, pub, late, log, faults>>

----------------------------------------------------------------------------
Init ==
    /\ events = [a \in Executions |-> 0]
    /\ outbox = [a \in Executions |-> <<>>]
    /\ history = [a \in Executions |-> {}]
    /\ ended = [a \in Executions |-> FALSE]
    /\ pub = [p \in Publishers |-> NoBatch]
    /\ late = {}
    /\ log = <<>>
    /\ agent = [read |-> 0, applied |-> [a \in Executions |-> <<>>],
                stuck |-> FALSE]
    /\ faults = 0

Writer(a) ==
    AddEvent(a) \/ AddCompletedEvent(a) \/ Reopen(a)

PublisherStep(p) ==
    \/ SelectHeads(p) \/ AppendFollowers(p) \/ CommitBatch(p)
    \/ \E e \in Rows : Publish(p, e)

PublisherFault(p) ==
    \/ Rollback(p)
    \/ \E e \in Rows : PublishTimesOut(p, e) \/ PublishRejected(p, e)

Retention ==
    \/ Trim
    \/ \E e \in Rows : DeletePublishedOutbox(e) \/ DeleteExecutionEvents(e)

Next ==
    \/ \E a \in Executions : Writer(a)
    \/ \E p \in Publishers : PublisherStep(p) \/ PublisherFault(p)
    \/ \E e \in Rows : Available(e) \/ LateAdd(e)
    \/ Retention
    \/ Read

\* Every process polls for ever, and a back-off ends
Fairness ==
    /\ \A p \in Publishers : WF_vars(PublisherStep(p))
    /\ WF_vars(\E e \in Rows : Available(e))

Spec == Init /\ [][Next]_vars /\ Fairness

----------------------------------------------------------------------------
(* Properties.                                                              *)

Landed(a) == {n \in Numbers(a) : Contains(log, <<a, n>>)}

Delivered(a) == Max(Landed(a) \cup {0})

\* A row is marked, and an event may be forgotten by retention, only after the
\* stream has held the event: neither a lost answer nor a crash between XADD and
\* commit turns an unpublished event into a published or deleted one.  So the
\* Agent applies the events of an Execution once each, in order and without a
\* hole, whatever is repeated, late or trimmed before it reads.
NothingIsForgotten ==
    /\ \A e \in Rows :
         ~Pending(e) \/ e[2] \notin history[e[1]] => e[2] \in Landed(e[1])
    /\ \A a \in Executions :
         \A i \in 1 .. LastSequence(a) : agent.applied[a][i] = i

Stream == INSTANCE EventStream WITH
    committed <- events,
    delivered <- [a \in Executions |-> Delivered(a)]

\* Delivery keeps what EventStream promises: first appearances in sequence order
\* per Execution with none left out, and every committed event appears in the end.
ImplementsEventStream == Stream!Spec

=============================================================================
