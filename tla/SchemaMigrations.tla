-------------------------- MODULE SchemaMigrations --------------------------
(***************************************************************************)
(* The Alembic revisions 0001 to 0015 as a state machine over a database   *)
(* that holds rows: an operator (or a starting process) upgrades and       *)
(* downgrades, and the program writes rows the current schema accepts.     *)
(*                                                                         *)
(* A command is one transaction under the advisory lock that all releases  *)
(* share (db/migrations.py), and no other process writes meanwhile: every  *)
(* destructive revision asks for drained Pods.  So a command is one step,  *)
(* and a refused one leaves everything as it was.                          *)
(*                                                                         *)
(* Rows are there for what a revision reads, rewrites or may refuse; one   *)
(* sample row stands for all rows that the revisions do not tell apart.    *)
(***************************************************************************)
EXTENDS SchemaBaseline, SchemaModels

CONSTANTS MaxRows               \* bound: rows in the database
ASSUME MaxRowsAssumption == MaxRows \in Nat

VARIABLES rev,                  \* alembic_version: 0 before 0001
          schema,
          rows

vars == <<rev, schema, rows>>

HeadRevision == 15              \* EXPECTED_SCHEMA_REVISION

-----------------------------------------------------------------------------
(* 0002 to 0006.                                                           *)

ExecutionDiagnostics0002 ==
    WithActor(
     [columns |-> Columns({"id", "execution_id", "fencing_token", "detail",
                           "occurred_at", "created_at", "updated_at"},
                          {"attempt_id", "operation_id", "step_id",
                           "step_sequence"}),
      checks |->  "positive_fencing_token" :> AtLeast("fencing_token", 1) @@
                  "nonnegative_step_sequence" :>
                        NullOrAtLeast("step_sequence", 0),
      uniques |-> Nothing,
      refs |->    "execution_id" :> Ref("executions", "CASCADE"),
      indexes |-> "diagnostics_execution_cursor" :>
                        {"execution_id", "created_at", "id"} @@
                  "diagnostics_attempt_cursor" :>
                        {"execution_id", "attempt_id", "created_at", "id"}])

Upgrade0002 ==
    << CreateTable("execution_diagnostics", ExecutionDiagnostics0002) >>
Downgrade0002 == << DropTable("execution_diagnostics") >>

\* _OLD_VALUES of 0003.
FailureTypes0001 ==
    {"TOOL_ERROR", "INFRASTRUCTURE_ERROR", "WORKER_SHUTDOWN",
     "RUNTIME_UNAVAILABLE", "LEASE_EXPIRED", "INTERNAL_ERROR",
     "OPERATION_WAIT_TIMEOUT", "OPERATION_TIMEOUT", "STEP_TIMEOUT",
     "EXECUTION_TIMEOUT", "OUTPUT_LIMIT_EXCEEDED", "RUNTIME_SESSION_LOST"}

FailureTypes0003 == FailureTypes0001 \cup {"COMPLETION_FAILED"}

ReplaceCheck(t, n, check) == << DropCheck(t, n), AddCheck(t, n, check) >>

ReplaceFailureTypes(values) ==
    ReplaceCheck("executions", "valid_failure_type",
                 NullOrIn("failure_type", values))
    \o ReplaceCheck("execution_attempts", "valid_attempt_failure_type",
                    NullOrIn("failure_type", values))

Upgrade0003 == ReplaceFailureTypes(FailureTypes0003)
Downgrade0003 == ReplaceFailureTypes(FailureTypes0001)

OverTables(tables, Program(_)) ==
    FlattenSeq([i \in 1..Len(tables) |-> Program(tables[i])])

TracedTables == <<"executions", "execution_events", "outbox_events">>
DropTrace(t) == << DropColumn(t, "traceparent"), DropColumn(t, "tracestate") >>
AddTrace(t) == << AddColumn(t, "traceparent"), AddColumn(t, "tracestate") >>

Upgrade0004 == OverTables(TracedTables, DropTrace)
Downgrade0004 == OverTables(Reverse(TracedTables), AddTrace)

Upgrade0005 ==
    << DropRef("executions", "runtime_target_id"),
       DropRef("execution_attempts", "runtime_target_id"),
       DropUnique("runtime_target_purges", "idempotency_key"),
       DropColumn("runtime_target_purges", "idempotency_key"),
       DropColumn("runtime_target_purges", "request_fingerprint") >>

\* The explicit look for purged Targets refuses what AddRef would refuse.
Downgrade0005 ==
    << AddColumn("runtime_target_purges", "idempotency_key"),
       AddColumn("runtime_target_purges", "request_fingerprint"),
       Sql("runtime_target_purges", "restore_purge_keys"),
       SetNotNull("runtime_target_purges", "idempotency_key"),
       SetNotNull("runtime_target_purges", "request_fingerprint"),
       AddUnique("runtime_target_purges", "idempotency_key",
                 {"idempotency_key"}),
       AddRef("executions", "runtime_target_id", "runtime_targets",
              "NO_ACTION"),
       AddRef("execution_attempts", "runtime_target_id", "runtime_targets",
              "NO_ACTION") >>

ExecutionStepRuns0006 ==
     [columns |-> Columns({"execution_step_attempt_id", "execution_id",
                           "request_id", "artifact_baseline", "created_at"},
                          {"submitted_at"}),
      checks |->  Nothing,
      uniques |-> "request_id" :> {"request_id"},
      refs |->    "execution_step_attempt_id" :>
                        Ref("execution_step_attempts", "CASCADE") @@
                  "execution_id" :> Ref("executions", "CASCADE"),
      indexes |-> "execution_id" :> {"execution_id"}]

ExecutionHandovers0006 ==
     [columns |-> Columns({"execution_id", "reason", "paused_since",
                           "created_at"}, {}),
      checks |->  Nothing,
      uniques |-> Nothing,
      refs |->    "execution_id" :> Ref("executions", "CASCADE"),
      indexes |-> Nothing]

Upgrade0006 ==
    << CreateTable("execution_step_runs", ExecutionStepRuns0006),
       CreateTable("execution_handovers", ExecutionHandovers0006) >>
Downgrade0006 ==
    << DropTable("execution_handovers"), DropTable("execution_step_runs") >>

-----------------------------------------------------------------------------
(* 0007 to 0012.                                                           *)

Upgrade0007 ==
    << AddColumn("executions", "tenant_id"),
       AddIndex("executions", "tenant_created_cursor",
                {"tenant_id", "created_at", "id"}),
       DropNotNull("executions", "task_id") >>
Downgrade0007 ==
    << SetNotNull("executions", "task_id"),
       DropIndex("executions", "tenant_created_cursor"),
       DropColumn("executions", "tenant_id") >>

\* The loop's look for a shared endpoint refuses what AddUnique would refuse.
Upgrade0008 ==
    << AddColumn("runtime_targets", "connection_key"),
       Sql("runtime_targets", "normalize_endpoints"),
       SetNotNull("runtime_targets", "connection_key"),
       AddUnique("runtime_targets", "connection_key", {"connection_key"}) >>
Downgrade0008 ==
    << DropUnique("runtime_targets", "connection_key"),
       DropColumn("runtime_targets", "connection_key") >>

Upgrade0009 == << DropColumn("executions", "cancellation_heartbeat_at") >>
Downgrade0009 == << AddColumn("executions", "cancellation_heartbeat_at") >>

SequenceColumns == {"aggregate_type", "aggregate_id", "event_sequence"}

\* The pending index is recreated for its WHERE clause, which is left out.
Upgrade0010 ==
    << Sql("outbox_events", "delete_work"),
       DropCheck("outbox_events", "valid_outbox_content"),
       DropCheck("outbox_events", "valid_outbox_destination"),
       DropUnique("outbox_events", "outbox_aggregate_event_sequence"),
       DropIndex("outbox_events", "outbox_pending_event_order"),
       DropIndex("outbox_events", "outbox_execution_cursor"),
       DropColumn("outbox_events", "destination"),
       DropColumn("outbox_events", "payload"),
       SetNotNull("outbox_events", "event_sequence"),
       SetNotNull("outbox_events", "execution_event_id"),
       AddCheck("outbox_events", "valid_outbox_sequence",
                AtLeast("event_sequence", 1)),
       AddUnique("outbox_events", "outbox_aggregate_event_sequence",
                 SequenceColumns),
       AddIndex("outbox_events", "outbox_pending_event_order",
                SequenceColumns) >>

\* Mutant of Downgrade0010: the cursor index is not created again.
Downgrade0010NoCursor ==
    << DropIndex("outbox_events", "outbox_pending_event_order"),
       DropUnique("outbox_events", "outbox_aggregate_event_sequence"),
       DropCheck("outbox_events", "valid_outbox_sequence"),
       DropNotNull("outbox_events", "execution_event_id"),
       DropNotNull("outbox_events", "event_sequence"),
       AddColumn("outbox_events", "payload"),
       AddRequired("outbox_events", "destination", "EVENTS"),
       AddIndex("outbox_events", "outbox_pending_event_order",
                SequenceColumns) >>

Downgrade0010 ==
    << DropIndex("outbox_events", "outbox_pending_event_order"),
       DropUnique("outbox_events", "outbox_aggregate_event_sequence"),
       DropCheck("outbox_events", "valid_outbox_sequence"),
       DropNotNull("outbox_events", "execution_event_id"),
       DropNotNull("outbox_events", "event_sequence"),
       AddColumn("outbox_events", "payload"),
       AddRequired("outbox_events", "destination", "EVENTS"),
       AddIndex("outbox_events", "outbox_execution_cursor", SequenceColumns),
       AddIndex("outbox_events", "outbox_pending_event_order",
                SequenceColumns),
       AddUnique("outbox_events", "outbox_aggregate_event_sequence",
                 SequenceColumns \cup {"destination"}),
       AddCheck("outbox_events", "valid_outbox_destination",
                In("destination", {"WORK", "EVENTS"})),
       AddCheck("outbox_events", "valid_outbox_content",
                Rule("OutboxContent")) >>

Upgrade0011 ==
    << DropIndex("executions", "task_created_cursor"),
       DropIndex("executions", "task_id"),
       DropColumn("executions", "task_id"),
       DropColumn("executions", "workflow_id"),
       Sql("execution_events", "strip_task_context") >>
Downgrade0011 ==
    << AddColumn("executions", "workflow_id"),
       AddColumn("executions", "task_id"),
       AddIndex("executions", "task_id", {"task_id"}),
       AddIndex("executions", "task_created_cursor",
                {"task_id", "created_at", "id"}) >>

Upgrade0012 == << SetNotNull("executions", "tenant_id") >>
Downgrade0012 == << DropNotNull("executions", "tenant_id") >>

-----------------------------------------------------------------------------
(* 0013 to 0015.                                                           *)

FailureTypes0013 == FailureTypes0003 \cup {"QUEUE_TIMEOUT"}

\* Mutant of Upgrade0013: the new failure type is not added to Executions.
Upgrade0013OperationsOnly ==
    << AddColumn("executions", "finalized_by"),
       AddCheck("executions", "valid_finalized_by",
                NullOrIn("finalized_by",
                         {"AGENT", "WAIT_TIMEOUT", "MAX_RUNTIME"})),
       AddColumn("execution_operations", "failure_type"),
       AddCheck("execution_operations", "valid_operation_failure_type",
                NullOrIn("failure_type", FailureTypes0013)) >>

Upgrade0013 ==
    << AddColumn("executions", "finalized_by"),
       AddCheck("executions", "valid_finalized_by",
                NullOrIn("finalized_by",
                         {"AGENT", "WAIT_TIMEOUT", "MAX_RUNTIME"})) >>
    \o ReplaceCheck("executions", "valid_failure_type",
                    NullOrIn("failure_type", FailureTypes0013))
    \o << AddColumn("execution_operations", "failure_type"),
          AddCheck("execution_operations", "valid_operation_failure_type",
                   NullOrIn("failure_type", FailureTypes0013)) >>

Downgrade0013 ==
    << DropCheck("execution_operations", "valid_operation_failure_type"),
       DropColumn("execution_operations", "failure_type") >>
    \o ReplaceCheck("executions", "valid_failure_type",
                    NullOrIn("failure_type", FailureTypes0003))
    \o << DropCheck("executions", "valid_finalized_by"),
          DropColumn("executions", "finalized_by") >>

Statuses0014 ==
    {"QUEUED", "RUNNING", "WAITING_FOR_OPERATION", "FINALIZING",
     "CANCEL_REQUESTED", "CANCELLED", "SUCCEEDED", "FAILED"}

StatusCheck(values) ==
    ReplaceCheck("executions", "valid_execution_status", In("status", values))

ScopeToExecution(t) ==
    << DropUnique(t, "idempotency_key"),
       AddUnique(t, "execution_idempotency_key",
                 {"execution_id", "idempotency_key"}) >>
ScopeToAll(t) ==
    << DropUnique(t, "execution_idempotency_key"),
       AddUnique(t, "idempotency_key", {"idempotency_key"}) >>

Upgrade0014 ==
    StatusCheck(Statuses0014)
    \o << DropUnique("executions", "idempotency_key"),
          AddUnique("executions", "tenant_idempotency_key",
                    {"tenant_id", "idempotency_key"}),
          DropUnique("executions", "cancel_idempotency_key") >>
    \o ScopeToExecution("execution_operations")
    \o ScopeToExecution("execution_retries")
    \o << AddRequired("command_receipts", "scope", "unscoped"),
          Sql("command_receipts", "scope_receipts"),
          DropUnique("command_receipts", "idempotency_key"),
          AddUnique("command_receipts", "scope_idempotency_key",
                    {"scope", "idempotency_key"}) >>

Downgrade0014 ==
    << DropUnique("command_receipts", "scope_idempotency_key"),
       AddUnique("command_receipts", "idempotency_key", {"idempotency_key"}),
       DropColumn("command_receipts", "scope") >>
    \o ScopeToAll("execution_retries")
    \o ScopeToAll("execution_operations")
    \o << AddUnique("executions", "cancel_idempotency_key",
                    {"cancel_idempotency_key"}),
          DropUnique("executions", "tenant_idempotency_key"),
          AddUnique("executions", "idempotency_key", {"idempotency_key"}) >>
    \o StatusCheck(Statuses0014 \cup {"DISPATCHED"})

AuditedTables ==
    << "executions", "executor_maintenance", "maintenance_runs",
       "maintenance_run_targets", "runtime_targets", "runtime_target_purges",
       "execution_attempts", "execution_diagnostics", "execution_events",
       "execution_operations", "execution_steps", "execution_step_attempts",
       "execution_artifacts", "outbox_events" >>

ActorToClient(t) ==
    << DropCheck(t, "valid_created_by_type"),
       DropCheck(t, "valid_updated_by_type"),
       DropCheck(t, "complete_created_by"),
       DropCheck(t, "complete_updated_by"),
       DropColumn(t, "created_by_type"), AddColumn(t, "created_by_client"),
       DropColumn(t, "updated_by_type"), AddColumn(t, "updated_by_client") >>

\* The loop body for one prefix: "created", then "updated".
ClientToActor(t, type, by, client, valid, complete) ==
    << DropColumn(t, client), AddColumn(t, type),
       Sql(t, "actor_is_user"),
       AddCheck(t, valid, NullOrIn(type, ActorTypes)),
       AddCheck(t, complete, SameNull(type, by)) >>

ClientsToActors(t) ==
    ClientToActor(t, "created_by_type", "created_by", "created_by_client",
                  "valid_created_by_type", "complete_created_by")
    \o ClientToActor(t, "updated_by_type", "updated_by", "updated_by_client",
                     "valid_updated_by_type", "complete_updated_by")

Upgrade0015 == OverTables(AuditedTables, ActorToClient)
Downgrade0015 == OverTables(AuditedTables, ClientsToActors)

-----------------------------------------------------------------------------
(* Data statements.  A completion payload is told apart by whether its     *)
(* context still names the task; an endpoint by what it normalises to.     *)

Normalize(endpoint) ==
    IF endpoint = "http://a:80/" THEN "http://a" ELSE endpoint

RestorePurgeKeys(rs) == {[r EXCEPT !["idempotency_key"] = r["id"]] : r \in rs}

NormalizeEndpoints(rs) ==
    {[r EXCEPT !["connection_config"] = Normalize(@),
               !["connection_key"] = Normalize(r["connection_config"])] : r \in rs}

\* Mutant of DeleteWork: the DELETE without its WHERE.
DeleteAll(rs) == {}
DeleteWork(rs) == {r \in rs : r["destination"] # "WORK"}

StripTaskContext(rs) == {[r EXCEPT !["payload"] = "without_task"] : r \in rs}

ScopeReceipts(rs) ==
    {IF r["command_type"] = "artifact" THEN r
     ELSE [r EXCEPT !["scope"] = r["result"]] : r \in rs}

ActorIsUser(rs) ==
    {IF {"created_by", "created_by_type"} \subseteq DOMAIN r
        /\ r["created_by"] # NULL
     THEN [r EXCEPT !["created_by_type"] = "USER"] ELSE r : r \in rs}

Rewritten(name, rs) ==
    CASE name = "restore_purge_keys" -> RestorePurgeKeys(rs)
      [] name = "normalize_endpoints" -> NormalizeEndpoints(rs)
      [] name = "delete_work" -> DeleteWork(rs)
      [] name = "strip_task_context" -> StripTaskContext(rs)
      [] name = "scope_receipts" -> ScopeReceipts(rs)
      [] name = "actor_is_user" -> ActorIsUser(rs)

-----------------------------------------------------------------------------
(* Executing a revision.                                                   *)

\* The columns that some revision reads, rewrites or may refuse, and the
\* outcomes that a downgrade drops with their table or their column.
Watched ==
    "executions" :> {"id", "status", "failure_type", "finalized_by",
                     "tenant_id", "task_id", "idempotency_key",
                     "runtime_target_id", "created_by", "created_by_type"} @@
    "execution_attempts" :> {"id", "failure_type", "runtime_target_id"} @@
    "execution_operations" :> {"id", "status", "failure_type"} @@
    "execution_diagnostics" :> {"id", "detail"} @@
    "execution_step_runs" :> {"execution_step_attempt_id", "request_id"} @@
    "execution_handovers" :> {"execution_id", "reason"} @@
    "execution_events" :> {"id", "payload"} @@
    "outbox_events" :> {"id", "destination", "execution_event_id",
                        "payload"} @@
    "runtime_targets" :> {"id", "connection_config", "connection_key"} @@
    "runtime_target_purges" :> {"id", "target_id", "idempotency_key"} @@
    "command_receipts" :> {"id", "command_type", "idempotency_key", "result",
                           "scope"}

ChangedRows(t, rs, s) ==
    CASE s.table # t -> rs
      [] s.table = t /\ s.op \in {"create", "remove"} -> {}
      [] s.table = t /\ s.op = "sql" -> Rewritten(s.name, rs)
      [] s.table = t /\ s.part = "columns" /\ s.name \in Watched[t] ->
            CASE s.op = "add" -> {(s.name :> s.default) @@ r : r \in rs}
              [] s.op = "drop" -> {Without(r, s.name) : r \in rs}
              [] OTHER -> rs
      [] OTHER -> rs

Execute(db, s) ==
    LET changed == ChangedSchema(db.schema, s)
        rewritten == [t \in DOMAIN db.rows |-> ChangedRows(t, db.rows[t], s)]
    IN  IF db.ok /\ Applicable(db.schema, s)
        THEN [schema |-> changed, rows |-> rewritten,
              ok |-> AcceptsRows(changed, rewritten)]
        ELSE [db EXCEPT !.ok = FALSE]

\* The statements in order (halving keeps the evaluation shallow); the first
\* that fails ends the transaction.
RECURSIVE Run(_, _)
Run(db, program) ==
    IF Len(program) <= 1 THEN FoldLeft(Execute, db, program)
    ELSE LET half == Len(program) \div 2
             first == Run(db, SubSeq(program, 1, half))
         IN  IF first.ok THEN Run(first, SubSeq(program, half + 1, Len(program)))
                         ELSE first

Upgrades ==
    << Upgrade0001, Upgrade0002, Upgrade0003, Upgrade0004, Upgrade0005,
       Upgrade0006, Upgrade0007, Upgrade0008, Upgrade0009, Upgrade0010,
       Upgrade0011, Upgrade0012, Upgrade0013, Upgrade0014, Upgrade0015 >>

Downgrades ==
    << Downgrade0001, Downgrade0002, Downgrade0003, Downgrade0004,
       Downgrade0005, Downgrade0006, Downgrade0007, Downgrade0008,
       Downgrade0009, Downgrade0010, Downgrade0011, Downgrade0012,
       Downgrade0013, Downgrade0014, Downgrade0015 >>

Database == [schema |-> schema, rows |-> rows, ok |-> TRUE]

-----------------------------------------------------------------------------
(* Commands and writes.                                                    *)

NoRows == [t \in DOMAIN Watched |-> {}]

Init ==
    /\ rev = 0
    /\ schema = Nothing
    /\ rows = NoRows

Commit(db, goal) ==
    /\ db.ok
    /\ rev' = goal
    /\ schema' = db.schema
    /\ rows' = db.rows

\* alembic upgrade +1
Upgrade ==
    /\ rev < HeadRevision
    /\ Commit(Run(Database, Upgrades[rev + 1]), rev + 1)

\* upgrade_database, or alembic upgrade head: all or nothing.
UpgradeHead ==
    /\ rev < HeadRevision
    /\ Commit(Run(Database,
                  FlattenSeq(SubSeq(Upgrades, rev + 1, HeadRevision))),
              HeadRevision)

\* alembic downgrade -1
Downgrade ==
    /\ rev > 0
    /\ Commit(Run(Database, Downgrades[rev]), rev - 1)

\* Status, failure type and who finalized the Execution.
Outcomes ==
    {<<"DISPATCHED", NULL, NULL>>, <<"FAILED", "TOOL_ERROR", NULL>>,
     <<"FAILED", "COMPLETION_FAILED", NULL>>,
     <<"FAILED", "QUEUE_TIMEOUT", NULL>>, <<"SUCCEEDED", NULL, "AGENT">>}

Samples ==
    "executions" :>
        {[id |-> i, status |-> o[1], failure_type |-> o[2],
          finalized_by |-> o[3], tenant_id |-> n, task_id |-> k,
          idempotency_key |-> "key", runtime_target_id |-> g,
          created_by |-> "user", created_by_type |-> "AGENT"] :
            i \in {"E1", "E2"}, o \in Outcomes, n \in {NULL, "t1", "t2"},
            k \in {NULL, "task"}, g \in {NULL, "T1"}} @@
    "execution_attempts" :>
        {[id |-> "A1", failure_type |-> f, runtime_target_id |-> "T1"] :
            f \in {"TOOL_ERROR", "COMPLETION_FAILED", "QUEUE_TIMEOUT"}} @@
    "execution_operations" :>
        {[id |-> "OP1", status |-> "FAILED", failure_type |-> "TOOL_ERROR"]} @@
    "execution_diagnostics" :> {[id |-> "D1", detail |-> "traceback"]} @@
    "execution_step_runs" :>
        {[execution_step_attempt_id |-> "SA1", request_id |-> "R1"]} @@
    "execution_handovers" :>
        {[execution_id |-> i, reason |-> "EXECUTOR_SHUTDOWN"] : i \in {"E1", "E2"}} @@
    "execution_events" :>
        {[id |-> "V1", payload |-> p] : p \in {"with_task", "without_task"}} @@
    "outbox_events" :>
        {[id |-> "O1", destination |-> "EVENTS", execution_event_id |-> "V1",
          payload |-> NULL],
         [id |-> "O2", destination |-> "WORK", execution_event_id |-> NULL,
          payload |-> "work"]} @@
    "runtime_targets" :>
        {[id |-> "T1", connection_config |-> "http://a",
          connection_key |-> "http://a"],
         [id |-> "T2", connection_config |-> "http://a:80/",
          connection_key |-> "http://a"]} @@
    "runtime_target_purges" :> {} @@
    "command_receipts" :>
        {[id |-> i, command_type |-> c, idempotency_key |-> "key",
          result |-> "E1", scope |-> IF c = "artifact" THEN "unscoped"
                                     ELSE "E1"] :
            i \in {"C1", "C2"}, c \in {"artifact", "execution_finalize"}}

Held == UNION {rows[t] : t \in DOMAIN rows}

\* A row as the tables of this revision have it.
Fitted(t, sample) ==
    [c \in DOMAIN sample \cap DOMAIN schema[t].columns |-> sample[c]]

\* The rows the program of this revision may write next, and what follows.
Writable(t) ==
    {sample \in Samples[t] :
        /\ Key(sample) \notin {Key(r) : r \in rows[t]}
        /\ t = "execution_events" /\ sample.payload = "with_task" =>
                "task_id" \in DOMAIN schema["executions"].columns}

WithRow(t, row) == [rows EXCEPT ![t] = @ \cup {row}]

Write(t) ==
    /\ t \in DOMAIN schema
    /\ Cardinality(Held) < MaxRows
    /\ \E row \in {r \in {Fitted(t, sample) : sample \in Writable(t)} :
                        AcceptsRows(schema, WithRow(t, r))} :
            rows' = WithRow(t, row)
    /\ UNCHANGED <<rev, schema>>

\* A Runtime Target is purged: its row becomes a purge record.
Purged(target) ==
    LET record == [id |-> "P1", target_id |-> target["id"],
                   idempotency_key |-> "key"]
    IN  [rows EXCEPT
            !["runtime_targets"] = @ \ {target},
            !["runtime_target_purges"] =
                @ \cup {Fitted("runtime_target_purges", record)}]

Purge ==
    /\ rev > 0
    /\ rows["runtime_target_purges"] = {}
    /\ \E target \in {g \in rows["runtime_targets"] :
                            AcceptsRows(schema, Purged(g))} :
            rows' = Purged(target)
    /\ UNCHANGED <<rev, schema>>

Next ==
    \/ Upgrade
    \/ UpgradeHead
    \/ Downgrade
    \/ \E t \in DOMAIN Watched : Write(t)
    \/ Purge

Spec == Init /\ [][Next]_vars

-----------------------------------------------------------------------------
(* Properties.                                                             *)

\* The schema of revision r as a fresh database gets it.
ByUpgrades[r \in 0..HeadRevision] ==
    IF r = 0 THEN Nothing
    ELSE Run([schema |-> ByUpgrades[r - 1], rows |-> NoRows, ok |-> TRUE],
             Upgrades[r]).schema

\* A revision means one schema: however the database came to a revision, by
\* any mix of upgrades and downgrades, its tables, columns, constraints and
\* indexes are those of a fresh database at that revision (every downgrade()
\* undoes exactly what its upgrade() did).
RevisionMeansSchema == schema = ByUpgrades[rev]

\* At the head revision the database has what the models of the running
\* program declare, check constraints included, which `alembic check` does
\* not compare.
HeadIsTheModels == rev = HeadRevision => schema = Models

\* The evidence of a row: what the program recorded about its outcome, its
\* owner and its Target.  What the caller sent along is not counted: upgrades
\* drop the task and workflow (0011), the trace context (0004), the keys of
\* purge requests (0005) and the actor's type (0015), whose downgrade then
\* calls every actor a USER.
Evidence ==
    {"status", "failure_type", "finalized_by", "tenant_id",
     "runtime_target_id", "target_id", "execution_event_id", "detail",
     "request_id", "reason"}

SameEvidence(r, q, columns) ==
    /\ Key(r) = Key(q)
    /\ \A c \in DOMAIN r \cap Evidence \cap columns :
            c \in DOMAIN q /\ r[c] = q[c]

\* What a command to revision `goal` is to keep of table t: an upgrade all of
\* it, a downgrade the columns that a fresh database at that revision has.
KeptColumns(t, goal) ==
    IF goal > rev THEN Evidence
    ELSE DOMAIN ByUpgrades[goal][t].columns

\* A wake-up that the upgrade to 0010 deletes.
IsWork(r, goal) ==
    /\ rev < 10 /\ goal >= 10
    /\ "destination" \in DOMAIN r /\ r["destination"] = "WORK"

\* What a command may lose of the recorded evidence (outcome, owner, Target).
\* An upgrade loses and reclassifies none of it, in no table, but for the
\* wake-ups that 0010 deletes.  A downgrade takes along exactly what its
\* revision had introduced, rows and all: execution_diagnostics (0002),
\* execution_step_runs and execution_handovers (0006), tenant_id (0007),
\* finalized_by and the failure_type of Operations (0013), everything (0001).
\* Every row of every other table survives, with its evidence in every other
\* column unchanged (0003: "never delete or silently reclassify evidence",
\* 0005: "Never null them or cascade-delete"), or the downgrade is refused.
EvidenceSurvives ==
    [][rev' # rev =>
        \A t \in DOMAIN rows : \A r \in rows[t] :
            \/ IsWork(r, rev')
            \/ rev' < rev /\ t \notin DOMAIN ByUpgrades[rev']
            \/ \E q \in rows'[t] :
                    SameEvidence(r, q, KeptColumns(t, rev'))]_vars

=============================================================================
