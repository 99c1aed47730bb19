--------------------------- MODULE SchemaBaseline ---------------------------
(***************************************************************************)
(* Revision 0001: the complete schema recorded on 2026-08-31               *)
(* (migrations/versions/0001_current_executor_schema_baseline.py).  Every  *)
(* audited table carries the same four columns and checks: who created and *)
(* who last updated the row, and of which type that actor is.              *)
(***************************************************************************)
EXTENDS Schema

ActorTypes == {"AGENT", "USER", "BATCH"}

AuditChecks0001 ==
    "valid_created_by_type" :> NullOrIn("created_by_type", ActorTypes) @@
    "valid_updated_by_type" :> NullOrIn("updated_by_type", ActorTypes) @@
    "complete_created_by" :> SameNull("created_by_type", "created_by") @@
    "complete_updated_by" :> SameNull("updated_by_type", "updated_by")

WithActor(table) ==
    [table EXCEPT
        !.columns = Columns({}, {"created_by_type", "created_by",
                                 "updated_by_type", "updated_by"}) @@ @,
        !.checks = AuditChecks0001 @@ @]

CommandReceipts0001 ==
     [columns |-> Columns({"id", "idempotency_key", "command_type",
                           "request_fingerprint", "result", "created_at"},
                          {}),
      checks |->  Nothing,
      uniques |-> "idempotency_key" :> {"idempotency_key"},
      refs |->    Nothing,
      indexes |-> Nothing]

OutboxEvents0001 ==
    WithActor(
     [columns |-> Columns({"id", "aggregate_type", "aggregate_id",
                           "event_type", "destination", "status",
                           "attempt_count", "available_at", "created_at",
                           "updated_at"},
                          {"event_sequence", "execution_event_id", "payload",
                           "traceparent", "tracestate", "published_at",
                           "last_error"}),
      checks |->  "valid_outbox_destination" :> In("destination", {"WORK",
                      "EVENTS"}) @@
                  "valid_outbox_content" :> Rule("OutboxContent") @@
                  "valid_outbox_status" :> In("status", {"PENDING",
                      "PUBLISHED"}),
      uniques |-> "outbox_aggregate_event_sequence" :> {"aggregate_type",
                      "aggregate_id", "destination", "event_sequence"} @@
                  "outbox_execution_event_id" :> {"execution_event_id"},
      refs |->    Nothing,
      indexes |-> "aggregate_id" :> {"aggregate_id"} @@
                  "outbox_execution_cursor" :> {"aggregate_type",
                      "aggregate_id", "event_sequence"} @@
                  "outbox_pending" :> {"status", "available_at",
                      "created_at"} @@
                  "outbox_pending_event_order" :> {"aggregate_type",
                      "aggregate_id", "event_sequence"}])

ExecutorMaintenance0001 ==
    WithActor(
     [columns |-> Columns({"singleton_key", "admission_state", "version",
                           "created_at", "updated_at"},
                          {}),
      checks |->  "singleton_key" :> In("singleton_key", {"executor"}) @@
                  "valid_admission_state" :> In("admission_state",
                      {"ACTIVE", "DRAINING"}) @@
                  "non_negative_version" :> AtLeast("version", 0),
      uniques |-> Nothing,
      refs |->    Nothing,
      indexes |-> Nothing])

EventRetentionLease0001 ==
     [columns |-> Columns({"singleton_key", "created_at", "updated_at"},
                          {"lease_owner", "lease_expires_at",
                           "last_started_at", "last_completed_at",
                           "last_error"}),
      checks |->  "complete_lease" :> SameNull("lease_owner",
                      "lease_expires_at"),
      uniques |-> Nothing,
      refs |->    Nothing,
      indexes |-> Nothing]

RuntimeTargetPurges0001 ==
    WithActor(
     [columns |-> Columns({"id", "target_id", "target_name", "runtime_type",
                           "connection_config", "pool", "idempotency_key",
                           "request_fingerprint", "created_at", "updated_at"},
                          {}),
      checks |->  "valid_pool" :> In("pool", {"INTERACTIVE", "BATCH"}) @@
                  "valid_runtime_type" :> In("runtime_type", {"JUPYTER"}),
      uniques |-> "idempotency_key" :> {"idempotency_key"} @@
                  "target_id" :> {"target_id"},
      refs |->    Nothing,
      indexes |-> Nothing])

RuntimeTargets0001 ==
    WithActor(
     [columns |-> Columns({"id", "name", "runtime_type", "connection_config",
                           "credential_ref", "pool", "status",
                           "max_concurrent_executions", "supported_profiles",
                           "enabled", "resource_errors", "created_at",
                           "updated_at"},
                          {"credential_ciphertext", "last_health_check_at",
                           "last_health_error", "active_session_count",
                           "session_count_observed_at",
                           "resource_observed_at", "resource_last_check_at",
                           "resource_last_error", "resource_source",
                           "resource_estimated", "resource_process_count",
                           "cpu_used_cores", "cpu_capacity_cores",
                           "cpu_utilization", "memory_used_bytes",
                           "memory_capacity_bytes", "memory_utilization"}),
      checks |->  "valid_runtime_type" :> In("runtime_type", {"JUPYTER"}) @@
                  "valid_runtime_target_status" :> In("status", {"ACTIVE",
                      "DRAINING", "OFFLINE"}) @@
                  "positive_max_concurrency" :>
                      AtLeast("max_concurrent_executions", 1) @@
                  "non_negative_active_session_count" :>
                      NullOrAtLeast("active_session_count", 0),
      uniques |-> "name" :> {"name"},
      refs |->    Nothing,
      indexes |-> "created_cursor" :> {"created_at", "id"} @@
                  "pool_status" :> {"pool", "enabled", "status"}])

ExecutionsColumns0001 ==
    Columns({"id", "idempotency_key", "request_fingerprint", "status",
             "operation_mode", "trigger_type", "runtime_type", "runtime_pool",
             "runtime_profile", "user_id", "task_id", "metadata",
             "notebook_projection_status",
             "notebook_projection_attempt_count", "fencing_token"},
            {"cancel_idempotency_key", "operation_wait_timeout_seconds",
             "project_id", "session_id", "workflow_id", "cancellation_reason",
             "runtime_target_id", "runtime_session_id", "workspace_path",
             "notebook_path", "notebook_projection_error",
             "notebook_projected_at", "error_message", "failure_type",
             "lease_owner", "lease_expires_at", "heartbeat_at",
             "cancellation_lease_owner", "cancellation_lease_expires_at",
             "cancellation_heartbeat_at"})

ExecutionsLaterColumns0001 ==
    Columns({"runtime_abort_status", "retry_strategy", "retry_count",
             "recovery_count", "runtime_session_cleanup_status",
             "finalization_requested", "version", "created_at", "updated_at"},
            {"retry_from_sequence", "retained_runtime_session_until",
             "active_operation_id", "operation_wait_expires_at",
             "execution_expires_at", "traceparent", "tracestate",
             "started_at", "finished_at"})

ExecutionsChecks0001 ==
    "valid_operation_wait_timeout" :> Rule("WaitTimeoutOfMode") @@
    "valid_failure_type" :> NullOrIn("failure_type", {"TOOL_ERROR",
        "INFRASTRUCTURE_ERROR", "WORKER_SHUTDOWN", "RUNTIME_UNAVAILABLE",
        "LEASE_EXPIRED", "INTERNAL_ERROR", "OPERATION_WAIT_TIMEOUT",
        "OPERATION_TIMEOUT", "STEP_TIMEOUT", "EXECUTION_TIMEOUT",
        "OUTPUT_LIMIT_EXCEEDED", "RUNTIME_SESSION_LOST"}) @@
    "valid_operation_mode" :> In("operation_mode", {"SINGLE", "MULTI"}) @@
    "valid_retry_strategy" :> In("retry_strategy", {"NOT_RETRYABLE",
        "FROM_FAILED_STEP", "FROM_START"}) @@
    "valid_runtime_pool" :> In("runtime_pool", {"INTERACTIVE", "BATCH"}) @@
    "valid_runtime_session_cleanup_status" :>
        In("runtime_session_cleanup_status", {"NOT_REQUIRED", "PENDING",
        "SUCCEEDED", "FAILED"}) @@
    "valid_runtime_type" :> In("runtime_type", {"JUPYTER"}) @@
    "valid_execution_status" :> In("status", {"QUEUED", "DISPATCHED",
        "RUNNING", "WAITING_FOR_OPERATION", "FINALIZING", "CANCEL_REQUESTED",
        "CANCELLED", "SUCCEEDED", "FAILED"}) @@
    "valid_trigger_type" :> In("trigger_type", {"INTERACTIVE", "BATCH"}) @@
    "non_negative_recovery_count" :> AtLeast("recovery_count", 0) @@
    "non_negative_retry_count" :> AtLeast("retry_count", 0) @@
    "non_negative_fencing_token" :> AtLeast("fencing_token", 0) @@
    "valid_runtime_abort_status" :> In("runtime_abort_status",
        {"NOT_REQUIRED", "PENDING", "IDLE_CONFIRMED", "SESSION_DELETED",
        "SESSION_MISSING", "FAILED"}) @@
    "non_negative_notebook_projection_attempt_count" :>
        AtLeast("notebook_projection_attempt_count", 0) @@
    "valid_notebook_projection_status" :> In("notebook_projection_status",
        {"NOT_STARTED", "PENDING", "SUCCEEDED", "FAILED"}) @@
    "non_negative_retry_from_sequence" :>
        NullOrAtLeast("retry_from_sequence", 0)

ExecutionsIndexes0001 ==
    "active_operation_id" :> {"active_operation_id"} @@
    "created_cursor" :> {"created_at", "id"} @@
    "execution_expires_at" :> {"execution_expires_at"} @@
    "lease" :> {"status", "lease_expires_at"} @@
    "cancellation_lease" :> {"status", "cancellation_lease_expires_at"} @@
    "operation_wait_expires_at" :> {"operation_wait_expires_at"} @@
    "project_created_cursor" :> {"project_id", "created_at", "id"} @@
    "retained_session_cleanup" :> {"status", "retry_strategy",
        "retained_runtime_session_until"} @@
    "runtime_target_id" :> {"runtime_target_id"} @@
    "session_created_cursor" :> {"session_id", "created_at", "id"} @@
    "status_created_at" :> {"status", "created_at", "id"} @@
    "task_created_cursor" :> {"task_id", "created_at", "id"} @@
    "task_id" :> {"task_id"} @@
    "user_created_cursor" :> {"user_id", "created_at", "id"}

Executions0001 ==
    WithActor(
     [columns |-> ExecutionsColumns0001 @@ ExecutionsLaterColumns0001,
      checks |->  ExecutionsChecks0001,
      uniques |-> "cancel_idempotency_key" :> {"cancel_idempotency_key"} @@
                  "idempotency_key" :> {"idempotency_key"},
      refs |->    "runtime_target_id" :> Ref("runtime_targets",
                      "NO_ACTION"),
      indexes |-> ExecutionsIndexes0001])

ExecutionEventSequences0001 ==
     [columns |-> Columns({"execution_id", "last_sequence"},
                          {}),
      checks |->  "positive_last_sequence" :> AtLeast("last_sequence", 1),
      uniques |-> Nothing,
      refs |->    "execution_id" :> Ref("executions", "CASCADE"),
      indexes |-> Nothing]

ExecutionEvents0001 ==
    WithActor(
     [columns |-> Columns({"id", "execution_id", "event_sequence",
                           "event_type", "schema_version", "payload",
                           "created_at", "updated_at"},
                          {"traceparent", "tracestate"}),
      checks |->  "positive_event_sequence" :> AtLeast("event_sequence", 1),
      uniques |-> "execution_sequence" :> {"execution_id",
                      "event_sequence"},
      refs |->    "execution_id" :> Ref("executions", "CASCADE"),
      indexes |-> "created" :> {"created_at", "id"} @@
                  "execution_cursor" :> {"execution_id", "event_sequence"}])

MaintenanceRuns0001 ==
    WithActor(
     [columns |-> Columns({"id", "idempotency_key", "request_fingerprint",
                           "action", "status", "fencing_token", "created_at",
                           "updated_at"},
                          {"lease_owner", "lease_expires_at", "heartbeat_at",
                           "error_message", "started_at", "finished_at"}),
      checks |->  "valid_action" :> In("action",
                      {"STOP_ACTIVE_EXECUTIONS"}) @@
                  "valid_status" :> In("status", {"REQUESTED", "RUNNING",
                      "SUCCEEDED", "FAILED"}) @@
                  "non_negative_fencing_token" :> AtLeast("fencing_token",
                      0),
      uniques |-> "idempotency_key" :> {"idempotency_key"},
      refs |->    Nothing,
      indexes |-> "recovery" :> {"status", "lease_expires_at"} @@
                  "created" :> {"created_at", "id"}])

MaintenanceRunTargets0001 ==
    WithActor(
     [columns |-> Columns({"id", "maintenance_run_id", "execution_id",
                           "selected_execution_status", "status",
                           "created_at", "updated_at"},
                          {"error_message", "stop_requested_at",
                           "completed_at"}),
      checks |->  "valid_status" :> In("status", {"PENDING",
                      "STOP_REQUESTED", "STOPPED", "FAILED"}),
      uniques |-> "run_execution" :> {"maintenance_run_id", "execution_id"},
      refs |->    "execution_id" :> Ref("executions", "NO_ACTION") @@
                  "maintenance_run_id" :> Ref("maintenance_runs",
                      "CASCADE"),
      indexes |-> "run_status" :> {"maintenance_run_id", "status"} @@
                  "cursor" :> {"maintenance_run_id", "created_at", "id"}])

ExecutionAttemptsColumns0001 ==
    Columns({"id", "execution_id", "attempt_number", "runtime_type",
             "runtime_profile", "runtime_target_id", "status", "heartbeat_at",
             "fencing_token", "runtime_abort_status", "retry_strategy",
             "runtime_session_cleanup_status", "created_at", "updated_at",
             "started_at"},
            {"runtime_session_id", "lease_owner", "lease_expires_at",
             "error_message", "failure_type", "finished_at"})

ExecutionAttemptsChecks0001 ==
    "valid_attempt_failure_type" :> NullOrIn("failure_type", {"TOOL_ERROR",
        "INFRASTRUCTURE_ERROR", "WORKER_SHUTDOWN", "RUNTIME_UNAVAILABLE",
        "LEASE_EXPIRED", "INTERNAL_ERROR", "OPERATION_WAIT_TIMEOUT",
        "OPERATION_TIMEOUT", "STEP_TIMEOUT", "EXECUTION_TIMEOUT",
        "OUTPUT_LIMIT_EXCEEDED", "RUNTIME_SESSION_LOST"}) @@
    "valid_attempt_retry_strategy" :> In("retry_strategy",
        {"NOT_RETRYABLE", "FROM_FAILED_STEP", "FROM_START"}) @@
    "valid_runtime_session_cleanup_status" :>
        In("runtime_session_cleanup_status", {"NOT_REQUIRED", "PENDING",
        "SUCCEEDED", "FAILED"}) @@
    "valid_attempt_runtime_type" :> In("runtime_type", {"JUPYTER"}) @@
    "valid_attempt_status" :> In("status", {"RUNNING", "WAITING",
        "SUCCEEDED", "FAILED", "CANCELLED"}) @@
    "positive_attempt_number" :> AtLeast("attempt_number", 1) @@
    "non_negative_fencing_token" :> AtLeast("fencing_token", 0) @@
    "valid_runtime_abort_status" :> In("runtime_abort_status",
        {"NOT_REQUIRED", "PENDING", "IDLE_CONFIRMED", "SESSION_DELETED",
        "SESSION_MISSING", "FAILED"})

ExecutionAttemptsIndexes0001 ==
    "lease" :> {"status", "lease_expires_at"} @@
    "target_status" :> {"runtime_target_id", "status"}

ExecutionAttempts0001 ==
    WithActor(
     [columns |-> ExecutionAttemptsColumns0001,
      checks |->  ExecutionAttemptsChecks0001,
      uniques |-> "execution_attempt" :> {"execution_id", "attempt_number"},
      refs |->    "execution_id" :> Ref("executions", "CASCADE") @@
                  "runtime_target_id" :> Ref("runtime_targets",
                      "NO_ACTION"),
      indexes |-> ExecutionAttemptsIndexes0001])

ExecutionOperations0001 ==
    WithActor(
     [columns |-> Columns({"id", "execution_id", "operation_number",
                           "schema_version", "first_sequence",
                           "last_sequence", "metadata", "idempotency_key",
                           "request_fingerprint", "status", "created_at",
                           "updated_at"},
                          {"operation_timeout_seconds",
                           "execution_attempt_id", "error_message",
                           "started_at", "finished_at"}),
      checks |->  "valid_operation_status" :> In("status", {"QUEUED",
                      "RUNNING", "SUCCEEDED", "FAILED", "CANCELLED"}) @@
                  "non_negative_first_sequence" :>
                      AtLeast("first_sequence", 0) @@
                  "valid_operation_sequence_range" :> Rule("SequenceRange") @@
                  "positive_operation_number" :>
                      AtLeast("operation_number", 1) @@
                  "supported_schema_version" :> In("schema_version",
                      {"1.0"}) @@
                  "valid_operation_timeout" :>
                      NullOrAtLeast("operation_timeout_seconds", 1),
      uniques |-> "operations_execution_number" :> {"execution_id",
                      "operation_number"} @@
                  "idempotency_key" :> {"idempotency_key"},
      refs |->    "execution_attempt_id" :> Ref("execution_attempts",
                      "NO_ACTION") @@
                  "execution_id" :> Ref("executions", "CASCADE"),
      indexes |-> "execution_number" :> {"execution_id",
                      "operation_number"}])

ExecutionRetries0001 ==
     [columns |-> Columns({"id", "execution_id", "idempotency_key",
                           "from_sequence", "created_at"},
                          {}),
      checks |->  "non_negative_from_sequence" :> AtLeast("from_sequence",
                      0),
      uniques |-> "idempotency_key" :> {"idempotency_key"},
      refs |->    "execution_id" :> Ref("executions", "CASCADE"),
      indexes |-> "execution_id" :> {"execution_id"}]

ExecutionStepsColumns0001 ==
    Columns({"id", "execution_id", "operation_id", "sequence", "source_type",
             "source_sha256", "source_snapshot_path", "source_size_bytes",
             "status", "input_parameters", "output_summary",
             "result_representation_count", "result_total_size_bytes",
             "created_at", "updated_at"},
            {"source_path", "code_hash", "step_timeout_seconds", "skill_name",
             "tool_name", "result_execution_attempt_id",
             "result_manifest_path", "result_manifest_checksum_sha256",
             "result_manifest_size_bytes", "result_fencing_token",
             "result_complete", "error_message", "started_at", "finished_at"})

ExecutionStepsChecks0001 ==
    "valid_step_status" :> In("status", {"PENDING", "RUNNING", "SUCCEEDED",
        "FAILED", "SKIPPED", "CANCELLED"}) @@
    "valid_source_type" :> In("source_type", {"INLINE", "PATH"}) @@
    "valid_source" :> Rule("SourceOfType") @@
    "non_negative_sequence" :> AtLeast("sequence", 0) @@
    "valid_step_timeout" :> NullOrAtLeast("step_timeout_seconds", 1)

ExecutionStepsIndexes0001 ==
    "execution_id" :> {"execution_id"} @@
    "operation_id" :> {"operation_id"}

ExecutionSteps0001 ==
    WithActor(
     [columns |-> ExecutionStepsColumns0001,
      checks |->  ExecutionStepsChecks0001,
      uniques |-> "execution_sequence" :> {"execution_id", "sequence"},
      refs |->    "execution_id" :> Ref("executions", "CASCADE") @@
                  "operation_id" :> Ref("execution_operations", "CASCADE") @@
                  "result_execution_attempt_id" :>
                      Ref("execution_attempts", "SET_NULL"),
      indexes |-> ExecutionStepsIndexes0001])

ExecutionStepAttempts0001 ==
    WithActor(
     [columns |-> Columns({"id", "execution_id", "execution_attempt_id",
                           "execution_step_id", "sequence",
                           "input_parameters", "status", "output_summary",
                           "result_representation_count",
                           "result_total_size_bytes", "created_at",
                           "updated_at", "started_at"},
                          {"skill_name", "tool_name", "result_manifest_path",
                           "result_manifest_checksum_sha256",
                           "result_manifest_size_bytes",
                           "result_fencing_token", "result_complete",
                           "error_message", "finished_at"}),
      checks |->  "valid_step_attempt_status" :> In("status", {"PENDING",
                      "RUNNING", "SUCCEEDED", "FAILED", "SKIPPED",
                      "CANCELLED"}) @@
                  "non_negative_sequence" :> AtLeast("sequence", 0),
      uniques |-> "attempt_sequence" :> {"execution_attempt_id",
                      "sequence"},
      refs |->    "execution_attempt_id" :> Ref("execution_attempts",
                      "CASCADE") @@
                  "execution_id" :> Ref("executions", "CASCADE") @@
                  "execution_step_id" :> Ref("execution_steps", "CASCADE"),
      indexes |-> "execution_attempt_id" :> {"execution_attempt_id"} @@
                  "step_attempts_execution_sequence" :> {"execution_id",
                      "sequence"}])

ExecutionArtifactsColumns0001 ==
    Columns({"id", "execution_id", "artifact_type", "storage_type", "status",
             "name", "uri", "metadata", "identity_hash", "created_at",
             "updated_at"},
            {"execution_attempt_id", "execution_step_id",
             "execution_step_attempt_id", "parent_artifact_id",
             "external_parent_asset_id", "description", "relative_path",
             "media_type", "size_bytes", "checksum_sha256"})

ExecutionArtifactsChecks0001 ==
    "valid_artifact_type" :> In("artifact_type", {"DATASET", "NOTEBOOK",
        "REPORT", "PLOT", "MODEL", "METRIC", "LOG", "OTHER"}) @@
    "valid_artifact_status" :> In("status", {"AVAILABLE", "INCOMPLETE",
        "DELETED"}) @@
    "valid_artifact_storage_type" :> In("storage_type", {"PV", "S3"}) @@
    "non_negative_size" :> NullOrAtLeast("size_bytes", 0)

ExecutionArtifactsIndexes0001 ==
    "execution_created" :> {"execution_id", "created_at", "id"} @@
    "step" :> {"execution_step_id", "created_at"}

ExecutionArtifacts0001 ==
    WithActor(
     [columns |-> ExecutionArtifactsColumns0001,
      checks |->  ExecutionArtifactsChecks0001,
      uniques |-> "identity_hash" :> {"identity_hash"},
      refs |->    "execution_attempt_id" :> Ref("execution_attempts",
                      "CASCADE") @@
                  "execution_id" :> Ref("executions", "CASCADE") @@
                  "execution_step_attempt_id" :>
                      Ref("execution_step_attempts", "SET_NULL") @@
                  "execution_step_id" :> Ref("execution_steps", "SET_NULL") @@
                  "parent_artifact_id" :> Ref("execution_artifacts",
                      "SET_NULL"),
      indexes |-> ExecutionArtifactsIndexes0001])

\* upgrade() of 0001: the tables in this order, and one reference at the end.
Upgrade0001 ==
    << CreateTable("command_receipts", CommandReceipts0001),
       CreateTable("outbox_events", OutboxEvents0001),
       CreateTable("executor_maintenance", ExecutorMaintenance0001),
       CreateTable("event_retention_lease", EventRetentionLease0001),
       CreateTable("runtime_target_purges", RuntimeTargetPurges0001),
       CreateTable("runtime_targets", RuntimeTargets0001),
       CreateTable("executions", Executions0001),
       CreateTable("execution_event_sequences", ExecutionEventSequences0001),
       CreateTable("execution_events", ExecutionEvents0001),
       AddRef("outbox_events", "execution_event_id",
              "execution_events", "RESTRICT"),
       CreateTable("maintenance_runs", MaintenanceRuns0001),
       CreateTable("maintenance_run_targets", MaintenanceRunTargets0001),
       CreateTable("execution_attempts", ExecutionAttempts0001),
       CreateTable("execution_operations", ExecutionOperations0001),
       CreateTable("execution_retries", ExecutionRetries0001),
       CreateTable("execution_steps", ExecutionSteps0001),
       CreateTable("execution_step_attempts", ExecutionStepAttempts0001),
       CreateTable("execution_artifacts", ExecutionArtifacts0001) >>

\* downgrade() of 0001 drops every table, in the order of the references.
Downgrade0001 ==
    << DropRef("outbox_events", "execution_event_id"),
       DropTable("maintenance_run_targets"),
       DropTable("maintenance_runs"),
       DropTable("execution_artifacts"),
       DropTable("execution_step_attempts"),
       DropTable("execution_steps"),
       DropTable("execution_retries"),
       DropTable("execution_operations"),
       DropTable("execution_attempts"),
       DropTable("execution_events"),
       DropTable("execution_event_sequences"),
       DropTable("executions"),
       DropTable("runtime_targets"),
       DropTable("runtime_target_purges"),
       DropTable("outbox_events"),
       DropTable("event_retention_lease"),
       DropTable("executor_maintenance"),
       DropTable("command_receipts") >>
=============================================================================
