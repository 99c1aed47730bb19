---------------------------- MODULE SchemaModels ----------------------------
(***************************************************************************)
(* The schema the running program expects: the tables its SQLAlchemy       *)
(* models declare (infrastructure/db/models/), names by the convention of  *)
(* db/base.py.  It is written from the models and not from the revisions,  *)
(* so that SchemaMigrations can compare the two.                           *)
(***************************************************************************)
EXTENDS Schema

\* The columns every audited model declares.
WithClient(table) ==
    [table EXCEPT !.columns =
        Columns({}, {"created_by_client", "created_by",
                     "updated_by_client", "updated_by"}) @@ @]

ExecutionArtifactsORM ==
    WithClient(
     [columns |-> Columns({"id", "execution_id", "artifact_type",
                           "storage_type", "status", "name", "uri",
                           "metadata", "identity_hash", "created_at",
                           "updated_at"},
                          {"execution_attempt_id", "execution_step_id",
                           "execution_step_attempt_id", "parent_artifact_id",
                           "external_parent_asset_id", "description",
                           "relative_path", "media_type", "size_bytes",
                           "checksum_sha256"}),
      checks |->  "valid_artifact_type" :> In("artifact_type", {"DATASET",
                      "NOTEBOOK", "REPORT", "PLOT", "MODEL", "METRIC", "LOG",
                      "OTHER"}) @@
                  "valid_artifact_storage_type" :> In("storage_type",
                      {"PV", "S3"}) @@
                  "valid_artifact_status" :> In("status", {"AVAILABLE",
                      "INCOMPLETE", "DELETED"}) @@
                  "non_negative_size" :> NullOrAtLeast("size_bytes", 0),
      uniques |-> "identity_hash" :> {"identity_hash"},
      refs |->    "execution_id" :> Ref("executions", "CASCADE") @@
                  "execution_attempt_id" :> Ref("execution_attempts",
                      "CASCADE") @@
                  "execution_step_id" :> Ref("execution_steps", "SET_NULL") @@
                  "execution_step_attempt_id" :>
                      Ref("execution_step_attempts", "SET_NULL") @@
                  "parent_artifact_id" :> Ref("execution_artifacts",
                      "SET_NULL"),
      indexes |-> "execution_created" :> {"execution_id", "created_at",
                      "id"} @@
                  "step" :> {"execution_step_id", "created_at"}])

ExecutionRetriesORM ==
     [columns |-> Columns({"id", "execution_id", "idempotency_key",
                           "from_sequence", "created_at"},
                          {}),
      checks |->  "non_negative_from_sequence" :> AtLeast("from_sequence",
                      0),
      uniques |-> "execution_idempotency_key" :> {"execution_id",
                      "idempotency_key"},
      refs |->    "execution_id" :> Ref("executions", "CASCADE"),
      indexes |-> "execution_id" :> {"execution_id"}]

ExecutionAttemptsORM ==
    WithClient(
     [columns |-> Columns({"id", "execution_id", "attempt_number",
                           "runtime_type", "runtime_profile",
                           "runtime_target_id", "status", "heartbeat_at",
                           "fencing_token", "retry_strategy",
                           "runtime_session_cleanup_status",
                           "runtime_abort_status", "created_at", "updated_at",
                           "started_at"},
                          {"runtime_session_id", "lease_owner",
                           "lease_expires_at", "error_message",
                           "failure_type", "finished_at"}),
      checks |->  "positive_attempt_number" :> AtLeast("attempt_number", 1) @@
                  "valid_attempt_status" :> In("status", {"RUNNING",
                      "WAITING", "SUCCEEDED", "FAILED", "CANCELLED"}) @@
                  "valid_attempt_runtime_type" :> In("runtime_type",
                      {"JUPYTER"}) @@
                  "valid_attempt_failure_type" :> NullOrIn("failure_type",
                      {"TOOL_ERROR", "INFRASTRUCTURE_ERROR", "WORKER_SHUTDOWN",
                      "RUNTIME_UNAVAILABLE", "LEASE_EXPIRED", "INTERNAL_ERROR",
                      "OPERATION_WAIT_TIMEOUT", "OPERATION_TIMEOUT",
                      "STEP_TIMEOUT", "EXECUTION_TIMEOUT",
                      "OUTPUT_LIMIT_EXCEEDED", "RUNTIME_SESSION_LOST",
                      "COMPLETION_FAILED"}) @@
                  "valid_attempt_retry_strategy" :> In("retry_strategy",
                      {"NOT_RETRYABLE", "FROM_FAILED_STEP", "FROM_START"}) @@
                  "valid_runtime_session_cleanup_status" :>
                      In("runtime_session_cleanup_status", {"NOT_REQUIRED",
                      "PENDING", "SUCCEEDED", "FAILED"}) @@
                  "valid_runtime_abort_status" :>
                      In("runtime_abort_status", {"NOT_REQUIRED", "PENDING",
                      "IDLE_CONFIRMED", "SESSION_DELETED", "SESSION_MISSING",
                      "FAILED"}) @@
                  "non_negative_fencing_token" :> AtLeast("fencing_token",
                      0),
      uniques |-> "execution_attempt" :> {"execution_id", "attempt_number"},
      refs |->    "execution_id" :> Ref("executions", "CASCADE"),
      indexes |-> "lease" :> {"status", "lease_expires_at"} @@
                  "target_status" :> {"runtime_target_id", "status"}])

ExecutionStepAttemptsORM ==
    WithClient(
     [columns |-> Columns({"id", "execution_id", "execution_attempt_id",
                           "execution_step_id", "sequence",
                           "input_parameters", "status", "output_summary",
                           "result_representation_count",
                           "result_total_size_bytes", "created_at",
                           "updated_at", "started_at"},
                          {"skill_name", "tool_name", "result_manifest_path",
                           "result_manifest_checksum_sha256",
                           "result_manifest_size_bytes",
                           "result_fencing_token", "result_complete",
                           "error_message", "finished_at"}),
      checks |->  "non_negative_sequence" :> AtLeast("sequence", 0) @@
                  "valid_step_attempt_status" :> In("status", {"PENDING",
                      "RUNNING", "SUCCEEDED", "FAILED", "SKIPPED",
                      "CANCELLED"}),
      uniques |-> "attempt_sequence" :> {"execution_attempt_id",
                      "sequence"},
      refs |->    "execution_id" :> Ref("executions", "CASCADE") @@
                  "execution_attempt_id" :> Ref("execution_attempts",
                      "CASCADE") @@
                  "execution_step_id" :> Ref("execution_steps", "CASCADE"),
      indexes |-> "step_attempts_execution_sequence" :> {"execution_id",
                      "sequence"} @@
                  "execution_attempt_id" :> {"execution_attempt_id"}])

ExecutionDiagnosticsORM ==
    WithClient(
     [columns |-> Columns({"id", "execution_id", "fencing_token", "detail",
                           "occurred_at", "created_at", "updated_at"},
                          {"attempt_id", "operation_id", "step_id",
                           "step_sequence"}),
      checks |->  "positive_fencing_token" :> AtLeast("fencing_token", 1) @@
                  "nonnegative_step_sequence" :>
                      NullOrAtLeast("step_sequence", 0),
      uniques |-> Nothing,
      refs |->    "execution_id" :> Ref("executions", "CASCADE"),
      indexes |-> "diagnostics_execution_cursor" :> {"execution_id",
                      "created_at", "id"} @@
                  "diagnostics_attempt_cursor" :> {"execution_id",
                      "attempt_id", "created_at", "id"}])

ExecutionEventSequencesORM ==
     [columns |-> Columns({"execution_id", "last_sequence"},
                          {}),
      checks |->  "positive_last_sequence" :> AtLeast("last_sequence", 1),
      uniques |-> Nothing,
      refs |->    "execution_id" :> Ref("executions", "CASCADE"),
      indexes |-> Nothing]

ExecutionEventsORM ==
    WithClient(
     [columns |-> Columns({"id", "execution_id", "event_sequence",
                           "event_type", "schema_version", "payload",
                           "created_at", "updated_at"},
                          {}),
      checks |->  "positive_event_sequence" :> AtLeast("event_sequence", 1),
      uniques |-> "execution_sequence" :> {"execution_id",
                      "event_sequence"},
      refs |->    "execution_id" :> Ref("executions", "CASCADE"),
      indexes |-> "execution_cursor" :> {"execution_id", "event_sequence"} @@
                  "created" :> {"created_at", "id"}])

OutboxEventsORM ==
    WithClient(
     [columns |-> Columns({"id", "aggregate_type", "aggregate_id",
                           "event_type", "event_sequence",
                           "execution_event_id", "status", "attempt_count",
                           "available_at", "created_at", "updated_at"},
                          {"published_at", "last_error"}),
      checks |->  "valid_outbox_status" :> In("status", {"PENDING",
                      "PUBLISHED"}) @@
                  "valid_outbox_sequence" :> AtLeast("event_sequence", 1),
      uniques |-> "outbox_aggregate_event_sequence" :> {"aggregate_type",
                      "aggregate_id", "event_sequence"} @@
                  "outbox_execution_event_id" :> {"execution_event_id"},
      refs |->    "execution_event_id" :> Ref("execution_events",
                      "RESTRICT"),
      indexes |-> "outbox_pending" :> {"status", "available_at",
                      "created_at"} @@
                  "outbox_pending_event_order" :> {"aggregate_type",
                      "aggregate_id", "event_sequence"} @@
                  "aggregate_id" :> {"aggregate_id"}])

ExecutionsColumnsORM ==
    Columns({"id", "idempotency_key", "request_fingerprint", "status",
             "operation_mode", "trigger_type", "runtime_type", "runtime_pool",
             "runtime_profile", "user_id", "tenant_id", "metadata",
             "notebook_projection_status",
             "notebook_projection_attempt_count", "fencing_token",
             "retry_strategy", "retry_count", "recovery_count",
             "runtime_session_cleanup_status", "runtime_abort_status",
             "finalization_requested", "version", "created_at", "updated_at"},
            {"cancel_idempotency_key", "operation_wait_timeout_seconds",
             "project_id", "session_id", "cancellation_reason",
             "cancellation_lease_owner", "cancellation_lease_expires_at",
             "runtime_target_id", "runtime_session_id", "workspace_path",
             "notebook_path", "notebook_projection_error",
             "notebook_projected_at", "error_message", "failure_type",
             "lease_owner", "lease_expires_at", "heartbeat_at",
             "retry_from_sequence", "retained_runtime_session_until",
             "finalized_by", "active_operation_id",
             "operation_wait_expires_at", "execution_expires_at",
             "started_at", "finished_at"})

ExecutionsChecksORM ==
    "valid_execution_status" :> In("status", {"QUEUED", "RUNNING",
        "WAITING_FOR_OPERATION", "FINALIZING", "CANCEL_REQUESTED", "CANCELLED",
        "SUCCEEDED", "FAILED"}) @@
    "valid_operation_mode" :> In("operation_mode", {"SINGLE", "MULTI"}) @@
    "valid_operation_wait_timeout" :> Rule("WaitTimeoutOfMode") @@
    "valid_trigger_type" :> In("trigger_type", {"INTERACTIVE", "BATCH"}) @@
    "valid_runtime_pool" :> In("runtime_pool", {"INTERACTIVE", "BATCH"}) @@
    "valid_runtime_type" :> In("runtime_type", {"JUPYTER"}) @@
    "non_negative_retry_count" :> AtLeast("retry_count", 0) @@
    "non_negative_recovery_count" :> AtLeast("recovery_count", 0) @@
    "valid_failure_type" :> NullOrIn("failure_type", {"TOOL_ERROR",
        "INFRASTRUCTURE_ERROR", "WORKER_SHUTDOWN", "RUNTIME_UNAVAILABLE",
        "LEASE_EXPIRED", "INTERNAL_ERROR", "OPERATION_WAIT_TIMEOUT",
        "OPERATION_TIMEOUT", "STEP_TIMEOUT", "EXECUTION_TIMEOUT",
        "QUEUE_TIMEOUT", "OUTPUT_LIMIT_EXCEEDED", "RUNTIME_SESSION_LOST",
        "COMPLETION_FAILED"}) @@
    "valid_finalized_by" :> NullOrIn("finalized_by", {"AGENT",
        "WAIT_TIMEOUT", "MAX_RUNTIME"}) @@
    "valid_retry_strategy" :> In("retry_strategy", {"NOT_RETRYABLE",
        "FROM_FAILED_STEP", "FROM_START"}) @@
    "valid_runtime_session_cleanup_status" :>
        In("runtime_session_cleanup_status", {"NOT_REQUIRED", "PENDING",
        "SUCCEEDED", "FAILED"}) @@
    "valid_runtime_abort_status" :> In("runtime_abort_status",
        {"NOT_REQUIRED", "PENDING", "IDLE_CONFIRMED", "SESSION_DELETED",
        "SESSION_MISSING", "FAILED"}) @@
    "non_negative_retry_from_sequence" :>
        NullOrAtLeast("retry_from_sequence", 0) @@
    "non_negative_fencing_token" :> AtLeast("fencing_token", 0) @@
    "valid_notebook_projection_status" :> In("notebook_projection_status",
        {"NOT_STARTED", "PENDING", "SUCCEEDED", "FAILED"}) @@
    "non_negative_notebook_projection_attempt_count" :>
        AtLeast("notebook_projection_attempt_count", 0)

ExecutionsORM ==
    WithClient(
     [columns |-> ExecutionsColumnsORM,
      checks |->  ExecutionsChecksORM,
      uniques |-> "tenant_idempotency_key" :> {"tenant_id",
                      "idempotency_key"},
      refs |->    Nothing,
      indexes |-> "status_created_at" :> {"status", "created_at", "id"} @@
                  "created_cursor" :> {"created_at", "id"} @@
                  "user_created_cursor" :> {"user_id", "created_at", "id"} @@
                  "project_created_cursor" :> {"project_id", "created_at",
                      "id"} @@
                  "session_created_cursor" :> {"session_id", "created_at",
                      "id"} @@
                  "tenant_created_cursor" :> {"tenant_id", "created_at",
                      "id"} @@
                  "lease" :> {"status", "lease_expires_at"} @@
                  "cancellation_lease" :> {"status",
                      "cancellation_lease_expires_at"} @@
                  "retained_session_cleanup" :> {"status",
                      "retry_strategy", "retained_runtime_session_until"} @@
                  "runtime_target_id" :> {"runtime_target_id"} @@
                  "active_operation_id" :> {"active_operation_id"} @@
                  "operation_wait_expires_at" :>
                      {"operation_wait_expires_at"} @@
                  "execution_expires_at" :> {"execution_expires_at"}])

ExecutionStepsORM ==
    WithClient(
     [columns |-> Columns({"id", "execution_id", "operation_id", "sequence",
                           "source_type", "source_sha256",
                           "source_snapshot_path", "source_size_bytes",
                           "status", "input_parameters", "output_summary",
                           "result_representation_count",
                           "result_total_size_bytes", "created_at",
                           "updated_at"},
                          {"source_path", "code_hash", "step_timeout_seconds",
                           "skill_name", "tool_name",
                           "result_execution_attempt_id",
                           "result_manifest_path",
                           "result_manifest_checksum_sha256",
                           "result_manifest_size_bytes",
                           "result_fencing_token", "result_complete",
                           "error_message", "started_at", "finished_at"}),
      checks |->  "non_negative_sequence" :> AtLeast("sequence", 0) @@
                  "valid_step_timeout" :>
                      NullOrAtLeast("step_timeout_seconds", 1) @@
                  "valid_step_status" :> In("status", {"PENDING",
                      "RUNNING", "SUCCEEDED", "FAILED", "SKIPPED",
                      "CANCELLED"}) @@
                  "valid_source_type" :> In("source_type", {"INLINE",
                      "PATH"}) @@
                  "valid_source" :> Rule("SourceOfType"),
      uniques |-> "execution_sequence" :> {"execution_id", "sequence"},
      refs |->    "execution_id" :> Ref("executions", "CASCADE") @@
                  "operation_id" :> Ref("execution_operations", "CASCADE") @@
                  "result_execution_attempt_id" :>
                      Ref("execution_attempts", "SET_NULL"),
      indexes |-> "execution_id" :> {"execution_id"} @@
                  "operation_id" :> {"operation_id"}])

ExecutionStepRunsORM ==
     [columns |-> Columns({"execution_step_attempt_id", "execution_id",
                           "request_id", "artifact_baseline", "created_at"},
                          {"submitted_at"}),
      checks |->  Nothing,
      uniques |-> "request_id" :> {"request_id"},
      refs |->    "execution_step_attempt_id" :>
                      Ref("execution_step_attempts", "CASCADE") @@
                  "execution_id" :> Ref("executions", "CASCADE"),
      indexes |-> "execution_id" :> {"execution_id"}]

ExecutionHandoversORM ==
     [columns |-> Columns({"execution_id", "reason", "paused_since",
                           "created_at"},
                          {}),
      checks |->  Nothing,
      uniques |-> Nothing,
      refs |->    "execution_id" :> Ref("executions", "CASCADE"),
      indexes |-> Nothing]

ExecutorMaintenanceORM ==
    WithClient(
     [columns |-> Columns({"singleton_key", "admission_state", "version",
                           "created_at", "updated_at"},
                          {}),
      checks |->  "singleton_key" :> In("singleton_key", {"executor"}) @@
                  "valid_admission_state" :> In("admission_state",
                      {"ACTIVE", "DRAINING"}) @@
                  "non_negative_version" :> AtLeast("version", 0),
      uniques |-> Nothing,
      refs |->    Nothing,
      indexes |-> Nothing])

EventRetentionLeaseORM ==
     [columns |-> Columns({"singleton_key", "created_at", "updated_at"},
                          {"lease_owner", "lease_expires_at",
                           "last_started_at", "last_completed_at",
                           "last_error"}),
      checks |->  "complete_lease" :> SameNull("lease_owner",
                      "lease_expires_at"),
      uniques |-> Nothing,
      refs |->    Nothing,
      indexes |-> Nothing]

MaintenanceRunsORM ==
    WithClient(
     [columns |-> Columns({"id", "idempotency_key", "request_fingerprint",
                           "action", "status", "fencing_token", "created_at",
                           "updated_at"},
                          {"lease_owner", "lease_expires_at", "heartbeat_at",
                           "error_message", "started_at", "finished_at"}),
      checks |->  "valid_action" :> In("action",
                      {"STOP_ACTIVE_EXECUTIONS"}) @@
                  "valid_status" :> In("status", {"REQUESTED", "RUNNING",
                      "SUCCEEDED", "FAILED"}) @@
                  "non_negative_fencing_token" :> AtLeast("fencing_token",
                      0),
      uniques |-> "idempotency_key" :> {"idempotency_key"},
      refs |->    Nothing,
      indexes |-> "recovery" :> {"status", "lease_expires_at"} @@
                  "created" :> {"created_at", "id"}])

MaintenanceRunTargetsORM ==
    WithClient(
     [columns |-> Columns({"id", "maintenance_run_id", "execution_id",
                           "selected_execution_status", "status",
                           "created_at", "updated_at"},
                          {"error_message", "stop_requested_at",
                           "completed_at"}),
      checks |->  "valid_status" :> In("status", {"PENDING",
                      "STOP_REQUESTED", "STOPPED", "FAILED"}),
      uniques |-> "run_execution" :> {"maintenance_run_id", "execution_id"},
      refs |->    "maintenance_run_id" :> Ref("maintenance_runs",
                      "CASCADE") @@
                  "execution_id" :> Ref("executions", "NO_ACTION"),
      indexes |-> "run_status" :> {"maintenance_run_id", "status"} @@
                  "cursor" :> {"maintenance_run_id", "created_at", "id"}])

ExecutionOperationsORM ==
    WithClient(
     [columns |-> Columns({"id", "execution_id", "operation_number",
                           "schema_version", "first_sequence",
                           "last_sequence", "metadata", "idempotency_key",
                           "request_fingerprint", "status", "created_at",
                           "updated_at"},
                          {"operation_timeout_seconds",
                           "execution_attempt_id", "error_message",
                           "failure_type", "started_at", "finished_at"}),
      checks |->  "positive_operation_number" :>
                      AtLeast("operation_number", 1) @@
                  "supported_schema_version" :> In("schema_version",
                      {"1.0"}) @@
                  "non_negative_first_sequence" :>
                      AtLeast("first_sequence", 0) @@
                  "valid_operation_sequence_range" :> Rule("SequenceRange") @@
                  "valid_operation_timeout" :>
                      NullOrAtLeast("operation_timeout_seconds", 1) @@
                  "valid_operation_status" :> In("status", {"QUEUED",
                      "RUNNING", "SUCCEEDED", "FAILED", "CANCELLED"}) @@
                  "valid_operation_failure_type" :>
                      NullOrIn("failure_type", {"TOOL_ERROR",
                      "INFRASTRUCTURE_ERROR", "WORKER_SHUTDOWN",
                      "RUNTIME_UNAVAILABLE", "LEASE_EXPIRED", "INTERNAL_ERROR",
                      "OPERATION_WAIT_TIMEOUT", "OPERATION_TIMEOUT",
                      "STEP_TIMEOUT", "EXECUTION_TIMEOUT", "QUEUE_TIMEOUT",
                      "OUTPUT_LIMIT_EXCEEDED", "RUNTIME_SESSION_LOST",
                      "COMPLETION_FAILED"}),
      uniques |-> "operations_execution_number" :> {"execution_id",
                      "operation_number"} @@
                  "execution_idempotency_key" :> {"execution_id",
                      "idempotency_key"},
      refs |->    "execution_id" :> Ref("executions", "CASCADE") @@
                  "execution_attempt_id" :> Ref("execution_attempts",
                      "NO_ACTION"),
      indexes |-> "execution_number" :> {"execution_id",
                      "operation_number"}])

CommandReceiptsORM ==
     [columns |-> Columns({"id", "scope", "idempotency_key", "command_type",
                           "request_fingerprint", "result", "created_at"},
                          {}),
      checks |->  Nothing,
      uniques |-> "scope_idempotency_key" :> {"scope", "idempotency_key"},
      refs |->    Nothing,
      indexes |-> Nothing]

RuntimeTargetsORM ==
    WithClient(
     [columns |-> Columns({"id", "name", "runtime_type", "connection_config",
                           "connection_key", "credential_ref", "pool",
                           "status", "max_concurrent_executions",
                           "supported_profiles", "enabled", "resource_errors",
                           "created_at", "updated_at"},
                          {"credential_ciphertext", "last_health_check_at",
                           "last_health_error", "active_session_count",
                           "session_count_observed_at",
                           "resource_observed_at", "resource_last_check_at",
                           "resource_last_error", "resource_source",
                           "resource_estimated", "resource_process_count",
                           "cpu_used_cores", "cpu_capacity_cores",
                           "cpu_utilization", "memory_used_bytes",
                           "memory_capacity_bytes", "memory_utilization"}),
      checks |->  "valid_runtime_target_status" :> In("status", {"ACTIVE",
                      "DRAINING", "OFFLINE"}) @@
                  "valid_runtime_type" :> In("runtime_type", {"JUPYTER"}) @@
                  "positive_max_concurrency" :>
                      AtLeast("max_concurrent_executions", 1) @@
                  "non_negative_active_session_count" :>
                      NullOrAtLeast("active_session_count", 0),
      uniques |-> "name" :> {"name"} @@
                  "connection_key" :> {"connection_key"},
      refs |->    Nothing,
      indexes |-> "pool_status" :> {"pool", "enabled", "status"} @@
                  "created_cursor" :> {"created_at", "id"}])

RuntimeTargetPurgesORM ==
    WithClient(
     [columns |-> Columns({"id", "target_id", "target_name", "runtime_type",
                           "connection_config", "pool", "created_at",
                           "updated_at"},
                          {}),
      checks |->  "valid_pool" :> In("pool", {"INTERACTIVE", "BATCH"}) @@
                  "valid_runtime_type" :> In("runtime_type", {"JUPYTER"}),
      uniques |-> "target_id" :> {"target_id"},
      refs |->    Nothing,
      indexes |-> Nothing])

\* Base.metadata: every model the package registers.
Models ==
    "execution_artifacts" :> ExecutionArtifactsORM @@
    "execution_retries" :> ExecutionRetriesORM @@
    "execution_attempts" :> ExecutionAttemptsORM @@
    "execution_step_attempts" :> ExecutionStepAttemptsORM @@
    "execution_diagnostics" :> ExecutionDiagnosticsORM @@
    "execution_event_sequences" :> ExecutionEventSequencesORM @@
    "execution_events" :> ExecutionEventsORM @@
    "outbox_events" :> OutboxEventsORM @@
    "executions" :> ExecutionsORM @@
    "execution_steps" :> ExecutionStepsORM @@
    "execution_step_runs" :> ExecutionStepRunsORM @@
    "execution_handovers" :> ExecutionHandoversORM @@
    "executor_maintenance" :> ExecutorMaintenanceORM @@
    "event_retention_lease" :> EventRetentionLeaseORM @@
    "maintenance_runs" :> MaintenanceRunsORM @@
    "maintenance_run_targets" :> MaintenanceRunTargetsORM @@
    "execution_operations" :> ExecutionOperationsORM @@
    "command_receipts" :> CommandReceiptsORM @@
    "runtime_targets" :> RuntimeTargetsORM @@
    "runtime_target_purges" :> RuntimeTargetPurgesORM
=============================================================================
