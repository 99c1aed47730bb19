------------------------- MODULE ExecutionContract -------------------------
(***************************************************************************)
(* What the service promises the caller of one Execution, with no Workers, *)
(* leases, kernels or passes: a status, and the Steps of its active        *)
(* Operation, run one after the other by what looks like a single process. *)
(* A Step starts only once every earlier Step has succeeded, only while    *)
(* the Execution runs and only if no other Step runs; a result, once       *)
(* given, stays until the caller retries or asks for another Operation;    *)
(* an Execution ends with no Step left open, and succeeds only if every    *)
(* Step did.                                                               *)
(***************************************************************************)
EXTENDS ExecutionStore

VARIABLES
    status,     \* status of the Execution, as every query reports it
    steps       \* status of each Step of the active Operation

contractVars == <<status, steps>>

Closed == \A s \in Seqs : steps[s] \notin {"PENDING", "RUNNING"}

AllSucceeded == \A s \in Seqs : steps[s] = "SUCCEEDED"

ContractInit ==
    /\ status = "QUEUED"
    /\ steps = [s \in Seqs |-> "PENDING"]

StepStarts(s) ==
    /\ status = "RUNNING" /\ steps[s] = "PENDING"
    /\ \A t \in Seqs : t < s => steps[t] = "SUCCEEDED"
    /\ \A t \in Seqs : steps[t] # "RUNNING"
    /\ steps' = [steps EXCEPT ![s] = "RUNNING"]
    /\ UNCHANGED status

StepEnds(s, result) ==
    /\ status = "RUNNING" /\ steps[s] = "RUNNING"
    /\ steps' = [steps EXCEPT ![s] = result]
    /\ UNCHANGED status

\* A correction can follow: the Steps after the failed one are given up
RestSkipped ==
    /\ status = "RUNNING"
    /\ \E s \in Seqs :
         /\ steps[s] = "FAILED"
         /\ \A t \in Seqs : t < s => steps[t] = "SUCCEEDED"
         /\ steps' = [t \in Seqs |-> IF t > s THEN "SKIPPED" ELSE steps[t]]
    /\ UNCHANGED status

\* Everything that moves the Execution without giving it an outcome.  A run
\* is put back in the queue only before any of its Steps started.
Moves(new) ==
    /\ new \in EXECUTION_TRANSITIONS[status] \ TerminalStatus
    /\ status # "FAILED"
    /\ new = "WAITING_FOR_OPERATION" => Closed
    /\ new = "FINALIZING" => AllSucceeded
    /\ status = "RUNNING" /\ new = "QUEUED" =>
         \A s \in Seqs : steps[s] \in {"SUCCEEDED", "PENDING"}
    /\ status = "WAITING_FOR_OPERATION" => new # "QUEUED"
    /\ status' = new
    /\ UNCHANGED steps

Succeeds ==
    /\ status = "RUNNING" /\ AllSucceeded
    /\ status' = "SUCCEEDED"
    /\ UNCHANGED steps

EndsBadly(outcome) ==
    /\ outcome \in EXECUTION_TRANSITIONS[status]
    /\ status' = outcome
    /\ steps' = EndedSteps(steps, outcome)

\* A retry repeats the Execution from a Step all of whose predecessors stand
Retried(from) ==
    /\ status = "FAILED"
    /\ \A s \in Seqs : s < from => steps[s] = "SUCCEEDED"
    /\ status' = "QUEUED"
    /\ steps' = [s \in Seqs |-> IF s < from THEN steps[s] ELSE "PENDING"]

NextOperation ==
    /\ status = "WAITING_FOR_OPERATION"
    /\ status' = "QUEUED"
    /\ steps' = [s \in Seqs |-> "PENDING"]

ContractNext ==
    \/ \E s \in Seqs : StepStarts(s)
    \/ \E s \in Seqs, result \in {"SUCCEEDED", "FAILED"} : StepEnds(s, result)
    \/ RestSkipped
    \/ \E new \in ExecutionStatus : Moves(new)
    \/ Succeeds
    \/ \E outcome \in {"FAILED", "CANCELLED"} : EndsBadly(outcome)
    \/ \E from \in Seqs : Retried(from)
    \/ NextOperation

ContractSpec == ContractInit /\ [][ContractNext]_contractVars

=============================================================================
