------------------------------ MODULE Workspace ------------------------------
(***************************************************************************)
(* What an Execution leaves in its workspace on the Runtime's volume, and  *)
(* what the database says of it: the notebook, the files its code wrote    *)
(* (Artifacts) and the report a caller adds after it has ended.            *)
(*                                                                         *)
(* The volume is written by calls to the Jupyter server, the rows by       *)
(* transactions that check the lease; between the check and the call lies  *)
(* a network, and a Worker that was replaced meanwhile writes all the      *)
(* same.  One Step is run by up to NumRuns runs, each a takeover of the    *)
(* Step that still runs or a retry; run r has fencing token r and its      *)
(* result is called r.                                                     *)
(***************************************************************************)
EXTENDS Naturals, FiniteSets, Sequences

CONSTANTS
    NumRuns,            \* Bound: takeovers and retries
    MaxVersions,        \* Bound: changes the code makes to its file
    Callers,            \* clients that add the same report
    MaxCallFaults       \* Bound: failed calls, expired leases, crashes

ASSUME RunsAssumption == NumRuns \in Nat \ {0}
ASSUME VersionsAssumption == MaxVersions \in Nat
ASSUME CallFaultsAssumption == MaxCallFaults \in Nat

VARIABLES
    execution,      \* the row, its Step and its Step run
    job,            \* what each run is doing
    notebook,       \* the file: the results it shows, the reports appended
    file,           \* the version of the code's file, 0 before the first
    artifacts,      \* the rows
    code,           \* the code of the Step: NEW, RUNNING, ENDED
    late,           \* a replaced Worker's write has reached the notebook
    receipt,        \* of the report's idempotency key
    caller,         \* what each caller is doing
    lock,           \* the caller that holds the Execution's row
    callFaults

workspaceVars == <<execution, job, notebook, file, artifacts, code, late,
                   receipt, caller, lock, callFaults>>

Runs == 1 .. NumRuns
NoRun == 0
NoOne == "none"
ASSUME CallersAssumption == NoOne \notin Callers

\* The content of a command: given, or a result or file it names
Bodies == {"x", "y"}

WorkspaceInit ==
    /\ execution = [status |-> "QUEUED", owner |-> NoRun, attempt |-> 0,
                    step |-> "QUEUED", result |-> NoRun, complete |-> FALSE,
                    projection |-> "NOT_STARTED", registered |-> FALSE,
                    baseline |-> 0, handover |-> FALSE]
    /\ job = [r \in Runs |-> [pc |-> "new", before |-> 0, doc |-> NoRun,
                              found |-> {}, failing |-> FALSE]]
    /\ notebook = [shows |-> NoRun, reports |-> << >>]
    /\ file = 0 /\ artifacts = {} /\ code = "NEW" /\ late = FALSE
    /\ receipt = [body |-> NoOne, done |-> FALSE]
    /\ caller = [c \in Callers |->
                    [pc |-> "idle", body |-> "x", doc |-> << >>]]
    /\ lock = NoOne
    /\ callFaults = 0

\* require_active_lease
Holds(r) == execution.owner = r /\ execution.status = "RUNNING"

Steps(r, pc) == job' = [job EXCEPT ![r].pc = pc]

\* Every transaction of a replaced Worker ends its run
Lost(r) == ~Holds(r) /\ Steps(r, "lost") /\ UNCHANGED execution

Outside == UNCHANGED <<receipt, caller, lock>>
Files == UNCHANGED <<notebook, file, code, late>>

Fault == callFaults < MaxCallFaults /\ callFaults' = callFaults + 1

----------------------------------------------------------------------------
(* A run begins.                                                           *)

Claims(r) ==
    /\ execution.owner = NoRun /\ job[r].pc = "new"
    /\ \A q \in Runs : q < r => job[q].pc # "new"
    /\ \/ /\ execution.status = "QUEUED"
          /\ execution' = [execution EXCEPT !.status = "RUNNING", !.owner = r,
                                            !.attempt = @ + 1]
          /\ Steps(r, "prepare")
       \/ /\ execution.status = "RUNNING" /\ execution.handover
          /\ execution' = [execution EXCEPT !.owner = r, !.handover = FALSE]
          /\ Steps(r, "load")
    /\ Files /\ Outside /\ UNCHANGED <<artifacts, callFaults>>

\* Mutant: a takeover looks at the workspace as it is now
LoadsAnew(r) ==
    /\ job[r].pc = "load"
    /\ \/ /\ Holds(r)
          /\ job' = [job EXCEPT ![r].pc = "follow", ![r].before = file]
          /\ UNCHANGED execution
       \/ Lost(r)
    /\ Files /\ Outside /\ UNCHANGED <<artifacts, callFaults>>

\* load_run: what the workspace held before the Step is in its run
LoadsRun(r) ==
    /\ job[r].pc = "load"
    /\ \/ /\ Holds(r)
          /\ job' = [job EXCEPT ![r].pc = "follow",
                                ![r].before = execution.baseline]
          /\ UNCHANGED execution
       \/ Lost(r)
    /\ Files /\ Outside /\ UNCHANGED <<artifacts, callFaults>>

\* The lease is checked, then the notebook is written by a call: without
\* results before the Steps (prepare), with them after one (project)
Asserts(r) ==
    /\ \/ job[r].pc = "prepare" /\ ((Holds(r) /\ Steps(r, "blank")) \/ Lost(r))
       \/ job[r].pc = "assert" /\ ((Holds(r) /\ Steps(r, "write")) \/ Lost(r))
    /\ UNCHANGED execution
    /\ Files /\ Outside /\ UNCHANGED <<artifacts, callFaults>>

Written(r) ==
    /\ notebook' = [shows |-> job[r].doc, reports |-> << >>]
    /\ late' = (late \/ ~Holds(r))

\* prepare_notebook: one cell without output for each Step
PreparesNotebook(r) ==
    /\ job[r].pc = "blank" /\ Written(r) /\ Steps(r, "listed")
    /\ Outside /\ UNCHANGED <<execution, file, code, artifacts, callFaults>>

\* write_notebook
WritesNotebook(r) ==
    /\ job[r].pc = "write" /\ Written(r) /\ Steps(r, "record")
    /\ Outside /\ UNCHANGED <<execution, file, code, artifacts, callFaults>>

\* Mutant: a write that was not acknowledged counts as done
WriteUnacknowledged(r) ==
    /\ job[r].pc = "write" /\ Fault
    /\ Written(r) \/ UNCHANGED <<notebook, late>>
    /\ Steps(r, "record")
    /\ Outside /\ UNCHANGED <<execution, file, code, artifacts>>

\* The call fails, or its answer is lost: project() checks and writes again
WriteRepeats(r) ==
    /\ job[r].pc = "write" /\ Fault
    /\ Written(r) \/ UNCHANGED <<notebook, late>>
    /\ Steps(r, "assert")
    /\ Outside /\ UNCHANGED <<execution, file, code, artifacts>>

\* register_notebook: one row for the file, refreshed by every run
Registers(r) ==
    /\ job[r].pc \in {"listed", "register"}
    /\ \/ /\ Holds(r)
          /\ execution' = [execution EXCEPT !.registered = TRUE]
          /\ Steps(r, IF job[r].pc = "listed" THEN "start" ELSE "discover")
       \/ Lost(r)
    /\ Files /\ Outside /\ UNCHANGED <<artifacts, callFaults>>

\* artifact_snapshot: the path, size and mtime of every file
Snapshot == file

\* mark_started; the code is submitted
Started(r) ==
    /\ execution' = [execution EXCEPT !.step = "RUNNING", !.result = NoRun,
                        !.complete = FALSE, !.baseline = Snapshot]
    /\ job' = [job EXCEPT ![r].pc = "follow", ![r].before = Snapshot]
    /\ code' = "RUNNING"

StartsStep(r) ==
    /\ job[r].pc = "start"
    /\ \/ Holds(r) /\ Started(r)
       \/ Lost(r) /\ UNCHANGED code
    /\ Outside /\ UNCHANGED <<notebook, file, late, artifacts, callFaults>>

\* The Step's code, on the kernel
CodeWrites ==
    /\ code = "RUNNING" /\ file < MaxVersions
    /\ file' = file + 1
    /\ Outside
    /\ UNCHANGED <<execution, job, notebook, code, late, artifacts, callFaults>>

CodeEnds ==
    /\ code = "RUNNING" /\ code' = "ENDED"
    /\ Outside /\ UNCHANGED <<execution, job, notebook, file, late, artifacts,
                              callFaults>>

----------------------------------------------------------------------------
(* A run ends.                                                             *)

\* mark_succeeded and mark_failed, with the result that was sealed: the
\* code has ended, or a limit has and the code is aborted first
Marked(r, status) ==
    /\ execution' = [execution EXCEPT !.step = status, !.result = r,
                        !.complete = (status = "SUCCEEDED")]
    /\ job' = [job EXCEPT ![r].pc = "project",
                          ![r].failing = (status = "FAILED")]
    /\ code' = "ENDED"

Marks(r) ==
    /\ job[r].pc = "follow"
    /\ \/ Holds(r) /\ code = "ENDED" /\ Marked(r, "SUCCEEDED")
       \/ Holds(r) /\ Marked(r, "FAILED")
       \/ Lost(r) /\ UNCHANGED code
    /\ Outside /\ UNCHANGED <<notebook, file, late, artifacts, callFaults>>

\* _record_projection
ProjectionIs(status) == execution' = [execution EXCEPT !.projection = status]

\* project: the rows are read in the transaction that says PENDING
Projects(r) ==
    /\ job[r].pc = "project"
    /\ \/ /\ Holds(r)
          /\ ProjectionIs("PENDING")
          /\ job' = [job EXCEPT ![r].pc = "assert",
                                ![r].doc = execution.result]
       \/ Lost(r)
    /\ Files /\ Outside /\ UNCHANGED <<artifacts, callFaults>>

\* _record_projection after the write, or after the last attempt has failed:
\* that fails the run, unless it is failing already
RecordsProjection(r) ==
    /\ \/ /\ job[r].pc = "record" /\ Holds(r) /\ UNCHANGED callFaults
          /\ ProjectionIs("SUCCEEDED")
          /\ Steps(r, "register")
       \/ /\ job[r].pc = "write" /\ Holds(r) /\ Fault
          /\ ProjectionIs("FAILED")
          /\ Steps(r, IF job[r].failing THEN "discover" ELSE "fail")
       \/ /\ job[r].pc = "record" /\ Lost(r) /\ UNCHANGED callFaults
    /\ Files /\ Outside /\ UNCHANGED artifacts

\* discover: what differs from what was there before the Step
Found(r) == {Snapshot} \ {job[r].before}

Discovers(r) ==
    /\ job[r].pc = "discover"
    /\ job' = [job EXCEPT ![r].pc = "rows", ![r].found = Found(r)]
    /\ Files /\ Outside /\ UNCHANGED <<execution, artifacts, callFaults>>

Artifact(r, version) ==
    [attempt |-> execution.attempt, version |-> version,
     status |-> IF job[r].failing THEN "INCOMPLETE" ELSE "AVAILABLE"]

\* publish_success goes on to the end of the run; after a failure the files
\* are evidence, and the failure stands (register_incomplete)
Continues(r) == IF job[r].failing THEN "fail" ELSE "complete"

\* persist; without descriptors it returns before it checks the lease
Persists(r) ==
    /\ job[r].pc = "rows"
    /\ \/ /\ Holds(r) \/ job[r].found = {}
          /\ artifacts' = artifacts \cup {Artifact(r, v) : v \in job[r].found}
          /\ Steps(r, Continues(r))
          /\ UNCHANGED execution
       \/ job[r].found # {} /\ Lost(r) /\ UNCHANGED artifacts
    /\ Files /\ Outside /\ UNCHANGED callFaults

\* require_completed_results
ResultsAreComplete ==
    /\ execution.step = "SUCCEEDED" /\ execution.complete
    /\ execution.projection = "SUCCEEDED" /\ execution.registered

\* finalize
EndsRun(r) ==
    /\ \/ /\ job[r].pc = "complete" /\ Holds(r) /\ ResultsAreComplete
          /\ execution' = [execution EXCEPT !.status = "SUCCEEDED",
                                            !.owner = NoRun]
       \/ /\ job[r].pc = "fail" /\ Holds(r)
          /\ execution' = [execution EXCEPT !.status = "FAILED",
                !.owner = NoRun,
                !.step = IF @ = "SUCCEEDED" THEN @ ELSE "FAILED"]
       \/ job[r].pc \in {"complete", "fail"} /\ ~Holds(r) /\ UNCHANGED execution
    /\ Steps(r, "end")
    /\ Files /\ Outside /\ UNCHANGED <<artifacts, callFaults>>

\* A call to the server or to the result store fails for good.  The failure
\* of a run that is failing already is not replaced (project_after_failure),
\* and a notebook whose preparation was not answered may be blank.
RunBreaks(r) ==
    /\ job[r].pc \in {"blank", "start", "follow", "register", "discover"}
    /\ Fault
    /\ Steps(r, IF job[r].failing /\ job[r].pc = "register"
                THEN "discover" ELSE "fail")
    /\ code' = IF code = "RUNNING" THEN "ENDED" ELSE code
    /\ (job[r].pc = "blank" /\ Written(r)) \/ UNCHANGED <<notebook, late>>
    /\ Outside
    /\ UNCHANGED <<execution, file, artifacts>>

\* A retry; the caller of a failed Execution asks for it
Retries ==
    /\ execution.status = "FAILED" /\ \E r \in Runs : job[r].pc = "new"
    /\ execution' = [execution EXCEPT !.status = "QUEUED", !.step = "QUEUED"]
    /\ code' = "NEW"
    /\ Outside
    /\ UNCHANGED <<job, notebook, file, late, artifacts, callFaults>>

\* The lease of a Worker that stalls or is gone expires: a Step that runs is
\* left to the next one; otherwise the Execution fails, and what was
\* projected before says nothing about it (fence_expired_leases)
LeaseExpires ==
    /\ execution.status = "RUNNING" /\ execution.owner # NoRun /\ Fault
    /\ IF execution.step = "RUNNING"
       THEN execution' = [execution EXCEPT !.owner = NoRun, !.handover = TRUE]
       ELSE execution' = [execution EXCEPT !.owner = NoRun,
                            !.status = "FAILED", !.projection = "FAILED"]
    /\ Outside /\ Files /\ UNCHANGED <<job, artifacts>>

----------------------------------------------------------------------------
(* MaterializedArtifactService.materialize                                 *)

CallerAt(c, pc) == caller' = [caller EXCEPT ![c].pc = pc]
Answers(c) == caller' = [caller EXCEPT ![c].pc = "answered"]

Inside == UNCHANGED <<execution, job, file, code, late>>

\* A conflict is refused wherever the receipt is looked at
Conflicts(c) == receipt.body \notin {NoOne, caller[c].body}

\* The same command again, or another one under its key
Looks(c) ==
    /\ caller[c].pc = "idle"
    /\ \E body \in Bodies :
         caller' = [caller EXCEPT ![c].body = body, ![c].pc =
            IF \/ receipt.body \notin {NoOne, body} \/ receipt.done
               \/ execution.status # "SUCCEEDED"
            THEN "answered" ELSE "reserve"]
    /\ Inside /\ UNCHANGED <<notebook, artifacts, receipt, lock, callFaults>>

\* reserve: the key is owned before any file is changed
Reserves(c) ==
    /\ caller[c].pc = "reserve"
    /\ \/ /\ receipt.body = NoOne
          /\ receipt' = [receipt EXCEPT !.body = caller[c].body]
          /\ CallerAt(c, "lock")
       \/ /\ receipt.body = caller[c].body
          /\ CallerAt(c, "lock") /\ UNCHANGED receipt
       \/ Conflicts(c) /\ Answers(c) /\ UNCHANGED receipt
    /\ Inside /\ UNCHANGED <<notebook, artifacts, lock, callFaults>>

\* locked, completed
Locks(c) ==
    /\ caller[c].pc = "lock" /\ lock = NoOne
    /\ \/ receipt.done /\ Answers(c) /\ UNCHANGED lock
       \/ ~receipt.done /\ CallerAt(c, "text") /\ lock' = c
    /\ Inside /\ UNCHANGED <<notebook, artifacts, receipt, callFaults>>

\* write_text
WritesText(c) ==
    /\ caller[c].pc = "text" /\ CallerAt(c, "read")
    /\ Inside /\ UNCHANGED <<notebook, artifacts, receipt, lock, callFaults>>

\* Mutant: nobody looks for the cell
AppendsAgain(c) ==
    /\ caller[c].pc = "read"
    /\ caller' = [caller EXCEPT ![c].doc = notebook.reports, ![c].pc = "append"]
    /\ Inside /\ UNCHANGED <<notebook, artifacts, receipt, lock, callFaults>>

\* read_notebook; a cell with this key is not appended again
ReadsNotebook(c) ==
    /\ caller[c].pc = "read"
    /\ caller' = [caller EXCEPT ![c].doc = notebook.reports,
            ![c].pc = IF notebook.reports = << >> THEN "append" ELSE "persist"]
    /\ Inside /\ UNCHANGED <<notebook, artifacts, receipt, lock, callFaults>>

\* append_notebook_markdown
Appended(c) ==
    notebook' = [notebook EXCEPT !.reports = caller[c].doc \o <<caller[c].body>>]

AppendsReport(c) ==
    /\ caller[c].pc = "append" /\ Appended(c) /\ CallerAt(c, "persist")
    /\ Inside /\ UNCHANGED <<artifacts, receipt, lock, callFaults>>

\* persist, and the commit that gives the row back
PersistsReport(c) ==
    /\ caller[c].pc = "persist"
    /\ receipt' = [receipt EXCEPT !.done = TRUE]
    /\ artifacts' = artifacts \cup
            {[attempt |-> 0, version |-> caller[c].body, status |-> "AVAILABLE"]}
    /\ lock' = NoOne /\ Answers(c)
    /\ Inside /\ UNCHANGED <<notebook, callFaults>>

\* A call fails, or the process dies: the transaction is rolled back, the
\* receipt stays PENDING, and the caller may ask again
CallFails(c) ==
    /\ caller[c].pc \in {"text", "read", "append", "persist"} /\ Fault
    /\ (caller[c].pc = "append" /\ Appended(c)) \/ UNCHANGED notebook
    /\ lock' = NoOne /\ CallerAt(c, "idle")
    /\ Inside /\ UNCHANGED <<artifacts, receipt>>

WorkspaceNext ==
    \/ \E r \in Runs :
         \/ Claims(r) \/ LoadsRun(r) \/ Asserts(r)
         \/ PreparesNotebook(r) \/ WritesNotebook(r)
         \/ WriteRepeats(r) \/ Registers(r) \/ StartsStep(r) \/ Marks(r)
         \/ Projects(r) \/ RecordsProjection(r) \/ Discovers(r)
         \/ Persists(r) \/ EndsRun(r) \/ RunBreaks(r)
    \/ CodeWrites \/ CodeEnds \/ Retries \/ LeaseExpires
    \/ \E c \in Callers :
         \/ Looks(c) \/ Reserves(c) \/ Locks(c) \/ WritesText(c)
         \/ ReadsNotebook(c) \/ AppendsReport(c) \/ PersistsReport(c)
         \/ CallFails(c)

----------------------------------------------------------------------------
(* Properties.                                                             *)

\* The notebook of a SUCCEEDED Execution shows the result its Step's row
\* refers to, after any failed run, takeover and repeated write, unless the
\* write of a Worker that had been replaced reached it later.
NotebookShowsResult ==
    execution.status = "SUCCEEDED" /\ ~late =>
        notebook.shows = execution.result /\ execution.result # NoRun

\* Every file that the code of a SUCCEEDED Execution's last attempt left
\* behind is an AVAILABLE Artifact of that attempt, also when another Worker
\* than the one that started the Step finished it.
FilesAreRegistered ==
    execution.status = "SUCCEEDED" /\ file # execution.baseline =>
        [attempt |-> execution.attempt, version |-> file,
         status |-> "AVAILABLE"] \in artifacts

\* A report that was acknowledged is in the notebook once, and under one
\* key no other report ever is, however often, by whomever and after
\* whatever failure it is asked for.
ReportIsAppendedOnce ==
    /\ receipt.done /\ ~late => notebook.reports = <<receipt.body>>
    /\ notebook.reports \in {<< >>, <<receipt.body>>}

=============================================================================
