------------------------------- MODULE Queries -------------------------------
(***************************************************************************)
(* The reads of the service, while others write.                          *)
(*                                                                         *)
(* A list is read in pages: each page is one statement that takes up where *)
(* the last row of the page before was, and its cursor holds only that     *)
(* row's key.  A result is read by several statements of one session at    *)
(* READ COMMITTED, so that each sees what was committed when it ran.       *)
(***************************************************************************)
EXTENDS Naturals, Sequences, FiniteSets

CONSTANTS
    NumRows,        \* rows a collection ever has
    NumTimes,       \* different creation times
    PageLimit       \* rows of a page

ASSUME RowsAssumption == NumRows \in Nat /\ NumTimes \in Nat \ {0}
ASSUME LimitAssumption == PageLimit \in Nat \ {0}

VARIABLES
    collection,     \* what is listed
    row,            \* its rows, by id
    listing,        \* the client's progress through the pages
    steady,         \* rows that were there and matched since it began
    stored,         \* an Execution of up to two Operations with a Step each
    bundle          \* the result that is being read

queryVars == <<collection, row, listing, steady, stored, bundle>>

Ids == 1 .. NumRows
Parts == {1, 2}

----------------------------------------------------------------------------
(* The collections.  A row's key is the time one of the processes gave it  *)
(* and its id, or a number that is given out under the Execution's lock,   *)
(* so that smaller numbers are committed first.  `changes' says that a row *)
(* may cease to match the filter, `deleted' that it may go away.           *)

ByTime(newestFirst, changes, deleted) ==
    [numbered |-> FALSE, newestFirst |-> newestFirst, changes |-> changes,
     deleted |-> deleted]

ByNumber(deleted) ==
    [numbered |-> TRUE, newestFirst |-> FALSE, changes |-> FALSE,
     deleted |-> deleted]

ListExecutions == ByTime(TRUE, TRUE, FALSE)
ListSteps == ByNumber(FALSE)
ListAttempts == ByNumber(FALSE)
ListAttemptSteps == ByNumber(FALSE)
ListOperations == ByNumber(FALSE)
ListOperationSteps == ByNumber(FALSE)
ListEvents == ByNumber(TRUE)
ListArtifacts == ByTime(FALSE, FALSE, FALSE)
ListDiagnostics == ByTime(FALSE, FALSE, FALSE)
ListRuntimeTargets == ByTime(FALSE, TRUE, TRUE)
ListRunTargets == ByTime(FALSE, FALSE, FALSE)

QueriedCollections ==
    {ListExecutions, ListSteps, ListAttempts, ListAttemptSteps, ListOperations,
     ListOperationSteps, ListEvents, ListArtifacts, ListDiagnostics,
     ListRuntimeTargets, ListRunTargets}

----------------------------------------------------------------------------
(* Pages.                                                                  *)

NoRow == [at |-> "none", time |-> 0, matches |-> TRUE]

\* Which of two rows comes first
Earlier(i, j) ==
    \/ row[i].time < row[j].time
    \/ row[i].time = row[j].time /\ i < j

InOrder(i, j) == IF collection.newestFirst THEN Earlier(j, i) ELSE Earlier(i, j)

Visible == {i \in Ids : row[i].at = "committed" /\ row[i].matches}

\* Mutant: the cursor forgets the id
BeyondTime(cursor, i) ==
    cursor # 0 => /\ row[cursor].time # row[i].time
                  /\ InOrder(cursor, i)

\* The rows after the cursor; 0 is no cursor.  A row that was deleted still
\* has the key its cursor names.
Beyond(cursor, i) == cursor # 0 => InOrder(cursor, i)

Remaining == {i \in Visible : Beyond(listing.cursor, i)}

\* ORDER BY the key, LIMIT limit + 1: the first rows that remain, in order
Selects(rows) ==
    /\ \A k, l \in DOMAIN rows : k < l => InOrder(rows[k], rows[l])
    /\ \A i \in Remaining :
         \/ \E k \in DOMAIN rows : rows[k] = i
         \/ Len(rows) > PageLimit /\ InOrder(rows[Len(rows)], i)

\* The last of limit + 1 rows only says that there is more
PageOf(rows) ==
    LET hasMore == Len(rows) > PageLimit
        items == IF hasMore THEN SubSeq(rows, 1, PageLimit) ELSE rows
    IN  [at |-> IF hasMore THEN "reading" ELSE "done",
         cursor |-> IF hasMore THEN rows[PageLimit] ELSE 0,
         items |-> listing.items \o items]

ReadPage ==
    /\ listing.at = "reading"
    /\ \E n \in 0 .. PageLimit + 1 : \E rows \in [1 .. n -> Remaining] :
         Selects(rows) /\ listing' = PageOf(rows)
    /\ UNCHANGED <<collection, row, steady, stored, bundle>>

BeginListing ==
    /\ listing.at = "idle"
    /\ listing' = [at |-> "reading", cursor |-> 0, items |-> << >>]
    /\ steady' = Visible
    /\ UNCHANGED <<collection, row, stored, bundle>>

----------------------------------------------------------------------------
(* Writers.  The time of a row is taken before its transaction commits.    *)

RowIs(i, new) ==
    /\ row' = [row EXCEPT ![i] = new]
    /\ UNCHANGED <<collection, listing, stored, bundle>>

Inserts ==
    /\ ~collection.numbered
    /\ \E i \in Ids, t \in 1 .. NumTimes :
         row[i] = NoRow /\ RowIs(i, [NoRow EXCEPT !.at = "open", !.time = t])
    /\ UNCHANGED steady

Commits ==
    /\ \E i \in Ids :
         /\ \/ row[i].at = "open"
            \/ /\ collection.numbered /\ row[i].at = "none"
               /\ \A j \in Ids : j < i => row[j].at # "none"
         /\ RowIs(i, [row[i] EXCEPT !.at = "committed"])
    /\ UNCHANGED steady

Changes ==
    /\ collection.changes
    /\ \E i \in Ids :
         /\ row[i].at = "committed"
         /\ RowIs(i, [row[i] EXCEPT !.matches = ~@])
         /\ steady' = steady \ {i}

\* Retention of events, in batches and whatever Execution they are of; purge
\* of a Runtime Target
Deletes ==
    /\ collection.deleted
    /\ \E i \in Ids :
         /\ row[i].at = "committed"
         /\ RowIs(i, [row[i] EXCEPT !.at = "gone"])
         /\ steady' = steady \ {i}

----------------------------------------------------------------------------
(* The rows of a result change, as the lifecycle changes them.             *)

Stores(new) ==
    /\ stored' = new
    /\ UNCHANGED <<collection, row, listing, steady, bundle>>

Active == Cardinality({p \in Parts : stored.operation[p] # "NONE"})

StepIs(status) == Stores([stored EXCEPT !.step[Active] = status])

Claimed ==
    /\ stored.execution = "QUEUED"
    /\ Stores([stored EXCEPT !.execution = "RUNNING",
                             !.operation[Active] = "RUNNING"])

StepRuns ==
    /\ stored.execution = "RUNNING"
    /\ \/ stored.step[Active] = "PENDING" /\ StepIs("RUNNING")
       \/ /\ stored.step[Active] = "RUNNING"
          /\ StepIs("SUCCEEDED") \/ StepIs("FAILED")

\* MULTI: an Operation that succeeded, or whose Step failed, ends alone
OperationEnds ==
    /\ stored.mode = "MULTI" /\ stored.execution = "RUNNING"
    /\ stored.step[Active] \in {"SUCCEEDED", "FAILED"}
    /\ Stores([stored EXCEPT !.execution = "WAITING_FOR_OPERATION",
                             !.operation[Active] = stored.step[Active]])

\* ... and another one may follow, after a failure to correct it
NewOperation ==
    /\ stored.execution = "WAITING_FOR_OPERATION" /\ Active < 2
    /\ Stores([stored EXCEPT !.execution = "QUEUED",
                             !.operation[Active + 1] = "QUEUED",
                             !.step[Active + 1] = "PENDING"])

\* request_finalization looks at the Steps of the last Operation only
FinalizationRequested ==
    /\ stored.execution = "WAITING_FOR_OPERATION"
    /\ stored.step[Active] = "SUCCEEDED"
    /\ Stores([stored EXCEPT !.execution = "FINALIZING"])

Succeeds ==
    /\ \/ stored.mode = "SINGLE" /\ stored.execution = "RUNNING"
                                /\ stored.step[Active] = "SUCCEEDED"
       \/ stored.execution = "FINALIZING"
    /\ Stores([stored EXCEPT !.execution = "SUCCEEDED",
                             !.operation[Active] = "SUCCEEDED"])

\* A Worker was lost, a Step of SINGLE failed or the end could not be
\* written: the Step that ran fails with the Execution, one that did not is
\* skipped, and an Operation that had ended stays as it was
Fails ==
    /\ stored.execution \in {"RUNNING", "FINALIZING"}
    /\ Stores([stored EXCEPT
            !.execution = "FAILED",
            !.operation[Active] = IF @ = "RUNNING" THEN "FAILED" ELSE @,
            !.step[Active] = IF @ = "RUNNING" THEN "FAILED"
                             ELSE IF @ = "PENDING" THEN "SKIPPED" ELSE @])

\* request_retry, of SINGLE only
RetriedResult ==
    /\ stored.mode = "SINGLE" /\ stored.execution = "FAILED"
    /\ Stores([stored EXCEPT !.execution = "QUEUED",
                             !.operation[Active] = "QUEUED",
                             !.step[Active] = "PENDING"])

----------------------------------------------------------------------------
(* execution_result_snapshot and operation_result_snapshot: a statement    *)
(* for the Execution, one for its Operations, one for its Steps.           *)

\* Mutant: the Steps are read first
StepsFirst == <<"step", "operation", "execution">>

Statements == <<"execution", "operation", "step">>

ReadStatement ==
    /\ bundle.read < Len(Statements)
    /\ LET table == Statements[bundle.read + 1] IN
       bundle' = [bundle EXCEPT ![table] = stored[table], !.read = @ + 1]
    /\ UNCHANGED <<collection, row, listing, steady, stored>>

----------------------------------------------------------------------------
QueriesInit ==
    /\ collection \in QueriedCollections
    /\ row = [i \in Ids |-> NoRow]
    /\ listing = [at |-> "idle", cursor |-> 0, items |-> << >>]
    /\ steady = {}
    /\ stored \in [mode : {"SINGLE", "MULTI"}, execution : {"QUEUED"},
                   operation : {<<"QUEUED", "NONE">>},
                   step : {<<"PENDING", "NONE">>}]
    /\ bundle = [read |-> 0, execution |-> "NONE",
                 operation |-> <<"NONE", "NONE">>, step |-> <<"NONE", "NONE">>]

PageNext ==
    BeginListing \/ ReadPage \/ Inserts \/ Commits \/ Changes \/ Deletes

SnapshotNext ==
    \/ Claimed \/ StepRuns \/ OperationEnds \/ NewOperation
    \/ FinalizationRequested \/ Succeeds \/ Fails \/ RetriedResult
    \/ ReadStatement

----------------------------------------------------------------------------
(* Properties.                                                             *)

\* A list read page by page while rows are added, change and go away has no
\* row twice, and every row that was there and matched from its first page
\* on; a list by number has no gap, whatever was committed meanwhile.
PagesMissNothing ==
    LET items == listing.items
        given == {items[k] : k \in 1 .. Len(items)}
    IN
    /\ \A k, l \in 1 .. Len(items) : items[k] = items[l] => k = l
    /\ listing.at = "done" => steady \subseteq given
    /\ collection.numbered /\ items # << >> =>
         \A i \in Visible : i <= items[Len(items)] => i \in given

\* An Operation that a result shows as SUCCEEDED has its Step as it was when
\* it did, and an Execution that it shows as SUCCEEDED has a last Operation
\* that did (an earlier one may have failed and been corrected), although a
\* retry, the next Step or another Operation may be committed between any two
\* of its statements.
BundleAgrees ==
    bundle.read = Len(Statements) =>
        /\ \A p \in Parts :
             bundle.operation[p] = "SUCCEEDED" => bundle.step[p] = "SUCCEEDED"
        /\ bundle.execution = "SUCCEEDED" =>
             \E p \in Parts :
                /\ bundle.operation[p] = "SUCCEEDED"
                /\ \A q \in Parts : q > p => bundle.operation[q] = "NONE"

=============================================================================
