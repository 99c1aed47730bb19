----------------------------- MODULE ResultStore -----------------------------
(***************************************************************************)
(* The result directory of one Step run on the shared volume.              *)
(*                                                                         *)
(* A Worker fills <token>.partial and seals it by renaming it to <token>.  *)
(* Every call of the store runs in a thread under a lock of the result;    *)
(* when the caller is cancelled by a limit or by the user, the lock is     *)
(* released and the thread goes on.  So the thread of the call that was    *)
(* interrupted runs beside the one that seals what there is.               *)
(*                                                                         *)
(* Outputs are numbered; the file of an output's representations has the   *)
(* number of the output.  The volume is POSIX: writing a file atomically   *)
(* creates its directory, and renaming onto a directory with files fails.  *)
(***************************************************************************)
EXTENDS Naturals, Sequences, FiniteSets

CONSTANTS
    NumOutputs,         \* outputs of the code
    MaxStorageFaults    \* Bound: failed file operations

ASSUME NumOutputsAssumption == NumOutputs \in Nat \ {0}
ASSUME StorageFaultsAssumption == MaxStorageFaults \in Nat

VARIABLES
    partial,        \* the directory being filled
    final,          \* the sealed directory
    log,            \* _OutputLog: its counter, and whether _logs has it
    thread,         \* the thread of each call
    worker,         \* the Worker that runs the Step
    reference,      \* the reference in the Step's row
    storageFaults

resultVars ==
    <<partial, final, log, thread, worker, reference, storageFaults>>

Outputs == 1 .. NumOutputs
Sealers == {"finalize", "preserve", "again"}
Calls == {"begin", "append"} \cup Sealers
Terminal == {"FINALIZED", "FAILED", "ABORTED"}

NoDirectory == [there |-> FALSE]
NoManifest == [state |-> "NONE"]
NoLog == <<0>>
Nothing == [state |-> "NOTHING"]     \* what an interrupted or failed call gave

Empty == [there |-> TRUE, state |-> FALSE, log |-> NoLog, files |-> {},
          manifest |-> NoManifest]

\* atomic_write creates the directory of the file
Made(directory) == IF directory.there THEN directory ELSE Empty

Idle == [at |-> "idle", name |-> "", read |-> << >>, got |-> Nothing]

Done(got) == [at |-> "done", name |-> "", read |-> << >>, got |-> got]

Raised == Done(Nothing)
Returned == Done([state |-> "OK"])

ResultInit ==
    /\ partial = NoDirectory /\ final = NoDirectory
    /\ log = [count |-> 0, cached |-> FALSE]
    /\ thread = [[c \in Calls |-> Idle] EXCEPT !["begin"].at = "mkdir"]
    /\ worker = [pc |-> "begin", offset |-> 0, stored |-> Nothing]
    /\ reference = Nothing
    /\ storageFaults = 0

At(c, pc) == thread[c].at = pc

\* The thread of call c goes on
Goes(c, pc) == thread' = [thread EXCEPT ![c].at = pc]
Ends(c, how) == thread' = [thread EXCEPT ![c] = how]

Waits == UNCHANGED <<worker, reference, storageFaults>>

----------------------------------------------------------------------------
(* FilesystemStepResultStore.begin                                         *)

BeginMakes ==
    /\ At("begin", "mkdir")
    /\ partial' = Empty /\ Goes("begin", "open")
    /\ UNCHANGED <<final, log>> /\ Waits

BeginOpens ==
    /\ At("begin", "open")
    /\ partial' = [Made(partial) EXCEPT !.state = TRUE, !.log = << >>]
    /\ Ends("begin", Returned)
    /\ UNCHANGED <<final, log>> /\ Waits

----------------------------------------------------------------------------
(* append and seal look at the directory first: _open_log.                 *)

Openable == partial.there /\ (log.cached \/ partial.state)

OpenedLog ==
    IF log.cached THEN log
    ELSE [count |-> Len(partial.log), cached |-> TRUE]

----------------------------------------------------------------------------
(* FilesystemStepResultStore.append                                        *)

AppendOpens ==
    /\ At("append", "open")
    /\ IF Openable /\ OpenedLog.count = worker.offset
       THEN log' = OpenedLog /\ Goes("append", "file")
       ELSE UNCHANGED log /\ Ends("append", Raised)
    /\ UNCHANGED <<partial, final>> /\ Waits

\* Mutant: a failed write of the representations is swallowed
AppendFileLenient ==
    /\ At("append", "file")
    /\ \/ partial' = [Made(partial) EXCEPT !.files = @ \cup {worker.offset + 1}]
       \/ UNCHANGED partial
    /\ Goes("append", "line")
    /\ UNCHANGED <<final, log>> /\ Waits

\* persist_record: the representations are on disk before the line
AppendFile ==
    /\ At("append", "file")
    /\ partial' = [Made(partial) EXCEPT !.files = @ \cup {worker.offset + 1}]
    /\ Goes("append", "line")
    /\ UNCHANGED <<final, log>> /\ Waits

\* open("ab") creates a log that is missing, not its directory
AppendLine ==
    /\ At("append", "line")
    /\ IF partial.there
       THEN /\ partial' = [partial EXCEPT !.log =
                    (IF @ = NoLog THEN << >> ELSE @) \o <<worker.offset + 1>>]
            /\ Goes("append", "count")
       ELSE UNCHANGED partial /\ Ends("append", Raised)
    /\ UNCHANGED <<final, log>> /\ Waits

AppendCounts ==
    /\ At("append", "count")
    /\ log' = [log EXCEPT !.count = @ + 1]
    /\ Ends("append", Returned)
    /\ UNCHANGED <<partial, final>> /\ Waits

----------------------------------------------------------------------------
(* FilesystemStepResultStore.seal                                          *)

\* A result that is sealed already is the answer if it ended the same way
Descriptor(name) ==
    IF final.manifest.state = name THEN final.manifest ELSE Nothing

SealOpens(c) ==
    /\ At(c, "open")
    /\ \/ /\ final.there
          /\ Ends(c, Done(Descriptor(thread[c].name))) /\ UNCHANGED log
       \/ /\ ~final.there /\ Openable
          /\ log' = OpenedLog /\ Goes(c, "read")
       \/ /\ ~final.there /\ ~Openable
          /\ Ends(c, Raised) /\ UNCHANGED log
    /\ UNCHANGED <<partial, final>> /\ Waits

SealReads(c) ==
    /\ At(c, "read")
    /\ IF partial.there /\ partial.log # NoLog
       THEN thread' = [thread EXCEPT ![c].read = partial.log,
                                     ![c].at = "manifest"]
       ELSE Ends(c, Raised)
    /\ UNCHANGED <<partial, final, log>> /\ Waits

\* Mutant: every sealed result counts as complete
AnyManifest(name, outputs) ==
    [state |-> name, complete |-> name \in Terminal,
     outputs |-> outputs, count |-> log.count]

Manifest(name, outputs) ==
    [state |-> name, complete |-> name \in {"FINALIZED", "FAILED"},
     outputs |-> outputs, count |-> log.count]

SealWrites(c) ==
    /\ At(c, "manifest")
    /\ partial' = [Made(partial) EXCEPT !.manifest =
                        Manifest(thread[c].name, thread[c].read)]
    /\ Goes(c, "state")
    /\ UNCHANGED <<final, log>> /\ Waits

\* The temporary file has the name of the process: of two threads that
\* write the manifest the second fails to create it and removes the first's
TemporaryCollides ==
    \E c, d \in Sealers :
        /\ c # d /\ At(c, "manifest") /\ At(d, "manifest")
        /\ thread' = [thread EXCEPT ![c] = Raised, ![d] = Raised]
        /\ UNCHANGED <<partial, final, log>> /\ Waits

SealUnlinksState(c) ==
    /\ At(c, "state")
    /\ IF partial.there /\ partial.state
       THEN partial' = [partial EXCEPT !.state = FALSE] /\ Goes(c, "log")
       ELSE UNCHANGED partial /\ Ends(c, Raised)
    /\ UNCHANGED <<final, log>> /\ Waits

SealUnlinksLog(c) ==
    /\ At(c, "log")
    /\ IF partial.there /\ partial.log # NoLog
       THEN /\ partial' = [partial EXCEPT !.log = NoLog]
            /\ log' = [log EXCEPT !.cached = FALSE]
            /\ Goes(c, "rename")
       ELSE UNCHANGED <<partial, log>> /\ Ends(c, Raised)
    /\ UNCHANGED final /\ Waits

\* os.replace, and load_terminal_descriptor of what is there now
SealRenames(c) ==
    /\ At(c, "rename")
    /\ IF partial.there /\ ~final.there
       THEN /\ final' = partial /\ partial' = NoDirectory
            /\ Ends(c, Done(partial.manifest))
       ELSE UNCHANGED <<partial, final>> /\ Ends(c, Raised)
    /\ UNCHANGED log /\ Waits

----------------------------------------------------------------------------
(* The Worker: _execute_with_result_store, execute.                        *)

Starts(c, name) ==
    thread' = [thread EXCEPT ![c] = [Idle EXCEPT !.at = "open", !.name = name]]

Calling(pc) == worker' = [worker EXCEPT !.pc = pc]

\* The next output of the code; its appending is awaited
AppendsOutput ==
    /\ worker.pc = "follow" /\ worker.offset < NumOutputs
    /\ Starts("append", "") /\ Calling("append")
    /\ UNCHANGED <<partial, final, log, reference, storageFaults>>

\* The code has ended: well, or with an error after some of its output
Finalizes ==
    /\ worker.pc = "follow"
    /\ \/ worker.offset = NumOutputs /\ Starts("finalize", "FINALIZED")
       \/ Starts("finalize", "FAILED")
    /\ Calling("finalize")
    /\ UNCHANGED <<partial, final, log, reference, storageFaults>>

\* _preserve_failure_result, from the handler of an error or of the limit
\* or cancellation; a limit also interrupts the former
Preserving ==
    LET c == IF worker.pc = "preserve" THEN "again" ELSE "preserve"
    IN  Starts(c, "ABORTED") /\ Calling(c)

Interrupted ==
    /\ worker.pc \in {"begin", "follow", "append", "finalize", "preserve"}
    /\ Preserving
    /\ UNCHANGED <<partial, final, log, reference, storageFaults>>

StoredIs(got) == [worker EXCEPT !.pc = "sealed", !.stored = got]

Answered ==
    /\ worker.pc \in Calls /\ At(worker.pc, "done")
    /\ LET got == thread[worker.pc].got IN
       \/ /\ worker.pc = "begin" /\ got # Nothing
          /\ Calling("follow") /\ UNCHANGED thread
       \/ /\ worker.pc = "append" /\ got # Nothing
          /\ worker' = [worker EXCEPT !.pc = "follow", !.offset = @ + 1]
          /\ UNCHANGED thread
       \/ /\ worker.pc \in {"begin", "append", "finalize"} /\ got = Nothing
          /\ Preserving
       \/ /\ \/ worker.pc = "finalize" /\ got # Nothing
             \/ worker.pc \in {"preserve", "again"}
          /\ worker' = StoredIs(got) /\ UNCHANGED thread
    /\ UNCHANGED <<partial, final, log, reference, storageFaults>>

\* mark_succeeded, mark_failed, _record_interrupted_result
Records ==
    /\ worker.pc = "sealed"
    /\ reference' = worker.stored
    /\ Calling("end")
    /\ UNCHANGED <<partial, final, log, thread, storageFaults>>

\* The disk is full, the volume is gone: the file operation raises
FileFails ==
    /\ storageFaults < MaxStorageFaults
    /\ storageFaults' = storageFaults + 1
    /\ \E c \in Calls : ~At(c, "idle") /\ ~At(c, "done") /\ Ends(c, Raised)
    /\ UNCHANGED <<partial, final, log, worker, reference>>

\* The process ends with its threads, wherever they are
ProcessDies ==
    /\ worker.pc # "dead"
    /\ Calling("dead")
    /\ thread' = [c \in Calls |-> Idle]
    /\ UNCHANGED <<partial, final, log, reference, storageFaults>>

ResultNext ==
    \/ BeginMakes \/ BeginOpens
    \/ AppendOpens \/ AppendFile \/ AppendLine \/ AppendCounts
    \/ \E c \in Sealers :
         \/ SealOpens(c) \/ SealReads(c) \/ SealWrites(c)
         \/ SealUnlinksState(c) \/ SealUnlinksLog(c) \/ SealRenames(c)
    \/ TemporaryCollides
    \/ AppendsOutput \/ Finalizes \/ Interrupted \/ Answered \/ Records
    \/ FileFails \/ ProcessDies

----------------------------------------------------------------------------
(* Properties.                                                             *)

\* notebook_output: the files an output names are below its directory and
\* have the content it names
HasContent(output) == output \in final.files

\* read_projection: the manifest has the reference's checksum
Readable(ref) ==
    /\ final.there /\ final.manifest = ref
    /\ \A i \in 1 .. Len(ref.outputs) : HasContent(ref.outputs[i])

\* The result that the Step's row refers to can be read for good: it is the
\* one whose checksum was recorded and every output it lists is on disk,
\* whatever threads of interrupted calls are still at work in the directory.
ReferenceIsReadable == reference # Nothing => Readable(reference)

\* A complete result lists every output once and in order, and its counters
\* agree with the list; one that was FINALIZED has all output of the code.
CompleteIsWhole ==
    final.there /\ final.manifest.complete =>
        LET outputs == final.manifest.outputs IN
        /\ outputs = [i \in 1 .. final.manifest.count |-> i]
        /\ final.manifest.state = "FINALIZED" => Len(outputs) = NumOutputs

=============================================================================
