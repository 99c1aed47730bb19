--------------------------- MODULE StepJournal ---------------------------
(***************************************************************************)
(* How one Step's code reaches its kernel and how its output comes back.   *)
(* The Jupyter extension sends the code and records the kernel's messages  *)
(* in a journal file; the Worker that holds the Step's lease submits,      *)
(* follows the journal over a WebSocket into a result directory of its     *)
(* own, seals it and commits it.  A Worker may lose its lease anywhere in  *)
(* between and go on as a stale process beside its successor.              *)
(*                                                                         *)
(* A job is named by its fencing token, which is unique (TokensUnique of   *)
(* ExecutionLifecycle).  The extension runs on one event loop: what it     *)
(* does between two awaits is one action.                                  *)
(***************************************************************************)
EXTENDS Naturals, Sequences, FiniteSets

CONSTANTS
    MaxFences,      \* bound: Workers that hold the Step one after the other
    NumOutputs,     \* bound: output messages the code prints
    MaxFaults       \* bound: stalls, crashes, limits, lost answers, failures

ASSUME BoundsAssumption ==
    MaxFences \in Nat \ {0} /\ NumOutputs \in Nat /\ MaxFaults \in Nat

VARIABLES
    path,       \* the journal file at the request's path, 0 if there is none
    lines,      \* lines of every journal file ever created, after its header
    rec,        \* the recording task of the file at path
    kernel,     \* "up", "dead" (its manager may restart it) or "gone"
    out,        \* what the code of each journal did on the kernel
    sent,       \* journals whose code was sent to the kernel
    strays,     \* POSTs nobody waits for: on their way, and being handled
    conn,       \* per token: the generator behind its WebSocket
    job,        \* per token: the Worker's side
    result,     \* per token: the result directory
    db,         \* the Step's row, its run and its lease
    harmed,     \* history: the kernel, a journal or a submission was lost
    faults

server == <<path, lines, rec, kernel, out, sent, strays>>
vars == <<server, conn, job, result, db, harmed, faults>>

Fences == 1 .. MaxFences

Terminal == {"COMPLETED", "LOST", "OUTPUT_LIMIT"}

Line == [seq : Nat \ {0}, type : Terminal \cup {"OUTPUT", "OK", "ERROR"}]

Fault == faults < MaxFaults /\ faults' = faults + 1

\* What the execution came to, as the Worker sees it
Outcome == {"NONE", "OK", "ERROR", "LOST", "LIMIT", "DRIVER", "GAP"}

Pc ==
    {"idle", "begin", "post", "posted", "starting", "mark", "follow", "seal",
     "commit", "release", "gone"}

Job ==
    [pc : Pc, submitted : BOOLEAN, seq : Nat, caughtUp : BOOLEAN,
     outcome : Outcome]

NoJob ==
    [pc |-> "idle", submitted |-> FALSE, seq |-> 0, caughtUp |-> FALSE,
     outcome |-> "NONE"]

Recording == [on : BOOLEAN, reply : BOOLEAN, idle : BOOLEAN, lost : BOOLEAN]

NoRecording == [on |-> FALSE, reply |-> FALSE, idle |-> FALSE, lost |-> FALSE]

\* What one run of the code did: cut off if its kernel process ended
Output ==
    [printed : 0 .. NumOutputs, over : BOOLEAN, ok : BOOLEAN, cut : BOOLEAN]

NoOutput == [printed |-> 0, over |-> FALSE, ok |-> FALSE, cut |-> FALSE]

Connection ==
    [on : BOOLEAN, file : Nat, read : Nat, caughtUp : BOOLEAN,
     recording : BOOLEAN, marked : BOOLEAN]

NoConnection ==
    [on |-> FALSE, file |-> 0, read |-> 0, caughtUp |-> FALSE,
     recording |-> FALSE, marked |-> FALSE]

\* require_active_lease, for this Step
Holds(f) == db.fence = f /\ db.step = "RUNNING"

----------------------------------------------------------------------------
(* The journal of the extension. *)

Ended(n) == \E i \in 1 .. Len(lines[n]) : lines[n][i].type \in Terminal

AppendLine(n, seq, type) ==
    lines' = [lines EXCEPT ![n] = Append(@, [seq |-> seq, type |-> type])]

Record(type) == AppendLine(path, Len(lines[path]) + 1, type)

\* Output messages among the first k lines of a journal
Outputs(n, k) == Cardinality({i \in 1 .. k : lines[n][i].type = "OUTPUT"})

Recorded == Outputs(path, Len(lines[path]))

\* The header is written before the code is sent
CreateJournal ==
    /\ path' = Len(lines) + 1
    /\ lines' = Append(lines, <<>>)
    /\ out' = Append(out, NoOutput)

\* The recorder watches the process that was observed before the wait for the
\* kernel: one that was replaced since then counts as lost
SendCode ==
    /\ CreateJournal
    /\ sent' = sent \cup {path'}
    /\ \E stale \in BOOLEAN :
         /\ stale => harmed
         /\ rec' = [NoRecording EXCEPT !.on = TRUE, !.lost = stale]

\* Mutant: an existing file is opened and written again
MayCreateAlways == kernel = "up"

\* open("x"): the second of two handlers of one request finds the file
MayCreate == path = 0 /\ kernel = "up"

NoStrays == [new |-> 0, handled |-> 0]

StrayArrives ==
    /\ strays.new > 0
    /\ strays' = [strays EXCEPT
                    !.new = @ - 1,
                    !.handled = IF path = 0 /\ kernel = "up" THEN @ + 1 ELSE @]
    /\ UNCHANGED <<path, lines, rec, kernel, out, sent, conn, job, result, db,
                   harmed, faults>>

StrayCreates ==
    /\ strays.handled > 0
    /\ strays' = [strays EXCEPT !.handled = @ - 1]
    /\ \/ MayCreate /\ SendCode
       \/ ~MayCreate /\ UNCHANGED <<path, lines, rec, out, sent>>
    /\ UNCHANGED <<kernel, conn, job, result, db, harmed, faults>>

Executes(n) == ~out[n].over /\ ~out[n].cut

\* The kernel prints, then is done
KernelPrints(n) ==
    /\ n \in sent /\ Executes(n) /\ out[n].printed < NumOutputs
    /\ out' = [out EXCEPT ![n].printed = @ + 1]
    /\ UNCHANGED <<path, lines, rec, kernel, sent, strays, conn, job, result,
                   db, harmed, faults>>

KernelFinishes(n) ==
    /\ n \in sent /\ Executes(n)
    /\ \E ok \in BOOLEAN : out' = [out EXCEPT ![n].over = TRUE, ![n].ok = ok]
    /\ UNCHANGED <<path, lines, rec, kernel, sent, strays, conn, job, result,
                   db, harmed, faults>>

Records == rec.on /\ ~Ended(path)

\* The journal may be over its limit once it has a line
OverLimit == lines[path] # <<>> /\ Record("OUTPUT_LIMIT")

RecordOutput ==
    /\ Records /\ Recorded < out[path].printed
    /\ Record("OUTPUT") \/ OverLimit
    /\ UNCHANGED <<path, rec, kernel, out, sent, strays, conn, job, result, db,
                   harmed, faults>>

\* The reply is on another channel than the output and may overtake it
RecordReply ==
    /\ Records /\ out[path].over /\ ~rec.reply
    /\ Record(IF out[path].ok THEN "OK" ELSE "ERROR") \/ OverLimit
    /\ rec' = [rec EXCEPT !.reply = TRUE]
    /\ UNCHANGED <<path, kernel, out, sent, strays, conn, job, result, db,
                   harmed, faults>>

ReadIdle ==
    /\ Records /\ ~rec.idle
    /\ out[path].over /\ Recorded = out[path].printed
    /\ rec' = [rec EXCEPT !.idle = TRUE]
    /\ UNCHANGED <<path, lines, kernel, out, sent, strays, conn, job, result,
                   db, harmed, faults>>

\* Mutant: the reply alone ends the recording
RepliedOnly == rec.reply

Finished == rec.reply /\ rec.idle

RecordEnd ==
    /\ Records
    /\ \/ Finished /\ Record("COMPLETED")
       \/ rec.lost /\ ~Finished /\ Record("LOST")
    /\ UNCHANGED <<path, rec, kernel, out, sent, strays, conn, job, result, db,
                   harmed, faults>>

\* Reading the kernel's channels fails: the recorder ends its journal
RecorderFails ==
    /\ Records
    /\ Fault
    /\ Record("LOST")
    /\ harmed' = TRUE
    /\ UNCHANGED <<path, rec, kernel, out, sent, strays, conn, job, result,
                   db>>

\* The task leaves _recordings some time after its last line
RecorderLeaves ==
    /\ rec.on /\ Ended(path)
    /\ rec' = NoRecording
    /\ UNCHANGED <<path, lines, kernel, out, sent, strays, conn, job, result,
                   db, harmed, faults>>

MayDelete == ~rec.on

\* _remove_expired, called when some other request starts.  No request,
\* connection or wait for a new one lasts as long as the retention.
RemoveExpired ==
    /\ path # 0 /\ MayDelete
    /\ strays = NoStrays
    /\ \A f \in Fences : job[f].pc \in {"idle", "gone"}
    /\ path' = 0
    /\ harmed' = TRUE
    /\ UNCHANGED <<lines, rec, kernel, out, sent, strays, conn, job, result,
                   db, faults>>

----------------------------------------------------------------------------
(* The Worker submits. *)

Go(f, pc) == job' = [job EXCEPT ![f].pc = pc]

\* The execution call ends: its outcome is stored next
Ends(f, outcome) ==
    /\ job' = [job EXCEPT ![f].pc = "seal", ![f].outcome = outcome]
    /\ conn' = [conn EXCEPT ![f] = NoConnection]

\* Mutant: the run is marked submitted before its code is
BeginMarked(f) ==
    /\ job[f].pc = "begin"
    /\ result' = [result EXCEPT ![f].state = "OPEN"]
    /\ db' = [db EXCEPT !.submitted = @ \/ Holds(f)]
    /\ Go(f, IF job[f].submitted THEN "follow" ELSE "post")
    /\ UNCHANGED <<server, conn, harmed, faults>>

BeginResult(f) ==
    /\ job[f].pc = "begin"
    /\ result' = [result EXCEPT ![f].state = "OPEN"]
    /\ Go(f, IF job[f].submitted THEN "follow" ELSE "post")
    /\ UNCHANGED <<server, conn, db, harmed, faults>>

Post(f) ==
    /\ job[f].pc = "post"
    /\ Go(f, "posted")
    /\ UNCHANGED <<server, conn, result, db, harmed, faults>>

\* ExecutionJournals.start up to its first await
PostArrives(f) ==
    /\ job[f].pc = "posted"
    /\ \/ path # 0 /\ Go(f, "mark") /\ UNCHANGED conn
       \/ path = 0 /\ kernel = "up" /\ Go(f, "starting") /\ UNCHANGED conn
       \/ path = 0 /\ kernel # "up" /\ Ends(f, "LOST")
    /\ UNCHANGED <<server, result, db, harmed, faults>>

\* ... and once the kernel is ready, or found dead
PostCreates(f) ==
    /\ job[f].pc = "starting"
    /\ \/ MayCreate /\ SendCode /\ Go(f, "mark") /\ UNCHANGED conn
       \/ /\ ~MayCreate
          /\ IF kernel = "up" THEN Go(f, "mark") /\ UNCHANGED conn
             ELSE \E outcome \in {"DRIVER", "LOST"} : Ends(f, outcome)
          /\ UNCHANGED <<path, lines, rec, out, sent>>
    /\ UNCHANGED <<kernel, strays, result, db, harmed, faults>>

\* The kernel is not ready in time, or the header was written but sending the
\* code failed
SendFails(f) ==
    /\ job[f].pc = "starting" /\ kernel = "up"
    /\ Fault
    /\ \/ UNCHANGED <<path, lines, out, harmed>>
       \/ MayCreate /\ CreateJournal /\ harmed' = TRUE
    /\ Ends(f, "DRIVER")
    /\ UNCHANGED <<rec, kernel, sent, strays, result, db>>

\* Nobody waits for this POST any more; the server may still handle it
Abandoned(f) ==
    strays' = CASE job[f].pc = "posted" -> [strays EXCEPT !.new = @ + 1]
                [] job[f].pc = "starting" -> [strays EXCEPT !.handled = @ + 1]
                [] OTHER -> strays

\* A transport error: submit again, or give up after the reconnect window
AnswerLost(f) ==
    /\ job[f].pc \in {"posted", "starting"}
    /\ Fault
    /\ Abandoned(f)
    /\ \/ Go(f, "post") /\ UNCHANGED conn
       \/ Ends(f, "DRIVER")
    /\ UNCHANGED <<path, lines, rec, kernel, out, sent, result, db, harmed>>

MarkSubmitted(f) ==
    /\ job[f].pc = "mark"
    /\ \/ /\ Holds(f)
          /\ db' = [db EXCEPT !.submitted = TRUE]
          /\ Go(f, "follow")
          /\ UNCHANGED conn
       \/ ~Holds(f) /\ Ends(f, "DRIVER") /\ UNCHANGED db
    /\ UNCHANGED <<server, result, harmed, faults>>

----------------------------------------------------------------------------
(* The Worker follows. *)

After(f) == job[f].seq

\* Lines the Worker has already are read, not sent
Skipped(n, after) ==
    Cardinality({i \in DOMAIN lines[n] : lines[n][i].seq <= after})

Connect(f) ==
    /\ job[f].pc = "follow" /\ ~conn[f].on
    /\ \/ path = 0 /\ Ends(f, "LOST")
       \/ /\ path # 0
          /\ conn' = [conn EXCEPT ![f] =
                        [NoConnection EXCEPT
                           !.on = TRUE, !.file = path,
                           !.read = Skipped(path, After(f)),
                           !.recording = rec.on]]
          /\ UNCHANGED job
    /\ UNCHANGED <<server, result, db, harmed, faults>>

Unread(f) == conn[f].on /\ conn[f].read < Len(lines[conn[f].file])

NextLine(f) == lines[conn[f].file][conn[f].read + 1]

\* A takeover reports that it caught up, once, under its lease
ReportsCatchUp(f) == f > 1 /\ ~job[f].caughtUp

\* Whether an error was among the lines, once all were applied
Replied(f) ==
    IF \E i \in 1 .. conn[f].read : lines[conn[f].file][i].type = "ERROR"
    THEN "ERROR" ELSE "OK"

\* _JournalState.apply
ApplyLine(f) ==
    /\ Unread(f) /\ ~conn[f].marked
    /\ LET type == NextLine(f).type
       IN  \/ NextLine(f).seq # job[f].seq + 1 /\ Ends(f, "GAP")
              /\ UNCHANGED result
           \/ /\ NextLine(f).seq = job[f].seq + 1
              /\ type \notin Terminal
              /\ job' = [job EXCEPT ![f].seq = @ + 1]
              /\ conn' = [conn EXCEPT ![f].read = @ + 1]
              /\ result' = IF type = "OUTPUT"
                           THEN [result EXCEPT ![f].outputs =
                                   Append(@, <<conn[f].file, Len(@) + 1>>)]
                           ELSE result
           \/ /\ NextLine(f).seq = job[f].seq + 1
              /\ type \in Terminal
              /\ Ends(f, CASE type = "LOST" -> "LOST"
                           [] type = "OUTPUT_LIMIT" -> "LIMIT"
                           [] ReportsCatchUp(f) /\ ~Holds(f) -> "DRIVER"
                           [] OTHER -> Replied(f))
              /\ UNCHANGED result
    /\ UNCHANGED <<server, db, harmed, faults>>

\* The stored output cannot be written
AppendFails(f) ==
    /\ Unread(f) /\ NextLine(f).type = "OUTPUT"
    /\ Fault
    /\ Ends(f, "DRIVER")
    /\ UNCHANGED <<server, result, db, harmed>>

\* End of file for the first time: the marker is sent, which is an await
CatchUp(f) ==
    /\ conn[f].on /\ ~Unread(f) /\ ~conn[f].caughtUp
    /\ IF ReportsCatchUp(f) /\ ~Holds(f)
       THEN Ends(f, "DRIVER")
       ELSE /\ conn' = [conn EXCEPT ![f].caughtUp = TRUE,
                                    ![f].marked = ~conn[f].recording]
            /\ job' = [job EXCEPT ![f].caughtUp = TRUE]
    /\ UNCHANGED <<server, result, db, harmed, faults>>

\* Mutant: a journal without a recorder is waited for
NobodyRecords(f) == FALSE

\* No recorder will ever end this journal
Orphaned(f) == conn[f].on /\ conn[f].marked /\ ~rec.on

\* After the await the file is not read again
FinishOrphan(f) ==
    /\ Orphaned(f)
    /\ AppendLine(conn[f].file, conn[f].read + 1, "LOST")
    /\ conn' = [conn EXCEPT ![f].marked = FALSE]
    /\ UNCHANGED <<path, rec, kernel, out, sent, strays, job, result, db,
                   harmed, faults>>

\* The stream breaks: reconnect, or give up after the reconnect window
Disconnect(f) ==
    /\ conn[f].on
    /\ Fault
    /\ \/ conn' = [conn EXCEPT ![f] = NoConnection] /\ UNCHANGED job
       \/ Ends(f, "DRIVER")
    /\ UNCHANGED <<server, result, db, harmed>>

----------------------------------------------------------------------------
(* The Worker stores and commits. *)

SealedAs(outcome) ==
    CASE outcome = "OK" -> "FINALIZED"
      [] outcome = "ERROR" -> "FAILED"
      [] OTHER -> "ABORTED"

\* seal: there is nothing to seal if the result was never begun
SealResult(f, state) ==
    result' = IF result[f].state = "NONE" THEN result
              ELSE [result EXCEPT ![f].state = state]

Seal(f) ==
    /\ job[f].pc = "seal"
    /\ SealResult(f, SealedAs(job[f].outcome))
    /\ Go(f, "commit")
    /\ UNCHANGED <<server, conn, db, harmed, faults>>

\* The manifest cannot be written; the failure is kept as a partial result,
\* or not at all
SealFails(f) ==
    /\ job[f].pc = "seal"
    /\ Fault
    /\ \E state \in {"OPEN", "ABORTED"} : SealResult(f, state)
    /\ job' = [job EXCEPT ![f].pc = "commit", ![f].outcome =
                 IF @ \in {"OK", "ERROR"} THEN "DRIVER" ELSE @]
    /\ UNCHANGED <<server, conn, db, harmed>>

\* asyncio.timeout: a Step or Operation limit cuts the execution call.  A
\* seal that is under way in its thread may still win.
LimitPasses(f) ==
    /\ job[f].pc \in {"begin", "post", "posted", "starting", "mark", "follow",
                      "seal"}
    /\ Fault
    /\ Abandoned(f)
    /\ \/ /\ Ends(f, "LIMIT")
          /\ UNCHANGED result
       \/ /\ job[f].pc = "seal"
          /\ SealResult(f, SealedAs(job[f].outcome))
          /\ job' = [job EXCEPT ![f].pc = "commit", ![f].outcome = "LIMIT"]
          /\ UNCHANGED conn
    /\ UNCHANGED <<path, lines, rec, kernel, out, sent, db, harmed>>

\* mark_succeeded or mark_failed, or the end of the run without a result
Commit(f) ==
    /\ job[f].pc = "commit" /\ Holds(f)
    /\ db' = [db EXCEPT
                !.step =
                  IF job[f].outcome = "OK" THEN "SUCCEEDED" ELSE "FAILED",
                !.committed = f]
    /\ Go(f, IF job[f].outcome \in {"OK", "ERROR"} THEN "release" ELSE "gone")
    /\ UNCHANGED <<server, conn, result, harmed, faults>>

LoseLease(f) ==
    /\ job[f].pc = "commit" /\ ~Holds(f)
    /\ Go(f, "gone")
    /\ UNCHANGED <<server, conn, result, db, harmed, faults>>

\* DELETE: refused while the recorder has not left yet
Release(f) ==
    /\ job[f].pc = "release"
    /\ path' = IF MayDelete THEN 0 ELSE path
    /\ Go(f, "gone")
    /\ UNCHANGED <<lines, rec, kernel, out, sent, strays, conn, result, db,
                   harmed, faults>>

ReleaseFails(f) ==
    /\ job[f].pc = "release"
    /\ Fault
    /\ Go(f, "gone")
    /\ UNCHANGED <<server, conn, result, db, harmed>>

----------------------------------------------------------------------------
(* Takeovers and faults. *)

\* begin_handover and ClaimHandover: the next Worker loads the run
TakenOver ==
    /\ db.step = "RUNNING" /\ db.fence < MaxFences
    /\ db' = [db EXCEPT !.fence = @ + 1]
    /\ job' = [job EXCEPT ![db.fence + 1] =
                 [NoJob EXCEPT !.pc = "begin", !.submitted = db.submitted]]
    /\ UNCHANGED <<server, conn, result, harmed>>

\* The holder is gone: its lease expires, or it released the Step
TakeOver == job[db.fence].pc = "gone" /\ TakenOver /\ UNCHANGED faults

\* The holder only stalled, and goes on beside its successor
Stall == job[db.fence].pc # "gone" /\ Fault /\ TakenOver

\* A crash, or a shutdown, which leaves everything to the next Worker
Crash(f) ==
    /\ job[f].pc \notin {"idle", "gone"}
    /\ f = db.fence => db.fence < MaxFences
    /\ Fault
    /\ Abandoned(f)
    /\ Go(f, "gone")
    /\ conn' = [conn EXCEPT ![f] = NoConnection]
    /\ UNCHANGED <<path, lines, rec, kernel, out, sent, result, db, harmed>>

CutOff == [n \in DOMAIN out |-> [out[n] EXCEPT !.cut = ~out[n].over]]

KernelDies ==
    /\ kernel = "up"
    /\ Fault
    /\ kernel' = "dead"
    /\ out' = CutOff
    /\ rec' = [rec EXCEPT !.lost = rec.on]
    /\ harmed' = TRUE
    /\ UNCHANGED <<path, lines, sent, strays, conn, job, result, db>>

\* The kernel manager starts a new process under the same id
KernelRestarts ==
    /\ kernel = "dead"
    /\ kernel' = "up"
    /\ UNCHANGED <<path, lines, rec, out, sent, strays, conn, job, result, db,
                   harmed, faults>>

\* The server process ends with its kernels.  A recorder may still write
\* its last line; the disk may survive or not.
ServerRestarts ==
    /\ kernel # "gone"
    /\ Fault
    /\ kernel' = "gone"
    /\ out' = CutOff
    /\ rec' = NoRecording
    /\ strays' = [strays EXCEPT !.handled = 0]
    /\ \/ Records /\ Record("LOST")
       \/ UNCHANGED lines
    /\ path' \in {path, 0}
    /\ conn' = [f \in Fences |-> NoConnection]
    /\ job' = [f \in Fences |->
                 IF job[f].pc = "starting" THEN [job[f] EXCEPT !.pc = "post"]
                 ELSE job[f]]
    /\ harmed' = TRUE
    /\ UNCHANGED <<sent, result, db>>

----------------------------------------------------------------------------
(* The specification. *)

Init ==
    /\ path = 0 /\ lines = <<>> /\ rec = NoRecording /\ kernel = "up"
    /\ out = <<>> /\ sent = {} /\ strays = NoStrays
    /\ conn = [f \in Fences |-> NoConnection]
    /\ job = [f \in Fences |->
                IF f = 1 THEN [NoJob EXCEPT !.pc = "begin"] ELSE NoJob]
    /\ result = [f \in Fences |-> [state |-> "NONE", outputs |-> <<>>]]
    /\ db = [fence |-> 1, submitted |-> FALSE, step |-> "RUNNING",
             committed |-> 0]
    /\ harmed = FALSE /\ faults = 0

Submit(f) == BeginResult(f) \/ Post(f) \/ MarkSubmitted(f)

Start(f) == PostArrives(f) \/ PostCreates(f)

Follow(f) ==
    \/ Connect(f) \/ ApplyLine(f) \/ CatchUp(f)
    \/ FinishOrphan(f)

Store(f) == Seal(f) \/ Commit(f) \/ LoseLease(f) \/ Release(f)

JobStep(f) == Submit(f) \/ Start(f) \/ Follow(f) \/ Store(f)

JobFault(f) ==
    \/ SendFails(f) \/ AnswerLost(f) \/ AppendFails(f) \/ Disconnect(f)
    \/ SealFails(f) \/ ReleaseFails(f) \/ LimitPasses(f) \/ Crash(f)

RecorderStep ==
    RecordOutput \/ RecordReply \/ ReadIdle \/ RecordEnd \/ RecorderLeaves

KernelStep(n) == KernelPrints(n) \/ KernelFinishes(n)

Next ==
    \/ \E f \in Fences : JobStep(f) \/ JobFault(f)
    \/ RecorderStep \/ (\E n \in DOMAIN out : KernelStep(n))
    \/ StrayArrives \/ StrayCreates \/ RemoveExpired
    \/ TakeOver \/ Stall \/ KernelDies \/ KernelRestarts \/ ServerRestarts
    \/ RecorderFails

Spec == Init /\ [][Next]_vars

(***************************************************************************)
(* Fairness: a Worker and the extension go on, code that was sent comes to *)
(* an end, and a Step that lost its Worker is taken over.  No limit is     *)
(* assumed to pass.                                                        *)
(***************************************************************************)
Progress ==
    /\ \A f \in Fences : WF_vars(JobStep(f))
    /\ WF_vars(RecorderStep) /\ WF_vars(TakeOver)
    /\ WF_vars(\E n \in DOMAIN out : KernelFinishes(n))

FairSpec == Spec /\ Progress

TypeOK ==
    /\ path \in 0 .. Len(lines) /\ lines \in Seq(Seq(Line))
    /\ rec \in Recording /\ (rec.on => path # 0)
    /\ kernel \in {"up", "dead", "gone"}
    /\ out \in Seq(Output) /\ Len(out) = Len(lines)
    /\ sent \subseteq 1 .. Len(lines)
    /\ strays \in [new : Nat, handled : Nat]
    /\ conn \in [Fences -> Connection] /\ job \in [Fences -> Job]
    /\ result \in
         [Fences -> [state : {"NONE", "OPEN", "FINALIZED", "FAILED", "ABORTED"},
                     outputs : Seq(Nat \X Nat)]]
    /\ db \in [fence : Fences, submitted : BOOLEAN, committed : 0 .. MaxFences,
               step : {"RUNNING", "SUCCEEDED", "FAILED"}]
    /\ harmed \in BOOLEAN /\ faults \in 0 .. MaxFaults

----------------------------------------------------------------------------
(* Properties. *)

\* A Step succeeds only with the whole output of one run of its code, in
\* order and without repeats, in a sealed result of the token that commits
\* it, however often the stream broke and the Worker changed.
SuccessIsOneWholeRun ==
    db.step = "SUCCEEDED" =>
        LET stored == result[db.committed]
        IN  /\ stored.state = "FINALIZED"
            /\ \E n \in sent :
                 /\ out[n].over /\ out[n].ok
                 /\ stored.outputs = [i \in 1 .. out[n].printed |-> <<n, i>>]

\* While the Step is undecided its code was sent at most once and its journal
\* is still there, unless a journal was lost with its disk or its retention:
\* two handlers of one request, repeated and late POSTs change nothing.
UndecidedIsSentOnce ==
    db.step = "RUNNING" /\ ~harmed =>
        /\ Cardinality(sent) <= 1
        /\ sent # {} => path # 0

\* A Worker that disappears loses nothing: the one that holds the Step never
\* finds its execution lost while kernel, server and journal are unharmed.
NothingIsLost ==
    \A f \in Fences : Holds(f) /\ job[f].outcome = "LOST" => harmed

\* The Step is decided, whatever happens to its Workers, its kernel and the
\* server, and although no limit passes.
StepIsDecided == db.step = "RUNNING" ~> db.step # "RUNNING"

=============================================================================
