------------------------- MODULE StepJournal_proofs -------------------------
(***************************************************************************)
(* Proofs about the way of one Step's code to its kernel and of its output *)
(* back, for any number of Workers, output messages and faults.            *)
(*                                                                         *)
(* Everything turns on the time in which the Step is undecided: then there *)
(* is one journal at a time, every connection reads it, and what a Worker  *)
(* has stored is what the lines it has applied say.                        *)
(***************************************************************************)
EXTENDS StepJournal, FiniteSetTheorems, SequenceTheorems, TLAPS

Running == db.step = "RUNNING"

Active(f) == job[f].pc \notin {"idle", "gone"}

\* No line of the first k ends the journal.
Open(n, k) == \A i \in 1 .. k : lines[n][i].type \notin Terminal

\* Up to its first end, a journal numbers its lines.
Numbered(n) ==
    \A k \in 0 .. Len(lines[n]) : Open(n, k) =>
        \A i \in k + 1 .. Len(lines[n]) :
            /\ lines[n][i].seq > k
            /\ i = k + 1 => lines[n][i].seq = i

\* The output of the run of n, and nothing else.
WholeRun(n, outputs) ==
    /\ n \in sent /\ out[n].over /\ out[n].ok
    /\ outputs = [i \in 1 .. out[n].printed |-> <<n, i>>]

\* A journal is completed when the output and the reply are in it.
CompletedIsWhole(n) ==
    \A i \in 1 .. Len(lines[n]) : lines[n][i].type = "COMPLETED" =>
        /\ n \in sent /\ out[n].over
        /\ Outputs(n, i - 1) = out[n].printed
        /\ (\A j \in 1 .. i - 1 : lines[n][j].type # "ERROR") => out[n].ok

\* What the recorder has seen of the run is in the journal.
RecorderKnows ==
    rec.on =>
        /\ path \in sent
        /\ ~Ended(path) /\ rec.idle =>
             out[path].over /\ Recorded = out[path].printed
        /\ ~Ended(path) /\ rec.reply =>
             /\ out[path].over
             /\ \/ out[path].ok
                \/ \E j \in 1 .. Len(lines[path]) : lines[path][j].type = "ERROR"

\* The connection of a Worker.
ConnectionIsGood(f) ==
    conn[f].on =>
        /\ path # 0 /\ conn[f].file = path /\ conn[f].read = job[f].seq
        /\ ~conn[f].recording => ~rec.on
        /\ conn[f].marked =>
             /\ ~conn[f].recording
             /\ \/ conn[f].read = Len(lines[path])
                \/ lines[path][conn[f].read + 1].type \in Terminal

\* What a Worker has stored.
StoredIsApplied(f) ==
    Active(f) =>
        IF path # 0
        THEN /\ job[f].seq <= Len(lines[path]) /\ Open(path, job[f].seq)
             /\ result[f].outputs =
                  [i \in 1 .. Outputs(path, job[f].seq) |-> <<path, i>>]
        ELSE (job[f].seq = 0 /\ result[f].outputs = <<>>) \/ kernel = "gone"

\* The outcome OK is earned.
OutcomeIsEarned(f) ==
    job[f].pc \in {"seal", "commit"} /\ job[f].outcome = "OK" =>
        /\ \E n \in sent : WholeRun(n, result[f].outputs)
        /\ result[f].state # "NONE"
        /\ job[f].pc = "commit" => result[f].state = "FINALIZED"

JobIsGood(f) ==
    /\ job[f].pc # "release"
    /\ job[f].pc \in {"post", "posted", "starting", "mark", "follow"} =>
         result[f].state # "NONE"
    /\ f > db.fence => job[f].pc = "idle" /\ result[f].outputs = <<>>
    /\ ConnectionIsGood(f) /\ StoredIsApplied(f) /\ OutcomeIsEarned(f)

\* While the Step is undecided.
Undecided ==
    Running =>
        /\ path # 0 => Numbered(path) /\ CompletedIsWhole(path)
        /\ RecorderKnows
        /\ \A f \in Fences : JobIsGood(f)

ConnectedFollow == \A f \in Fences : conn[f].on => job[f].pc = "follow"

\* Once it has succeeded.
SuccessStays ==
    db.step = "SUCCEEDED" =>
        /\ db.committed \in Fences
        /\ job[db.committed].pc \in {"release", "gone"}
        /\ result[db.committed].state = "FINALIZED"
        /\ \E n \in sent : WholeRun(n, result[db.committed].outputs)

IInv == TypeOK /\ ConnectedFollow /\ Undecided /\ SuccessStays

\* A Worker while nothing is harmed: the journal it waits for is there, and
\* somebody ends it.
JobIsWell(f) ==
    /\ job[f].submitted \/ job[f].pc \in {"mark", "follow"} => path # 0
    /\ conn[f].on => (conn[f].recording \/ Ended(path)) /\ ~conn[f].marked
    /\ job[f].outcome # "LOST"

ServerIsWell ==
    /\ sent \subseteq {path} /\ 0 \notin sent
    /\ kernel = "up" /\ ~rec.lost
    /\ path # 0 => /\ rec.on \/ Ended(path)
                   /\ \A i \in 1 .. Len(lines[path]) : lines[path][i].type # "LOST"

Well ==
    /\ ServerIsWell
    /\ db.submitted => path # 0
    /\ \A f \in Fences : JobIsWell(f)

\* While moreover nothing was harmed.
Unharmed == Running /\ ~harmed => Well

----------------------------------------------------------------------------
(* What a step of one Worker leaves alone.                                 *)

Result ==
    [state : {"NONE", "OPEN", "FINALIZED", "FAILED", "ABORTED"},
     outputs : Seq(Nat \X Nat)]

SameServer == UNCHANGED <<path, lines, rec, kernel, out, sent>>

JobBecomes(f, pc, submitted, seq, outcome) ==
    /\ job' \in [Fences -> Job]
    /\ job'[f].pc = pc /\ job'[f].submitted = submitted
    /\ job'[f].seq = seq /\ job'[f].outcome = outcome
    /\ \A g \in Fences \ {f} : job'[g] = job[g]

Moves(f, pc, outcome) == JobBecomes(f, pc, job[f].submitted, job[f].seq, outcome)

ConnectionBecomes(f, c) ==
    /\ conn' \in [Fences -> Connection] /\ conn'[f] = c
    /\ \A g \in Fences \ {f} : conn'[g] = conn[g]

ResultBecomes(f, state, outputs) ==
    /\ result' \in [Fences -> Result]
    /\ result'[f].state = state /\ result'[f].outputs = outputs
    /\ \A g \in Fences \ {f} : result'[g] = result[g]

OthersStay(f) ==
    /\ job' \in [Fences -> Job] /\ conn' \in [Fences -> Connection]
    /\ result' \in [Fences -> Result]
    /\ \A g \in Fences \ {f} :
         job'[g] = job[g] /\ conn'[g] = conn[g] /\ result'[g] = result[g]

Counted ==
    /\ strays' \in [new : Nat, handled : Nat] /\ harmed' \in BOOLEAN
    /\ faults' \in 0 .. MaxFaults

\* The types of what the Workers have.
LEMMA Types ==
    ASSUME TypeOK
    PROVE  /\ job \in [Fences -> Job] /\ conn \in [Fences -> Connection]
           /\ result \in [Fences -> Result]
           /\ strays \in [new : Nat, handled : Nat] /\ harmed \in BOOLEAN
           /\ faults \in 0 .. MaxFaults
           /\ path \in Nat /\ lines \in Seq(Seq(Line)) /\ Len(lines) \in Nat
           /\ path \in 0 .. Len(lines)
           /\ \A f \in Fences : f \in Nat
           /\ \A f \in Fences : job[f].seq \in Nat /\ conn[f].read \in Nat
           /\ \A f \in Fences : job[f].pc \in Pc /\ job[f].outcome \in Outcome
           /\ db.fence \in Fences
<1>1. MaxFences \in Nat
  BY BoundsAssumption
<1>2. lines \in Seq(Seq(Line)) /\ Len(lines) \in Nat /\ path \in Nat
  <2>1. lines \in Seq(Seq(Line))
    BY DEF TypeOK
  <2>2. Len(lines) \in Nat
    BY <2>1, LenProperties
  <2> QED
    BY <2>1, <2>2 DEF TypeOK
<1>3. \A f \in Fences : f \in Nat
  BY <1>1 DEF Fences
<1>4. \A f \in Fences : job[f].seq \in Nat /\ conn[f].read \in Nat
  BY DEF TypeOK, Job, Connection
<1>5. \A f \in Fences : job[f].pc \in Pc /\ job[f].outcome \in Outcome
  BY DEF TypeOK, Job
<1> QED
  BY <1>2, <1>3, <1>4, <1>5 DEF TypeOK, Result

\* A fault is counted.
LEMMA FaultIs ==
    ASSUME TypeOK, Fault
    PROVE  faults' \in 0 .. MaxFaults
BY BoundsAssumption DEF TypeOK, Fault

\* A Worker goes to its next place.
LEMMA GoIs ==
    ASSUME TypeOK, NEW f \in Fences, NEW pc \in Pc, Go(f, pc)
    PROVE  Moves(f, pc, job[f].outcome)
<1>1. PICK j : j = [job[f] EXCEPT !.pc = pc]
  OBVIOUS
<1>2. job \in [Fences -> Job]
  BY DEF TypeOK
<1>3. /\ j \in Job /\ j.pc = pc /\ j.submitted = job[f].submitted
      /\ j.seq = job[f].seq /\ j.outcome = job[f].outcome
  BY <1>1, <1>2 DEF Job
<1>4. job' = [job EXCEPT ![f] = j]
  BY <1>1 DEF Go
<1>5. job' \in [Fences -> Job] /\ job'[f] = j /\ \A g \in Fences \ {f} : job'[g] = job[g]
  BY <1>2, <1>3, <1>4
<1> QED
  BY <1>3, <1>5 DEF JobBecomes, Moves

\* A Worker stops with an outcome.
LEMMA StopIs ==
    ASSUME TypeOK, NEW f \in Fences, NEW pc \in Pc, NEW outcome \in Outcome,
           job' = [job EXCEPT ![f].pc = pc, ![f].outcome = outcome]
    PROVE  Moves(f, pc, outcome)
<1>1. PICK j : j = [job[f] EXCEPT !.pc = pc, !.outcome = outcome]
  OBVIOUS
<1>2. job \in [Fences -> Job]
  BY DEF TypeOK
<1>3. /\ j \in Job /\ j.pc = pc /\ j.submitted = job[f].submitted
      /\ j.seq = job[f].seq /\ j.outcome = outcome
  BY <1>1, <1>2 DEF Job
<1>4. job' = [job EXCEPT ![f] = j]
  BY <1>1, <1>2
<1>5. job' \in [Fences -> Job] /\ job'[f] = j /\ \A g \in Fences \ {f} : job'[g] = job[g]
  BY <1>2, <1>3, <1>4
<1> QED
  BY <1>3, <1>5 DEF JobBecomes, Moves

\* A Worker without a connection.
LEMMA NoConnectionIs ==
    ASSUME TypeOK, NEW f \in Fences, conn' = [conn EXCEPT ![f] = NoConnection]
    PROVE  ConnectionBecomes(f, NoConnection) /\ ~NoConnection.on
<1>1. NoConnection \in Connection /\ ~NoConnection.on
  BY DEF NoConnection, Connection
<1>2. conn \in [Fences -> Connection]
  BY DEF TypeOK
<1> QED
  BY <1>1, <1>2 DEF ConnectionBecomes

\* The execution call ends.
LEMMA EndsIs ==
    ASSUME TypeOK, NEW f \in Fences, NEW outcome \in Outcome, Ends(f, outcome)
    PROVE  /\ Moves(f, "seal", outcome)
           /\ ConnectionBecomes(f, NoConnection) /\ ~NoConnection.on
<1>1. "seal" \in Pc
  BY DEF Pc
<1>2. job' = [job EXCEPT ![f].pc = "seal", ![f].outcome = outcome]
  BY DEF Ends
<1>3. Moves(f, "seal", outcome)
  BY <1>1, <1>2, StopIs
<1> QED
  BY <1>3, NoConnectionIs DEF Ends

\* The result directory gets another state.
LEMMA StateIs ==
    ASSUME TypeOK, NEW f \in Fences,
           NEW state \in {"NONE", "OPEN", "FINALIZED", "FAILED", "ABORTED"},
           result' = [result EXCEPT ![f].state = state]
    PROVE  ResultBecomes(f, state, result[f].outputs)
<1>1. PICK r : r = [result[f] EXCEPT !.state = state]
  OBVIOUS
<1>2. result \in [Fences -> Result]
  BY Types
<1>3. r \in Result /\ r.state = state /\ r.outputs = result[f].outputs
  BY <1>1, <1>2 DEF Result
<1>4. result' = [result EXCEPT ![f] = r]
  BY <1>1
<1>5. /\ result' \in [Fences -> Result] /\ result'[f] = r
      /\ \A g \in Fences \ {f} : result'[g] = result[g]
  BY <1>2, <1>3, <1>4
<1> QED
  BY <1>3, <1>5 DEF ResultBecomes

\* The server handles a POST that nobody waits for, or never gets it.
LEMMA AbandonedIs ==
    ASSUME TypeOK, NEW f \in Fences, Abandoned(f)
    PROVE  strays' \in [new : Nat, handled : Nat]
<1>1. strays \in [new : Nat, handled : Nat]
  BY DEF TypeOK
<1>2. PICK n \in Nat, h \in Nat : n = strays.new + 1 /\ h = strays.handled + 1
  BY <1>1
<1>3. \/ strays' = [strays EXCEPT !.new = n]
      \/ strays' = [strays EXCEPT !.handled = h]
      \/ strays' = strays
  BY <1>1, <1>2 DEF Abandoned
<1> QED
  BY <1>1, <1>3

\* A step of one Worker keeps the invariant if it keeps that Worker's part.
LEMMA OneJob ==
    ASSUME IInv, NEW f \in Fences, SameServer, OthersStay(f), Counted,
           db' \in [fence : Fences, submitted : BOOLEAN, committed : 0 .. MaxFences,
                    step : {"RUNNING", "SUCCEEDED", "FAILED"}],
           \A g \in Fences : g > db'.fence => g > db.fence,
           db'.step = db.step, db'.committed = db.committed,
           conn'[f].on => job'[f].pc = "follow",
           Running => JobIsGood(f)',
           \/ job[f].pc \notin {"release", "gone"}
           \/ result'[f] = result[f] /\ job'[f].pc \in {"release", "gone"}
    PROVE  IInv'
<1>1. TypeOK'
  BY DEF IInv, TypeOK, SameServer, OthersStay, Counted, Result
<1>2. ConnectedFollow'
  BY DEF IInv, ConnectedFollow, OthersStay
<1>3. Undecided'
  <2> SUFFICES ASSUME Running
               PROVE  /\ path' # 0 => Numbered(path)' /\ CompletedIsWhole(path)'
                      /\ RecorderKnows'
                      /\ \A g \in Fences : JobIsGood(g)'
    BY DEF Undecided, Running
  <2>0. path' = path /\ lines' = lines /\ out' = out /\ sent' = sent
    BY DEF SameServer
  <2>1. path' # 0 => Numbered(path)' /\ CompletedIsWhole(path)'
    <3>1. path # 0 => Numbered(path) /\ CompletedIsWhole(path)
      BY DEF IInv, Undecided
    <3>2. Numbered(path) => Numbered(path)'
      BY <2>0 DEF Numbered, Open
    <3>3. CompletedIsWhole(path) => CompletedIsWhole(path)'
      <4>1. \A k : Outputs(path, k)' = Outputs(path, k)
        BY <2>0 DEF Outputs
      <4> QED
        BY <2>0, <4>1 DEF CompletedIsWhole
    <3> QED
      BY <2>0, <3>1, <3>2, <3>3
  <2>2. RecorderKnows'
    BY DEF IInv, Undecided, SameServer, RecorderKnows, Ended, Recorded, Outputs
  <2>3. ASSUME NEW g \in Fences, g # f PROVE JobIsGood(g)'
    <3>1. /\ JobIsGood(g) /\ job'[g] = job[g] /\ conn'[g] = conn[g]
          /\ result'[g] = result[g] /\ (g > db'.fence => g > db.fence)
      BY <2>3 DEF IInv, Undecided, OthersStay
    <3>2. ConnectionIsGood(g)'
      BY <3>1 DEF JobIsGood, ConnectionIsGood, SameServer
    <3>3. StoredIsApplied(g)'
      BY <3>1 DEF JobIsGood, StoredIsApplied, SameServer, Active, Open, Outputs
    <3>4. OutcomeIsEarned(g)'
      BY <3>1 DEF JobIsGood, OutcomeIsEarned, SameServer, WholeRun
    <3> QED
      BY <3>1, <3>2, <3>3, <3>4 DEF JobIsGood
  <2> QED
    BY <2>1, <2>2, <2>3
<1>4. SuccessStays'
  <2> SUFFICES ASSUME db.step = "SUCCEEDED"
               PROVE  /\ db.committed \in Fences
                      /\ job'[db.committed].pc \in {"release", "gone"}
                      /\ result'[db.committed].state = "FINALIZED"
                      /\ \E n \in sent' : WholeRun(n, result[db.committed].outputs)'
    BY DEF SuccessStays
  <2>1. /\ db.committed \in Fences
        /\ job[db.committed].pc \in {"release", "gone"}
        /\ result[db.committed].state = "FINALIZED"
        /\ \E n \in sent : WholeRun(n, result[db.committed].outputs)
    BY DEF IInv, SuccessStays
  <2>2. /\ result'[db.committed] = result[db.committed]
        /\ job'[db.committed].pc \in {"release", "gone"}
    BY <2>1 DEF OthersStay
  <2>3. sent' = sent /\ out' = out
    BY DEF SameServer
  <2>4. ASSUME NEW n \in sent, WholeRun(n, result[db.committed].outputs)
        PROVE  WholeRun(n, result[db.committed].outputs)'
    BY <2>2, <2>3, <2>4 DEF WholeRun
  <2> QED
    BY <2>1, <2>2, <2>3, <2>4
<1> QED
  BY <1>1, <1>2, <1>3, <1>4 DEF IInv

\* A Worker that moves on without output, connection or success.
LEMMA QuietJob ==
    ASSUME IInv, NEW f \in Fences, SameServer, OthersStay(f), Counted,
           db' \in [fence : Fences, submitted : BOOLEAN, committed : 0 .. MaxFences,
                    step : {"RUNNING", "SUCCEEDED", "FAILED"}],
           db'.fence = db.fence, db'.step = db.step, db'.committed = db.committed,
           job[f].pc \notin {"idle", "gone", "release"},
           ~conn'[f].on,
           job'[f].pc # "release", job'[f].seq = job[f].seq,
           result'[f].outputs = result[f].outputs,
           job'[f].pc \in {"seal", "commit"} => job'[f].outcome # "OK",
           job'[f].pc \in {"post", "posted", "starting", "mark", "follow"} =>
              result'[f].state # "NONE"
    PROVE  IInv'
<1>1. ASSUME Running PROVE JobIsGood(f)'
  <2>1. JobIsGood(f)
    BY <1>1 DEF IInv, Undecided
  <2>2. ~(f > db.fence)
    BY <2>1 DEF JobIsGood
  <2>3. Active(f)
    BY DEF Active
  <2>4. StoredIsApplied(f)'
    BY <2>1, <2>3 DEF JobIsGood, StoredIsApplied, SameServer, Open, Outputs
  <2>5. ConnectionIsGood(f)' /\ OutcomeIsEarned(f)'
    BY DEF ConnectionIsGood, OutcomeIsEarned
  <2> QED
    BY <2>2, <2>4, <2>5 DEF JobIsGood
<1> QED
  BY <1>1, OneJob

\* The types of what a Worker's step leaves alone.
LEMMA Leaves ==
    ASSUME IInv
    PROVE  /\ UNCHANGED <<strays, harmed, faults>> => Counted
           /\ db \in [fence : Fences, submitted : BOOLEAN, committed : 0 .. MaxFences,
                      step : {"RUNNING", "SUCCEEDED", "FAILED"}]
           /\ \A f \in Fences :
                /\ UNCHANGED conn => ConnectionBecomes(f, conn[f])
                /\ UNCHANGED result =>
                     ResultBecomes(f, result[f].state, result[f].outputs)
                /\ UNCHANGED job => Moves(f, job[f].pc, job[f].outcome)
<1>1. TypeOK
  BY DEF IInv
<1>2. UNCHANGED <<strays, harmed, faults>> => Counted
  BY <1>1 DEF TypeOK, Counted
<1>3. ASSUME NEW f \in Fences
      PROVE  /\ UNCHANGED conn => ConnectionBecomes(f, conn[f])
             /\ UNCHANGED result => ResultBecomes(f, result[f].state, result[f].outputs)
             /\ UNCHANGED job => Moves(f, job[f].pc, job[f].outcome)
  BY <1>1, Types DEF ConnectionBecomes, ResultBecomes, JobBecomes, Moves
<1> QED
  BY <1>1, <1>2, <1>3 DEF TypeOK

\* A Worker that is connected is not elsewhere.
LEMMA NotConnected ==
    ASSUME IInv, NEW f \in Fences, job[f].pc # "follow"
    PROVE  ~conn[f].on
BY DEF IInv, ConnectedFollow

\* What the three parts of a Worker become, together.
LEMMA Together ==
    ASSUME NEW f \in Fences, NEW pc, NEW outcome, NEW c, NEW state, NEW outputs,
           Moves(f, pc, outcome), ConnectionBecomes(f, c),
           ResultBecomes(f, state, outputs)
    PROVE  /\ OthersStay(f) /\ job'[f].pc = pc /\ job'[f].outcome = outcome
           /\ job'[f].seq = job[f].seq /\ conn'[f] = c
           /\ result'[f].state = state /\ result'[f].outputs = outputs
BY DEF Moves, JobBecomes, ConnectionBecomes, ResultBecomes, OthersStay

----------------------------------------------------------------------------
(* The Worker submits, and gives up.                                       *)

\* The result directory is opened.
LEMMA BeginResultKeeps ==
    ASSUME IInv, NEW f \in Fences, BeginResult(f)
    PROVE  IInv'
<1>1. /\ job[f].pc = "begin" /\ TypeOK
      /\ SameServer /\ UNCHANGED <<strays, conn, db, harmed, faults>>
      /\ result' = [result EXCEPT ![f].state = "OPEN"]
  BY DEF BeginResult, server, SameServer, IInv
<1>2. PICK pc \in {"follow", "post"} : Go(f, pc)
  BY DEF BeginResult
<1>3. Moves(f, pc, job[f].outcome)
  BY <1>1, <1>2, GoIs DEF Pc
<1>4. ResultBecomes(f, "OPEN", result[f].outputs)
  BY <1>1, StateIs
<1>5. ConnectionBecomes(f, conn[f]) /\ ~conn[f].on
  BY <1>1, Leaves, NotConnected
<1>6. Counted /\ db \in [fence : Fences, submitted : BOOLEAN, committed : 0 .. MaxFences,
                      step : {"RUNNING", "SUCCEEDED", "FAILED"}]
  BY <1>1, Leaves
<1>7. /\ OthersStay(f) /\ job'[f].pc = pc /\ job'[f].outcome = job[f].outcome
      /\ job'[f].seq = job[f].seq /\ conn'[f] = conn[f]
      /\ result'[f].state = "OPEN" /\ result'[f].outputs = result[f].outputs
  BY <1>3, <1>4, <1>5, Together
<1> QED
  BY <1>1, <1>2, <1>5, <1>6, <1>7, QuietJob

\* A Worker goes on to another place and has no connection there.
LEMMA GoesOn ==
    ASSUME IInv, NEW f \in Fences, SameServer, UNCHANGED <<conn, result, db>>, Counted,
           NEW pc \in Pc, Go(f, pc),
           job[f].pc \notin {"idle", "gone", "release", "follow"},
           pc \notin {"release", "seal", "commit"},
           pc \in {"post", "posted", "starting", "mark", "follow"} =>
             job[f].pc \in {"post", "posted", "starting", "mark"}
    PROVE  IInv'
<1>0. TypeOK
  BY DEF IInv
<1>1. /\ Moves(f, pc, job[f].outcome) /\ ConnectionBecomes(f, conn[f]) /\ ~conn[f].on
      /\ ResultBecomes(f, result[f].state, result[f].outputs)
  BY <1>0, GoIs, Leaves, NotConnected
<1>2. db \in [fence : Fences, submitted : BOOLEAN, committed : 0 .. MaxFences,
              step : {"RUNNING", "SUCCEEDED", "FAILED"}]
  BY Leaves
<1>3. /\ OthersStay(f) /\ job'[f].pc = pc /\ job'[f].outcome = job[f].outcome
      /\ job'[f].seq = job[f].seq /\ conn'[f] = conn[f]
      /\ result'[f].state = result[f].state /\ result'[f].outputs = result[f].outputs
  BY <1>1, Together
<1>4. CASE Running
  <2>1. pc \in {"post", "posted", "starting", "mark", "follow"} =>
          result[f].state # "NONE"
    BY <1>4 DEF IInv, Undecided, JobIsGood
  <2> QED
    BY <1>1, <1>2, <1>3, <2>1, QuietJob
<1>5. CASE ~Running
  BY <1>1, <1>2, <1>3, <1>5, OneJob
<1> QED
  BY <1>4, <1>5

\* The execution call of a Worker ends without success.
LEMMA EndsKeeps ==
    ASSUME IInv, NEW f \in Fences, SameServer, UNCHANGED <<result, db>>, Counted,
           NEW outcome \in Outcome, Ends(f, outcome), outcome # "OK",
           job[f].pc \notin {"idle", "gone", "release"}
    PROVE  IInv'
<1>0. TypeOK
  BY DEF IInv
<1>1. /\ Moves(f, "seal", outcome) /\ ConnectionBecomes(f, NoConnection)
      /\ ~NoConnection.on /\ ResultBecomes(f, result[f].state, result[f].outputs)
  BY <1>0, EndsIs, Leaves
<1>2. db \in [fence : Fences, submitted : BOOLEAN, committed : 0 .. MaxFences,
              step : {"RUNNING", "SUCCEEDED", "FAILED"}]
  BY Leaves
<1>3. /\ OthersStay(f) /\ job'[f].pc = "seal" /\ job'[f].outcome = outcome
      /\ job'[f].seq = job[f].seq /\ conn'[f] = NoConnection
      /\ result'[f].outputs = result[f].outputs
  BY <1>1, Together
<1> QED
  BY <1>1, <1>2, <1>3, QuietJob

\* The Worker has submitted, and the server answers.
LEMMA SubmitKeeps ==
    ASSUME IInv, NEW f \in Fences,
           Post(f) \/ PostArrives(f) \/ AnswerLost(f)
    PROVE  IInv'
<1>0. TypeOK /\ {"posted", "mark", "starting", "post"} \subseteq Pc
      /\ {"LOST", "DRIVER"} \subseteq Outcome
  BY DEF IInv, Pc, Outcome
<1>1. CASE Post(f)
  <2>1. /\ job[f].pc = "post" /\ Go(f, "posted") /\ SameServer
        /\ UNCHANGED <<conn, result, db>> /\ UNCHANGED <<strays, harmed, faults>>
    BY <1>1 DEF Post, server, SameServer
  <2> QED
    BY <1>0, <2>1, Leaves, GoesOn
<1>2. CASE PostArrives(f)
  <2>1. /\ job[f].pc = "posted" /\ SameServer /\ UNCHANGED <<result, db>>
        /\ UNCHANGED <<strays, harmed, faults>>
        /\ \/ Go(f, "mark") /\ UNCHANGED conn
           \/ Go(f, "starting") /\ UNCHANGED conn
           \/ Ends(f, "LOST")
    BY <1>2 DEF PostArrives, server, SameServer
  <2> QED
    BY <1>0, <2>1, Leaves, GoesOn, EndsKeeps
<1>3. CASE AnswerLost(f)
  <2>1. /\ job[f].pc \in {"posted", "starting"} /\ SameServer /\ UNCHANGED <<result, db>>
        /\ Fault /\ Abandoned(f) /\ UNCHANGED harmed
        /\ \/ Go(f, "post") /\ UNCHANGED conn
           \/ Ends(f, "DRIVER")
    BY <1>3 DEF AnswerLost, server, SameServer
  <2>2. Counted
    BY <1>0, <2>1, FaultIs, AbandonedIs, Types DEF Counted
  <2> QED
    BY <1>0, <2>1, <2>2, GoesOn, EndsKeeps
<1> QED
  BY <1>1, <1>2, <1>3

\* The run is marked submitted.
LEMMA MarkSubmittedKeeps ==
    ASSUME IInv, NEW f \in Fences, MarkSubmitted(f)
    PROVE  IInv'
<1>0. TypeOK /\ "follow" \in Pc /\ "DRIVER" \in Outcome
  BY DEF IInv, Pc, Outcome
<1>1. /\ job[f].pc = "mark" /\ SameServer /\ UNCHANGED result
      /\ UNCHANGED <<strays, harmed, faults>>
  BY DEF MarkSubmitted, server, SameServer
<1>2. CASE Holds(f) /\ db' = [db EXCEPT !.submitted = TRUE] /\ Go(f, "follow")
           /\ UNCHANGED conn
  <2>1. db \in [fence : Fences, submitted : BOOLEAN, committed : 0 .. MaxFences,
                step : {"RUNNING", "SUCCEEDED", "FAILED"}]
    BY Leaves
  <2>2. /\ db' \in [fence : Fences, submitted : BOOLEAN, committed : 0 .. MaxFences,
                    step : {"RUNNING", "SUCCEEDED", "FAILED"}]
        /\ db'.fence = db.fence /\ db'.step = db.step /\ db'.committed = db.committed
    BY <1>2, <2>1
  <2>3. /\ Moves(f, "follow", job[f].outcome) /\ ConnectionBecomes(f, conn[f])
        /\ ~conn[f].on /\ ResultBecomes(f, result[f].state, result[f].outputs)
        /\ Counted
    BY <1>0, <1>1, <1>2, GoIs, Leaves, NotConnected
  <2>4. /\ OthersStay(f) /\ job'[f].pc = "follow" /\ job'[f].outcome = job[f].outcome
        /\ job'[f].seq = job[f].seq /\ conn'[f] = conn[f]
        /\ result'[f].state = result[f].state /\ result'[f].outputs = result[f].outputs
    BY <2>3, Together
  <2>5. result[f].state # "NONE"
    BY <1>1, <1>2 DEF Holds, IInv, Undecided, Running, JobIsGood
  <2> QED
    BY <1>1, <2>2, <2>3, <2>4, <2>5, QuietJob
<1>3. CASE Ends(f, "DRIVER") /\ UNCHANGED db
  BY <1>0, <1>1, <1>3, Leaves, EndsKeeps
<1> QED
  BY <1>2, <1>3 DEF MarkSubmitted

\* The stored output cannot be written, or the stream breaks.
LEMMA FollowFailsKeeps ==
    ASSUME IInv, NEW f \in Fences, AppendFails(f) \/ Disconnect(f)
    PROVE  IInv'
<1>0. TypeOK /\ "DRIVER" \in Outcome
  BY DEF IInv, Outcome
<1>1. /\ conn[f].on /\ Fault /\ SameServer /\ UNCHANGED <<result, db>>
      /\ UNCHANGED <<strays, harmed>>
  BY DEF AppendFails, Disconnect, Unread, server, SameServer
<1>2. job[f].pc = "follow"
  BY <1>1 DEF IInv, ConnectedFollow
<1>3. Counted
  BY <1>0, <1>1, FaultIs, Types DEF Counted
<1>4. CASE Ends(f, "DRIVER")
  BY <1>0, <1>1, <1>2, <1>3, <1>4, EndsKeeps
<1>5. CASE conn' = [conn EXCEPT ![f] = NoConnection] /\ UNCHANGED job
  <2>1. /\ Moves(f, job[f].pc, job[f].outcome) /\ ConnectionBecomes(f, NoConnection)
        /\ ~NoConnection.on /\ ResultBecomes(f, result[f].state, result[f].outputs)
    BY <1>0, <1>1, <1>5, NoConnectionIs, Leaves
  <2>2. db \in [fence : Fences, submitted : BOOLEAN, committed : 0 .. MaxFences,
                step : {"RUNNING", "SUCCEEDED", "FAILED"}]
    BY Leaves
  <2>3. /\ OthersStay(f) /\ job'[f].pc = "follow" /\ job'[f].outcome = job[f].outcome
        /\ job'[f].seq = job[f].seq /\ conn'[f] = NoConnection
        /\ result'[f].state = result[f].state /\ result'[f].outputs = result[f].outputs
    BY <1>2, <2>1, Together
  <2>4. CASE Running
    <3>1. result[f].state # "NONE"
      BY <1>2, <2>4 DEF IInv, Undecided, JobIsGood
    <3> QED
      BY <1>1, <1>2, <1>3, <2>1, <2>2, <2>3, <3>1, QuietJob
  <2>5. CASE ~Running
    BY <1>1, <1>2, <1>3, <2>1, <2>2, <2>3, <2>5, OneJob
  <2> QED
    BY <2>4, <2>5
<1> QED
  BY <1>4, <1>5 DEF AppendFails, Disconnect

\* A crash, or a Worker that finds its lease lost.
LEMMA LeavesKeeps ==
    ASSUME IInv, NEW f \in Fences, Crash(f) \/ LoseLease(f) \/ ReleaseFails(f)
    PROVE  IInv'
<1>0. TypeOK /\ "gone" \in Pc
  BY DEF IInv, Pc
<1>1. /\ job[f].pc \notin {"idle", "gone"} /\ SameServer /\ UNCHANGED <<result, db>>
      /\ Go(f, "gone")
      /\ \/ UNCHANGED conn /\ job[f].pc # "follow"
         \/ conn' = [conn EXCEPT ![f] = NoConnection]
  BY DEF Crash, LoseLease, ReleaseFails, server, SameServer
<1>2. Counted
  <2>1. harmed' = harmed /\ (strays' = strays \/ Abandoned(f)) /\ (faults' = faults \/ Fault)
    BY DEF Crash, LoseLease, ReleaseFails, server
  <2> QED
    BY <1>0, <2>1, FaultIs, AbandonedIs, Types DEF Counted
<1>3. PICK c : ConnectionBecomes(f, c) /\ ~c.on
  BY <1>0, <1>1, NoConnectionIs, Leaves, NotConnected
<1>4. /\ Moves(f, "gone", job[f].outcome)
      /\ ResultBecomes(f, result[f].state, result[f].outputs)
  BY <1>0, <1>1, GoIs, Leaves
<1>5. db \in [fence : Fences, submitted : BOOLEAN, committed : 0 .. MaxFences,
              step : {"RUNNING", "SUCCEEDED", "FAILED"}]
  BY Leaves
<1>6. /\ OthersStay(f) /\ job'[f].pc = "gone" /\ job'[f].outcome = job[f].outcome
      /\ job'[f].seq = job[f].seq /\ conn'[f] = c
      /\ result'[f].state = result[f].state /\ result'[f].outputs = result[f].outputs
  BY <1>3, <1>4, Together
<1>7. CASE Running
  <2>1. job[f].pc # "release"
    BY <1>7 DEF IInv, Undecided, JobIsGood
  <2> QED
    BY <1>1, <1>2, <1>3, <1>5, <1>6, <2>1, QuietJob
<1>8. CASE ~Running
  <2>1. result'[f] = result[f]
    BY <1>1
  <2> QED
    BY <1>1, <1>2, <1>3, <1>5, <1>6, <1>8, <2>1, OneJob
<1> QED
  BY <1>7, <1>8

----------------------------------------------------------------------------
(* The Worker stores and commits.                                          *)

\* A result that was begun is sealed.
LEMMA SealIs ==
    ASSUME TypeOK, NEW f \in Fences, NEW state \in {"OPEN", "FINALIZED", "FAILED", "ABORTED"},
           SealResult(f, state)
    PROVE  \E s : /\ ResultBecomes(f, s, result[f].outputs)
                  /\ result[f].state # "NONE" => s = state
<1>1. CASE result[f].state = "NONE"
  <2>1. ResultBecomes(f, result[f].state, result[f].outputs)
    BY <1>1, Types DEF SealResult, ResultBecomes
  <2> QED
    BY <1>1, <2>1
<1>2. CASE result[f].state # "NONE"
  <2>1. ResultBecomes(f, state, result[f].outputs)
    BY <1>2, StateIs DEF SealResult
  <2> QED
    BY <2>1
<1> QED
  BY <1>1, <1>2

\* The manifest is written.
LEMMA SealKeeps ==
    ASSUME IInv, NEW f \in Fences, Seal(f)
    PROVE  IInv'
<1>0. TypeOK /\ "commit" \in Pc
  BY DEF IInv, Pc
<1>1. /\ job[f].pc = "seal" /\ SameServer /\ UNCHANGED <<conn, db>>
      /\ UNCHANGED <<strays, harmed, faults>> /\ Go(f, "commit")
      /\ SealResult(f, SealedAs(job[f].outcome))
  BY DEF Seal, server, SameServer
<1>2. PICK s : /\ ResultBecomes(f, s, result[f].outputs)
               /\ result[f].state # "NONE" => s = SealedAs(job[f].outcome)
  BY <1>0, <1>1, SealIs DEF SealedAs
<1>3. /\ Moves(f, "commit", job[f].outcome) /\ ConnectionBecomes(f, conn[f])
      /\ ~conn[f].on /\ Counted
  BY <1>0, <1>1, GoIs, Leaves, NotConnected
<1>4. db \in [fence : Fences, submitted : BOOLEAN, committed : 0 .. MaxFences,
              step : {"RUNNING", "SUCCEEDED", "FAILED"}]
  BY Leaves
<1>5. /\ OthersStay(f) /\ job'[f].pc = "commit" /\ job'[f].outcome = job[f].outcome
      /\ job'[f].seq = job[f].seq /\ conn'[f] = conn[f]
      /\ result'[f].state = s /\ result'[f].outputs = result[f].outputs
  BY <1>2, <1>3, Together
<1>6. CASE job[f].outcome # "OK"
  BY <1>1, <1>3, <1>4, <1>5, <1>6, QuietJob
<1>7. CASE job[f].outcome = "OK"
  <2>1. ASSUME Running PROVE JobIsGood(f)'
    <3>1. JobIsGood(f)
      BY <2>1 DEF IInv, Undecided
    <3>2. ~(f > db.fence) /\ Active(f)
      BY <1>1, <3>1 DEF JobIsGood, Active
    <3>3. StoredIsApplied(f)'
      BY <1>1, <1>5, <3>1, <3>2
         DEF JobIsGood, StoredIsApplied, SameServer, Open, Outputs
    <3>4. ConnectionIsGood(f)'
      BY <1>3, <1>5 DEF ConnectionIsGood
    <3>5. PICK n \in sent : WholeRun(n, result[f].outputs)
      BY <1>1, <1>7, <3>1 DEF JobIsGood, OutcomeIsEarned
    <3>6. WholeRun(n, result[f].outputs)' /\ n \in sent'
      BY <1>1, <1>5, <3>5 DEF WholeRun, SameServer
    <3>7. result'[f].state = "FINALIZED"
      BY <1>1, <1>2, <1>5, <1>7, <3>1 DEF JobIsGood, OutcomeIsEarned, SealedAs
    <3>8. OutcomeIsEarned(f)'
      BY <3>6, <3>7 DEF OutcomeIsEarned
    <3> QED
      BY <1>1, <1>5, <3>2, <3>3, <3>4, <3>8 DEF JobIsGood
  <2> QED
    BY <1>1, <1>3, <1>4, <1>5, <2>1, OneJob
<1> QED
  BY <1>6, <1>7

\* The manifest cannot be written, or the limit passes before or after it was.
LEMMA StoreFailsKeeps ==
    ASSUME IInv, NEW f \in Fences, SealFails(f) \/ LimitPasses(f)
    PROVE  IInv'
<1>0. /\ TypeOK /\ "commit" \in Pc /\ {"LIMIT", "DRIVER"} \subseteq Outcome
      /\ job[f].outcome \in Outcome
  BY Types DEF IInv, Pc, Outcome
<1>1. /\ SameServer /\ UNCHANGED <<db, harmed>> /\ Fault
      /\ strays' = strays \/ Abandoned(f)
      /\ job[f].pc \notin {"idle", "gone", "release"}
  BY DEF SealFails, LimitPasses, server, SameServer
<1>2. Counted
  BY <1>0, <1>1, FaultIs, AbandonedIs, Types DEF Counted
<1>3. CASE Ends(f, "LIMIT") /\ UNCHANGED result
  BY <1>0, <1>1, <1>2, <1>3, EndsKeeps
<1>4. ASSUME NEW outcome \in Outcome \ {"OK"}, job[f].pc = "seal", UNCHANGED conn,
             job' = [job EXCEPT ![f].pc = "commit", ![f].outcome = outcome],
             NEW state \in {"OPEN", "FINALIZED", "FAILED", "ABORTED"},
             SealResult(f, state)
      PROVE  IInv'
  <2>1. PICK s : ResultBecomes(f, s, result[f].outputs)
    BY <1>0, <1>4, SealIs
  <2>2. /\ Moves(f, "commit", outcome) /\ ConnectionBecomes(f, conn[f])
        /\ ~conn[f].on
    BY <1>0, <1>4, StopIs, Leaves, NotConnected
  <2>3. db \in [fence : Fences, submitted : BOOLEAN, committed : 0 .. MaxFences,
                step : {"RUNNING", "SUCCEEDED", "FAILED"}]
    BY Leaves
  <2>4. /\ OthersStay(f) /\ job'[f].pc = "commit" /\ job'[f].outcome = outcome
        /\ job'[f].seq = job[f].seq /\ conn'[f] = conn[f]
        /\ result'[f].outputs = result[f].outputs
    BY <2>1, <2>2, Together
  <2> QED
    BY <1>1, <1>2, <1>4, <2>2, <2>3, <2>4, QuietJob
<1>5. CASE SealFails(f)
  <2>1. PICK state \in {"OPEN", "ABORTED"} : SealResult(f, state)
    BY <1>5 DEF SealFails
  <2>2. PICK outcome : outcome = IF job[f].outcome \in {"OK", "ERROR"} THEN "DRIVER"
                                 ELSE job[f].outcome
    OBVIOUS
  <2>3. /\ job[f].pc = "seal" /\ UNCHANGED conn
        /\ job' = [job EXCEPT ![f].pc = "commit", ![f].outcome = outcome]
    BY <1>0, <1>5, <2>2, Types DEF SealFails
  <2>4. outcome \in Outcome \ {"OK"}
    BY <1>0, <2>2
  <2> QED
    BY <1>4, <2>1, <2>3, <2>4
<1>6. CASE /\ job[f].pc = "seal" /\ SealResult(f, SealedAs(job[f].outcome))
           /\ job' = [job EXCEPT ![f].pc = "commit", ![f].outcome = "LIMIT"]
           /\ UNCHANGED conn
  <2>1. /\ SealedAs(job[f].outcome) \in {"OPEN", "FINALIZED", "FAILED", "ABORTED"}
        /\ "LIMIT" \in Outcome \ {"OK"}
    BY <1>0 DEF SealedAs
  <2> QED
    BY <1>4, <1>6, <2>1
<1> QED
  BY <1>3, <1>5, <1>6 DEF LimitPasses

----------------------------------------------------------------------------
(* Once the Step is decided.                                               *)

\* What a run did when it is over stays.
RunsStay ==
    /\ sent \subseteq sent'
    /\ \A n \in sent : out[n].over =>
         /\ out'[n].over /\ out'[n].ok = out[n].ok
         /\ out'[n].printed = out[n].printed

\* A success stays a success.
LEMMA SuccessKept ==
    ASSUME SuccessStays, RunsStay, UNCHANGED db,
           \A f \in Fences : job[f].pc \in {"release", "gone"} =>
              job'[f].pc \in {"release", "gone"} /\ result'[f] = result[f]
    PROVE  SuccessStays'
<1> SUFFICES ASSUME db.step = "SUCCEEDED"
             PROVE  /\ db.committed \in Fences
                    /\ job'[db.committed].pc \in {"release", "gone"}
                    /\ result'[db.committed].state = "FINALIZED"
                    /\ \E n \in sent' : WholeRun(n, result[db.committed].outputs)'
  BY DEF SuccessStays
<1>1. /\ db.committed \in Fences
      /\ job[db.committed].pc \in {"release", "gone"}
      /\ result[db.committed].state = "FINALIZED"
  BY DEF SuccessStays
<1>2. PICK n \in sent : WholeRun(n, result[db.committed].outputs)
  BY DEF SuccessStays
<1>3. /\ result'[db.committed] = result[db.committed]
      /\ job'[db.committed].pc \in {"release", "gone"}
  BY <1>1
<1>4. n \in sent' /\ WholeRun(n, result[db.committed].outputs)'
  BY <1>2, <1>3 DEF WholeRun, RunsStay
<1> QED
  BY <1>1, <1>3, <1>4

\* mark_succeeded takes the sealed result of the token that holds the Step.
LEMMA CommitKeeps ==
    ASSUME IInv, NEW f \in Fences, Commit(f)
    PROVE  IInv'
<1>0. TypeOK /\ {"release", "gone"} \subseteq Pc /\ f \in 0 .. MaxFences
  BY BoundsAssumption DEF IInv, Pc, Fences
<1>1. /\ job[f].pc = "commit" /\ Running /\ SameServer
      /\ UNCHANGED <<strays, conn, result, harmed, faults>>
  BY DEF Commit, Holds, Running, server, SameServer
<1>2. PICK pc \in {"release", "gone"} : Go(f, pc)
  BY DEF Commit
<1>3. PICK step \in {"SUCCEEDED", "FAILED"} :
        /\ db' = [db EXCEPT !.step = step, !.committed = f]
        /\ step = "SUCCEEDED" => job[f].outcome = "OK"
  BY DEF Commit
<1>4. /\ db' \in [fence : Fences, submitted : BOOLEAN, committed : 0 .. MaxFences,
                  step : {"RUNNING", "SUCCEEDED", "FAILED"}]
      /\ db'.step = step /\ db'.committed = f
  BY <1>0, <1>3 DEF TypeOK
<1>5. /\ job' \in [Fences -> Job] /\ job'[f].pc = pc
      /\ \A g \in Fences \ {f} : job'[g] = job[g]
  BY <1>0, <1>2, GoIs DEF Moves, JobBecomes
<1>6. TypeOK'
  BY <1>0, <1>1, <1>4, <1>5 DEF TypeOK, SameServer
<1>7. ~conn[f].on
  BY <1>1, NotConnected
<1>8. ConnectedFollow'
  BY <1>1, <1>5, <1>7 DEF IInv, ConnectedFollow
<1>9. Undecided'
  BY <1>3, <1>4 DEF Undecided, Running
<1>10. SuccessStays'
  <2> SUFFICES ASSUME step = "SUCCEEDED"
               PROVE  /\ f \in Fences /\ job'[f].pc \in {"release", "gone"}
                      /\ result'[f].state = "FINALIZED"
                      /\ \E n \in sent' : WholeRun(n, result[f].outputs)'
    BY <1>4 DEF SuccessStays
  <2>1. OutcomeIsEarned(f)
    BY <1>1 DEF IInv, Undecided, JobIsGood
  <2>2. result[f].state = "FINALIZED" /\ \E n \in sent : WholeRun(n, result[f].outputs)
    BY <1>1, <1>3, <2>1 DEF OutcomeIsEarned
  <2>3. PICK n \in sent : WholeRun(n, result[f].outputs)
    BY <2>2
  <2>4. n \in sent' /\ WholeRun(n, result[f].outputs)'
    BY <1>1, <2>3 DEF WholeRun, SameServer
  <2> QED
    BY <1>1, <1>2, <1>5, <2>2, <2>4
<1> QED
  BY <1>6, <1>8, <1>9, <1>10 DEF IInv

\* The journal of a decided Step is deleted, unless its recorder is there.
LEMMA ReleaseKeeps ==
    ASSUME IInv, NEW f \in Fences, Release(f)
    PROVE  IInv'
<1>0. TypeOK /\ "gone" \in Pc
  BY DEF IInv, Pc
<1>1. /\ job[f].pc = "release" /\ Go(f, "gone")
      /\ UNCHANGED <<lines, rec, kernel, out, sent, strays, conn, result, db>>
      /\ UNCHANGED <<harmed, faults>>
      /\ path' = IF ~rec.on THEN 0 ELSE path
  BY DEF Release, MayDelete
<1>2. /\ job' \in [Fences -> Job] /\ job'[f].pc = "gone"
      /\ \A g \in Fences \ {f} : job'[g] = job[g]
  BY <1>0, <1>1, GoIs DEF Moves, JobBecomes
<1>3. TypeOK'
  <2>1. path' \in 0 .. Len(lines) /\ (rec.on => path' # 0)
    BY <1>0, <1>1, Types DEF TypeOK
  <2> QED
    BY <1>0, <1>1, <1>2, <2>1 DEF TypeOK
<1>4. ConnectedFollow'
  BY <1>1, <1>2 DEF IInv, ConnectedFollow
<1>5. Undecided'
  BY <1>1 DEF IInv, Undecided, Running, JobIsGood
<1>6. SuccessStays'
  BY <1>1, <1>2, SuccessKept DEF IInv, RunsStay
<1> QED
  BY <1>3, <1>4, <1>5, <1>6 DEF IInv

----------------------------------------------------------------------------
(* The Worker follows.                                                     *)

\* Output messages are counted line by line.
LEMMA OutputsIs ==
    ASSUME NEW n, NEW k \in Nat
    PROVE  /\ Outputs(n, k) \in Nat /\ Outputs(n, 0) = 0
           /\ Outputs(n, k + 1) =
                Outputs(n, k) + IF lines[n][k + 1].type = "OUTPUT" THEN 1 ELSE 0
<1> DEFINE S(j) == {i \in 1 .. j : lines[n][i].type = "OUTPUT"}
<1>1. IsFiniteSet(1 .. k) /\ S(k) \subseteq 1 .. k
  BY FS_Interval
<1>2. IsFiniteSet(S(k)) /\ Cardinality(S(k)) \in Nat
  BY <1>1, FS_Subset, FS_CardinalityType
<1>3. S(0) = {}
  OBVIOUS
<1>4. k + 1 \notin S(k)
  OBVIOUS
<1>5. S(k + 1) = IF lines[n][k + 1].type = "OUTPUT" THEN S(k) \cup {k + 1} ELSE S(k)
  <2>1. \A i : i \in 1 .. k + 1 <=> i \in 1 .. k \/ i = k + 1
    OBVIOUS
  <2> QED
    BY <2>1
<1>6. Cardinality({}) = 0
  BY FS_EmptySet
<1>7. Cardinality(S(k) \cup {k + 1}) = Cardinality(S(k)) + 1
  BY <1>2, <1>4, FS_AddElement
<1> HIDE DEF S
<1>8. Cardinality(S(k + 1)) =
        Cardinality(S(k)) + IF lines[n][k + 1].type = "OUTPUT" THEN 1 ELSE 0
  BY <1>2, <1>5, <1>7
<1> QED
  BY <1>2, <1>3, <1>6, <1>8 DEF S, Outputs

\* The lines of a journal.
LEMMA LinesAre ==
    ASSUME TypeOK, NEW n \in 1 .. Len(lines)
    PROVE  /\ lines[n] \in Seq(Line) /\ Len(lines[n]) \in Nat
           /\ \A i \in 1 .. Len(lines[n]) :
                lines[n][i].seq \in Nat /\ lines[n][i].type \in
                  Terminal \cup {"OUTPUT", "OK", "ERROR"}
<1>1. lines \in Seq(Seq(Line))
  BY DEF TypeOK
<1>2. lines[n] \in Seq(Line)
  BY <1>1, ElementOfSeq
<1>3. Len(lines[n]) \in Nat /\ \A i \in 1 .. Len(lines[n]) : lines[n][i] \in Line
  BY <1>2, LenProperties, ElementOfSeq
<1> QED
  BY <1>2, <1>3 DEF Line

\* A Worker that reconnects reads from where it was.
LEMMA SkippedIs ==
    ASSUME TypeOK, NEW n \in 1 .. Len(lines), NEW k \in Nat
    PROVE  /\ Skipped(n, k) \in Nat
           /\ Numbered(n) /\ k <= Len(lines[n]) /\ Open(n, k) => Skipped(n, k) = k
<1> DEFINE S == {i \in DOMAIN lines[n] : lines[n][i].seq <= k}
<1>1. PICK l \in Nat : l = Len(lines[n])
  BY LinesAre
<1>2. DOMAIN lines[n] = 1 .. l
  BY <1>1, LinesAre, LenProperties
<1>3. IsFiniteSet(1 .. l) /\ S \subseteq 1 .. l
  BY <1>2, FS_Interval
<1>4. Cardinality(S) \in Nat
  BY <1>3, FS_Subset, FS_CardinalityType
<1>5. ASSUME Numbered(n), k <= l, Open(n, k) PROVE S = 1 .. k
  <2>1. \A i \in k + 1 .. l : lines[n][i].seq > k
    BY <1>1, <1>5 DEF Numbered
  <2>2. ASSUME NEW i \in 1 .. k PROVE lines[n][i].seq = i
    <3>1. i - 1 \in 0 .. l /\ i \in (i - 1) + 1 .. l /\ i = (i - 1) + 1
      BY <1>5
    <3>2. Open(n, i - 1)
      BY <1>5 DEF Open
    <3> QED
      BY <3>1, <3>2, <1>1, <1>5 DEF Numbered
  <2>3. \A i \in 1 .. l : lines[n][i].seq \in Nat
    BY <1>1, LinesAre
  <2>4. \A i \in 1 .. l : lines[n][i].seq <= k <=> i <= k
    BY <2>1, <2>2, <2>3
  <2> QED
    BY <1>2, <1>5, <2>4
<1>6. Cardinality(1 .. k) = k
  <2>1. 0 \in Nat /\ 1 \in Int /\ k \in Int
    OBVIOUS
  <2>2. Cardinality(1 .. k) = IF 1 > k THEN 0 ELSE k - 1 + 1
    BY <2>1, FS_Interval
  <2> QED
    BY <2>2
<1> QED
  BY <1>1, <1>4, <1>5, <1>6 DEF Skipped

\* What a Worker knows when it follows the journal of an undecided Step.
LEMMA Following ==
    ASSUME IInv, Running, NEW f \in Fences, Active(f), path # 0
    PROVE  /\ path \in 1 .. Len(lines) /\ Len(lines[path]) \in Nat
           /\ Numbered(path) /\ CompletedIsWhole(path)
           /\ JobIsGood(f) /\ ~(f > db.fence)
           /\ job[f].seq <= Len(lines[path]) /\ Open(path, job[f].seq)
           /\ result[f].outputs = [i \in 1 .. Outputs(path, job[f].seq) |-> <<path, i>>]
<1>1. TypeOK /\ JobIsGood(f) /\ Numbered(path) /\ CompletedIsWhole(path)
  BY DEF IInv, Undecided
<1>2. path \in 1 .. Len(lines)
  BY <1>1, Types
<1>3. Len(lines[path]) \in Nat
  BY <1>1, <1>2, LinesAre
<1>4. ~(f > db.fence)
  BY <1>1 DEF JobIsGood, Active
<1> QED
  BY <1>1, <1>2, <1>3, <1>4 DEF JobIsGood, StoredIsApplied

\* The Worker connects, or finds no journal.
LEMMA ConnectKeeps ==
    ASSUME IInv, NEW f \in Fences, Connect(f)
    PROVE  IInv'
<1>0. TypeOK /\ "LOST" \in Outcome
  BY DEF IInv, Outcome
<1>1. /\ job[f].pc = "follow" /\ SameServer /\ UNCHANGED <<result, db>>
      /\ UNCHANGED <<strays, harmed, faults>>
  BY DEF Connect, server, SameServer
<1>2. /\ Counted
      /\ db \in [fence : Fences, submitted : BOOLEAN, committed : 0 .. MaxFences,
                 step : {"RUNNING", "SUCCEEDED", "FAILED"}]
  BY <1>1, Leaves
<1>3. CASE Ends(f, "LOST")
  BY <1>0, <1>1, <1>2, <1>3, EndsKeeps
<1>4. CASE ~Ends(f, "LOST")
  <2>1. PICK c : c = [NoConnection EXCEPT !.on = TRUE, !.file = path,
                           !.read = Skipped(path, After(f)), !.recording = rec.on]
    OBVIOUS
  <2>2. path # 0 /\ conn' = [conn EXCEPT ![f] = c] /\ UNCHANGED job
    BY <1>4, <2>1 DEF Connect
  <2>3. path \in 1 .. Len(lines) /\ path \in Nat /\ job[f].seq \in Nat
    BY <1>0, <2>2, Types
  <2>4. Skipped(path, After(f)) \in Nat
    BY <1>0, <2>3, SkippedIs DEF After
  <2>5. /\ c \in Connection /\ c.on /\ c.file = path /\ ~c.marked
        /\ c.read = Skipped(path, After(f)) /\ c.recording = rec.on
    <3>1. rec.on \in BOOLEAN
      BY <1>0 DEF TypeOK, Recording
    <3>2. c = [on |-> TRUE, file |-> path, read |-> Skipped(path, After(f)),
               caughtUp |-> FALSE, recording |-> rec.on, marked |-> FALSE]
      BY <2>1 DEF NoConnection
    <3> QED
      BY <2>3, <2>4, <3>1, <3>2 DEF Connection
  <2>6. /\ conn' \in [Fences -> Connection] /\ conn'[f] = c
        /\ \A g \in Fences \ {f} : conn'[g] = conn[g]
    BY <1>0, <2>2, <2>5, Types
  <2>7. OthersStay(f)
    BY <1>0, <1>1, <2>2, <2>6, Types DEF OthersStay
  <2>8. ASSUME Running PROVE JobIsGood(f)'
    <3>1. Active(f)
      BY <1>1 DEF Active
    <3>2. /\ JobIsGood(f) /\ Numbered(path) /\ job[f].seq <= Len(lines[path])
          /\ Open(path, job[f].seq)
      BY <2>2, <2>8, <3>1, Following
    <3>3. Skipped(path, After(f)) = job[f].seq
      BY <1>0, <2>3, <3>2, SkippedIs DEF After
    <3>4. ConnectionIsGood(f)'
      BY <1>1, <2>2, <2>5, <2>6, <3>3 DEF ConnectionIsGood, SameServer
    <3>5. StoredIsApplied(f)'
      BY <1>1, <2>2, <3>2
         DEF JobIsGood, StoredIsApplied, SameServer, Active, Open, Outputs
    <3>6. OutcomeIsEarned(f)'
      BY <1>1, <2>2 DEF OutcomeIsEarned
    <3> QED
      BY <1>1, <2>2, <3>2, <3>4, <3>5, <3>6 DEF JobIsGood
  <2> QED
    BY <1>1, <1>2, <2>2, <2>7, <2>8, OneJob
<1> QED
  BY <1>3, <1>4

\* The Worker has read to the end of the file for the first time.
LEMMA CatchUpKeeps ==
    ASSUME IInv, NEW f \in Fences, CatchUp(f)
    PROVE  IInv'
<1>0. TypeOK /\ "DRIVER" \in Outcome
  BY DEF IInv, Outcome
<1>1. /\ conn[f].on /\ ~Unread(f) /\ SameServer /\ UNCHANGED <<result, db>>
      /\ UNCHANGED <<strays, harmed, faults>>
  BY DEF CatchUp, server, SameServer
<1>2. job[f].pc = "follow"
  BY <1>1 DEF IInv, ConnectedFollow
<1>3. /\ Counted
      /\ db \in [fence : Fences, submitted : BOOLEAN, committed : 0 .. MaxFences,
                 step : {"RUNNING", "SUCCEEDED", "FAILED"}]
  BY <1>1, Leaves
<1>4. CASE Ends(f, "DRIVER")
  BY <1>0, <1>1, <1>2, <1>3, <1>4, EndsKeeps
<1>5. CASE ~Ends(f, "DRIVER")
  <2>1. /\ conn' = [conn EXCEPT ![f].caughtUp = TRUE, ![f].marked = ~conn[f].recording]
        /\ job' = [job EXCEPT ![f].caughtUp = TRUE]
    BY <1>5 DEF CatchUp
  <2>2. PICK c : c = [conn[f] EXCEPT !.caughtUp = TRUE, !.marked = ~conn[f].recording]
    OBVIOUS
  <2>3. PICK j : j = [job[f] EXCEPT !.caughtUp = TRUE]
    OBVIOUS
  <2>4. /\ c \in Connection /\ c.on = conn[f].on /\ c.file = conn[f].file
        /\ c.read = conn[f].read /\ c.recording = conn[f].recording
        /\ c.marked = ~conn[f].recording
    BY <1>0, <2>2, Types DEF Connection
  <2>5. /\ j \in Job /\ j.pc = job[f].pc /\ j.seq = job[f].seq
        /\ j.outcome = job[f].outcome
    BY <1>0, <2>3, Types DEF Job
  <2>6. conn' = [conn EXCEPT ![f] = c] /\ job' = [job EXCEPT ![f] = j]
    BY <1>0, <2>1, <2>2, <2>3, Types
  <2>7. /\ conn' \in [Fences -> Connection] /\ conn'[f] = c
        /\ job' \in [Fences -> Job] /\ job'[f] = j
        /\ \A g \in Fences \ {f} : conn'[g] = conn[g] /\ job'[g] = job[g]
    BY <1>0, <2>4, <2>5, <2>6, Types
  <2>8. OthersStay(f)
    BY <1>0, <1>1, <2>7, Types DEF OthersStay
  <2>9. ASSUME Running PROVE JobIsGood(f)'
    <3>1. JobIsGood(f) /\ Active(f)
      BY <1>2, <2>9 DEF IInv, Undecided, Active
    <3>2. path # 0 /\ conn[f].file = path /\ conn[f].read = job[f].seq
      BY <1>1, <3>1 DEF JobIsGood, ConnectionIsGood
    <3>3. job[f].seq <= Len(lines[path]) /\ Len(lines[path]) \in Nat
      BY <2>9, <3>1, <3>2, Following
    <3>4. conn[f].read = Len(lines[path])
      BY <1>0, <1>1, <3>2, <3>3, Types DEF Unread
    <3>5. ConnectionIsGood(f)'
      BY <1>1, <2>4, <2>5, <2>7, <3>1, <3>4
         DEF JobIsGood, ConnectionIsGood, SameServer
    <3>6. StoredIsApplied(f)'
      BY <1>1, <2>5, <2>7, <3>1
         DEF JobIsGood, StoredIsApplied, SameServer, Active, Open, Outputs
    <3>7. OutcomeIsEarned(f)'
      BY <1>2, <2>5, <2>7 DEF OutcomeIsEarned
    <3> QED
      BY <1>1, <1>2, <2>5, <2>7, <3>1, <3>5, <3>6, <3>7 DEF JobIsGood
  <2> QED
    BY <1>1, <1>2, <1>3, <2>5, <2>7, <2>8, <2>9, OneJob
<1> QED
  BY <1>4, <1>5

\* One more line is applied, and its output stored.
LEMMA LineKeeps ==
    ASSUME IInv, NEW f \in Fences, ApplyLine(f),
           NextLine(f).seq = job[f].seq + 1, NextLine(f).type \notin Terminal,
           job' = [job EXCEPT ![f].seq = @ + 1],
           conn' = [conn EXCEPT ![f].read = @ + 1],
           result' = IF NextLine(f).type = "OUTPUT"
                     THEN [result EXCEPT ![f].outputs =
                             Append(@, <<conn[f].file, Len(@) + 1>>)]
                     ELSE result
    PROVE  IInv'
<1>0. TypeOK
  BY DEF IInv
<1>1. /\ Unread(f) /\ conn[f].on /\ ~conn[f].marked /\ SameServer /\ UNCHANGED db
      /\ UNCHANGED <<strays, harmed, faults>>
  BY DEF ApplyLine, Unread, server, SameServer
<1>2. job[f].pc = "follow"
  BY <1>1 DEF IInv, ConnectedFollow
<1>3. /\ Counted
      /\ db \in [fence : Fences, submitted : BOOLEAN, committed : 0 .. MaxFences,
                 step : {"RUNNING", "SUCCEEDED", "FAILED"}]
  BY <1>1, Leaves
<1>4. PICK s \in Nat, r \in Nat : s = job[f].seq + 1 /\ r = conn[f].read + 1
  BY <1>0, Types
<1>5. PICK j : j = [job[f] EXCEPT !.seq = s]
  OBVIOUS
<1>6. PICK c : c = [conn[f] EXCEPT !.read = r]
  OBVIOUS
<1>7. PICK o : o = IF NextLine(f).type = "OUTPUT"
                   THEN Append(result[f].outputs,
                               <<conn[f].file, Len(result[f].outputs) + 1>>)
                   ELSE result[f].outputs
  OBVIOUS
<1>8. PICK d : d = [result[f] EXCEPT !.outputs = o]
  OBVIOUS
<1>9. /\ j \in Job /\ j.pc = job[f].pc /\ j.seq = s /\ j.outcome = job[f].outcome
  BY <1>0, <1>4, <1>5, Types DEF Job
<1>10. /\ c \in Connection /\ c.on = conn[f].on /\ c.file = conn[f].file /\ c.read = r
       /\ c.recording = conn[f].recording /\ c.marked = conn[f].marked
  BY <1>0, <1>4, <1>6, Types DEF Connection
<1>11. result[f].outputs \in Seq(Nat \X Nat) /\ conn[f].file \in Nat
  BY <1>0, Types DEF Result, Connection
<1>12. PICK m \in Nat : m = Len(result[f].outputs)
  BY <1>11, LenProperties
<1>13. PICK e \in Nat \X Nat : e = <<conn[f].file, m + 1>>
  <2>1. m + 1 \in Nat
    BY <1>12
  <2>2. <<conn[f].file, m + 1>> \in Nat \X Nat
    BY <1>11, <2>1
  <2> QED
    BY <2>2
<1>14. /\ Append(result[f].outputs, e) \in Seq(Nat \X Nat)
       /\ Len(Append(result[f].outputs, e)) = m + 1
       /\ \A i \in 1 .. m : Append(result[f].outputs, e)[i] = result[f].outputs[i]
       /\ Append(result[f].outputs, e)[m + 1] = e
  BY <1>11, <1>12, <1>13, AppendProperties
<1>15. o = IF NextLine(f).type = "OUTPUT" THEN Append(result[f].outputs, e)
           ELSE result[f].outputs
  BY <1>7, <1>12, <1>13
<1>16. o \in Seq(Nat \X Nat)
  BY <1>11, <1>14, <1>15
<1>17. d \in Result /\ d.state = result[f].state /\ d.outputs = o
  BY <1>0, <1>8, <1>16, Types DEF Result
<1>18. job' = [job EXCEPT ![f] = j] /\ conn' = [conn EXCEPT ![f] = c]
  BY <1>0, <1>4, <1>5, <1>6, Types
<1>19. result' = [result EXCEPT ![f] = d]
  <2>1. result \in [Fences -> Result]
    BY <1>0, Types
  <2>2. CASE NextLine(f).type = "OUTPUT"
    BY <2>1, <2>2, <1>7, <1>8
  <2>3. CASE NextLine(f).type # "OUTPUT"
    <3>1. d = result[f]
      BY <2>1, <2>3, <1>7, <1>8 DEF Result
    <3> QED
      BY <2>1, <2>3, <3>1
  <2> QED
    BY <2>2, <2>3
<1>20. /\ job' \in [Fences -> Job] /\ job'[f] = j
       /\ conn' \in [Fences -> Connection] /\ conn'[f] = c
       /\ \A g \in Fences \ {f} : job'[g] = job[g] /\ conn'[g] = conn[g]
  <2>1. job \in [Fences -> Job] /\ conn \in [Fences -> Connection]
    BY <1>0, Types
  <2>2. /\ job' \in [Fences -> Job] /\ job'[f] = j
        /\ \A g \in Fences \ {f} : job'[g] = job[g]
    BY <1>9, <1>18, <2>1
  <2>3. /\ conn' \in [Fences -> Connection] /\ conn'[f] = c
        /\ \A g \in Fences \ {f} : conn'[g] = conn[g]
    BY <1>10, <1>18, <2>1
  <2> QED
    BY <2>2, <2>3
<1>21. /\ result' \in [Fences -> Result] /\ result'[f] = d
       /\ \A g \in Fences \ {f} : result'[g] = result[g]
  BY <1>0, <1>17, <1>19, Types
<1>22. OthersStay(f)
  BY <1>20, <1>21 DEF OthersStay
<1>23. ASSUME Running PROVE JobIsGood(f)'
  <2>1. JobIsGood(f) /\ Active(f)
    BY <1>2, <1>23 DEF IInv, Undecided, Active
  <2>2. path # 0 /\ conn[f].file = path /\ conn[f].read = job[f].seq
    BY <1>1, <2>1 DEF JobIsGood, ConnectionIsGood
  <2>3. PICK k \in Nat : k = job[f].seq
    BY <1>0, Types
  <2>4. /\ k <= Len(lines[path]) /\ Len(lines[path]) \in Nat /\ Open(path, k)
        /\ result[f].outputs = [i \in 1 .. Outputs(path, k) |-> <<path, i>>]
    BY <1>23, <2>1, <2>2, <2>3, Following
  <2>5. k + 1 <= Len(lines[path]) /\ s = k + 1 /\ r = k + 1
    BY <1>1, <1>4, <2>2, <2>3, <2>4 DEF Unread
  <2>6. NextLine(f) = lines[path][k + 1]
    BY <2>2, <2>3 DEF NextLine
  <2>7. Open(path, k + 1)
    <3>1. \A i \in 1 .. k + 1 : i \in 1 .. k \/ i = k + 1
      OBVIOUS
    <3> QED
      BY <2>4, <2>6, <3>1 DEF Open
  <2>8. PICK q \in Nat : q = Outputs(path, k)
    BY OutputsIs
  <2>9. Len(result[f].outputs) = q
    BY <2>4, <2>8
  <2>10. o = [i \in 1 .. Outputs(path, k + 1) |-> <<path, i>>]
    <3>1. CASE NextLine(f).type = "OUTPUT"
      <4>1. Outputs(path, k + 1) = q + 1
        BY <2>6, <2>8, <3>1, OutputsIs
      <4>2. m = q /\ e = <<path, q + 1>>
        BY <1>12, <1>13, <2>2, <2>9
      <4>3. o \in Seq(Nat \X Nat) /\ Len(o) = q + 1
        BY <1>14, <1>15, <3>1, <4>2
      <4>4. ASSUME NEW i \in 1 .. q + 1 PROVE o[i] = <<path, i>>
        <5>1. CASE i = q + 1
          BY <1>14, <1>15, <3>1, <4>2, <5>1
        <5>2. CASE i \in 1 .. q
          <6>1. o[i] = result[f].outputs[i]
            BY <1>14, <1>15, <3>1, <4>2, <5>2
          <6> QED
            BY <2>4, <2>8, <5>2, <6>1
        <5>3. i = q + 1 \/ i \in 1 .. q
          OBVIOUS
        <5> QED
          BY <5>1, <5>2, <5>3
      <4>5. DOMAIN o = 1 .. q + 1 /\ o = [i \in DOMAIN o |-> o[i]]
        BY <4>3, LenProperties
      <4> QED
        BY <4>1, <4>4, <4>5
    <3>2. CASE NextLine(f).type # "OUTPUT"
      <4>1. Outputs(path, k + 1) = q
        BY <2>6, <2>8, <3>2, OutputsIs
      <4> QED
        BY <1>15, <2>4, <2>8, <3>2, <4>1
    <3> QED
      BY <3>1, <3>2
  <2>11. ConnectionIsGood(f)'
    BY <1>1, <1>4, <1>9, <1>10, <1>20, <2>1, <2>2 DEF JobIsGood, ConnectionIsGood, SameServer
  <2>12. /\ path' = path /\ lines' = lines /\ Open(path, k + 1)'
         /\ Outputs(path, k + 1)' = Outputs(path, k + 1)
    BY <1>1, <2>7 DEF SameServer, Open, Outputs
  <2>13. StoredIsApplied(f)'
    <3>1. job'[f].seq = k + 1 /\ result'[f].outputs = o
      BY <1>9, <1>17, <1>20, <1>21, <2>5
    <3>2. Open(path, job[f].seq)' /\ Outputs(path, job[f].seq)' = Outputs(path, k + 1)
      BY <2>12, <3>1 DEF Open, Outputs
    <3> QED
      BY <2>2, <2>5, <2>10, <2>12, <3>1, <3>2 DEF StoredIsApplied
  <2>14. OutcomeIsEarned(f)'
    BY <1>2, <1>9, <1>20 DEF OutcomeIsEarned
  <2> QED
    BY <1>1, <1>2, <1>9, <1>17, <1>20, <1>21, <2>1, <2>11, <2>13, <2>14 DEF JobIsGood
<1> QED
  BY <1>1, <1>2, <1>3, <1>9, <1>20, <1>22, <1>23, OneJob

\* The last line is applied: success means that the journal is whole.
LEMMA LastLineKeeps ==
    ASSUME IInv, NEW f \in Fences, ApplyLine(f), UNCHANGED result,
           NextLine(f).type \in Terminal,
           Ends(f, CASE NextLine(f).type = "LOST" -> "LOST"
                     [] NextLine(f).type = "OUTPUT_LIMIT" -> "LIMIT"
                     [] ReportsCatchUp(f) /\ ~Holds(f) -> "DRIVER"
                     [] OTHER -> Replied(f))
    PROVE  IInv'
<1>0. TypeOK
  BY DEF IInv
<1>1. /\ Unread(f) /\ conn[f].on /\ ~conn[f].marked /\ SameServer /\ UNCHANGED db
      /\ UNCHANGED <<strays, harmed, faults>>
  BY DEF ApplyLine, Unread, server, SameServer
<1>2. job[f].pc = "follow"
  BY <1>1 DEF IInv, ConnectedFollow
<1>3. /\ Counted
      /\ db \in [fence : Fences, submitted : BOOLEAN, committed : 0 .. MaxFences,
                 step : {"RUNNING", "SUCCEEDED", "FAILED"}]
  BY <1>1, Leaves
<1>4. PICK outcome \in Outcome :
        /\ Ends(f, outcome)
        /\ outcome = "OK" =>
             /\ NextLine(f).type = "COMPLETED"
             /\ \A i \in 1 .. conn[f].read : lines[conn[f].file][i].type # "ERROR"
  BY DEF Terminal, Replied, Outcome
<1>5. CASE outcome # "OK"
  BY <1>1, <1>2, <1>3, <1>4, <1>5, EndsKeeps
<1>6. CASE outcome = "OK"
  <2>1. /\ Moves(f, "seal", outcome) /\ ConnectionBecomes(f, NoConnection)
        /\ ~NoConnection.on /\ ResultBecomes(f, result[f].state, result[f].outputs)
    BY <1>0, <1>4, EndsIs, Leaves
  <2>2. /\ OthersStay(f) /\ job'[f].pc = "seal" /\ job'[f].outcome = outcome
        /\ job'[f].seq = job[f].seq /\ conn'[f] = NoConnection
        /\ result'[f].state = result[f].state /\ result'[f].outputs = result[f].outputs
    BY <2>1, Together
  <2>3. ASSUME Running PROVE JobIsGood(f)'
    <3>1. JobIsGood(f) /\ Active(f)
      BY <1>2, <2>3 DEF IInv, Undecided, Active
    <3>2. path # 0 /\ conn[f].file = path /\ conn[f].read = job[f].seq
      BY <1>1, <3>1 DEF JobIsGood, ConnectionIsGood
    <3>3. PICK k \in Nat : k = job[f].seq
      BY <1>0, Types
    <3>4. /\ k <= Len(lines[path]) /\ Len(lines[path]) \in Nat /\ CompletedIsWhole(path)
          /\ result[f].outputs = [i \in 1 .. Outputs(path, k) |-> <<path, i>>]
      BY <2>3, <3>1, <3>2, <3>3, Following
    <3>5. k + 1 \in 1 .. Len(lines[path]) /\ (k + 1) - 1 = k
      BY <1>1, <3>2, <3>3, <3>4 DEF Unread
    <3>6. lines[path][k + 1].type = "COMPLETED"
      BY <1>4, <1>6, <3>2, <3>3 DEF NextLine
    <3>7. \A i \in 1 .. k : lines[path][i].type # "ERROR"
      BY <1>4, <1>6, <3>2, <3>3
    <3>8. /\ path \in sent /\ out[path].over /\ Outputs(path, k) = out[path].printed
          /\ out[path].ok
      BY <3>4, <3>5, <3>6, <3>7 DEF CompletedIsWhole
    <3>9. WholeRun(path, result[f].outputs)
      BY <3>4, <3>8 DEF WholeRun
    <3>10. \E n \in sent' : WholeRun(n, result[f].outputs)'
      <4>1. PICK n \in sent : n = path
        BY <3>8
      <4>2. n \in sent' /\ WholeRun(n, result[f].outputs)'
        BY <1>1, <2>2, <3>9, <4>1 DEF WholeRun, SameServer
      <4> QED
        BY <4>2
    <3>11. result[f].state # "NONE" /\ ~(f > db.fence)
      BY <1>2, <3>1 DEF JobIsGood
    <3>12. OutcomeIsEarned(f)'
      BY <2>2, <3>10, <3>11 DEF OutcomeIsEarned
    <3>13. ConnectionIsGood(f)'
      BY <2>1, <2>2 DEF ConnectionIsGood
    <3>14. StoredIsApplied(f)'
      BY <1>1, <2>2, <3>1
         DEF JobIsGood, StoredIsApplied, SameServer, Active, Open, Outputs
    <3> QED
      BY <1>1, <2>2, <3>11, <3>12, <3>13, <3>14 DEF JobIsGood
  <2> QED
    BY <1>1, <1>2, <1>3, <2>1, <2>2, <2>3, OneJob
<1> QED
  BY <1>5, <1>6

\* A line is applied, ends the execution, or is not the one expected.
LEMMA ApplyLineKeeps ==
    ASSUME IInv, NEW f \in Fences, ApplyLine(f)
    PROVE  IInv'
<1>0. "GAP" \in Outcome
  BY DEF Outcome
<1>1. /\ conn[f].on /\ SameServer /\ UNCHANGED db /\ UNCHANGED <<strays, harmed, faults>>
  BY DEF ApplyLine, Unread, server, SameServer
<1>2. job[f].pc = "follow"
  BY <1>1 DEF IInv, ConnectedFollow
<1>3. CASE Ends(f, "GAP") /\ UNCHANGED result
  BY <1>0, <1>1, <1>2, <1>3, Leaves, EndsKeeps
<1> QED
  BY <1>3, LineKeeps, LastLineKeeps DEF ApplyLine

----------------------------------------------------------------------------
(* What a step of the server does to the Workers.                          *)

\* The journal is still there, and perhaps a line longer.
JournalGrows ==
    /\ path # 0 /\ path' = path /\ (rec'.on => rec.on)
    /\ Len(lines'[path]) \in Nat /\ Len(lines'[path]) >= Len(lines[path])
    /\ \A i \in 1 .. Len(lines[path]) : lines'[path][i] = lines[path][i]
    /\ \/ Len(lines'[path]) = Len(lines[path])
       \/ rec.on
       \/ lines'[path][Len(lines[path]) + 1].type \in Terminal

\* There is none, and there was none or there never will be.
JournalMissing ==
    path' = 0 /\ (kernel' = "gone" \/ (path = 0 /\ kernel # "gone"))

JournalAppears ==
    path = 0 /\ path' # 0 /\ kernel # "gone" /\ Len(lines'[path']) \in Nat

ServerMoves == RunsStay /\ (JournalGrows \/ JournalMissing \/ JournalAppears)

\* The first lines of a journal stay.
LEMMA FirstLinesStay ==
    ASSUME NEW n, NEW l \in Nat, NEW k \in 0 .. l,
           \A i \in 1 .. l : lines'[n][i] = lines[n][i]
    PROVE  /\ (\A i \in 1 .. k : lines'[n][i].type \notin Terminal) <=> Open(n, k)
           /\ Cardinality({i \in 1 .. k : lines'[n][i].type = "OUTPUT"}) = Outputs(n, k)
<1>1. \A i \in 1 .. k : lines'[n][i] = lines[n][i]
  OBVIOUS
<1>2. {i \in 1 .. k : lines'[n][i].type = "OUTPUT"}
        = {i \in 1 .. k : lines[n][i].type = "OUTPUT"}
  BY <1>1
<1> QED
  BY <1>1, <1>2 DEF Open, Outputs

\* What a Worker has stored is still what it has applied.
LEMMA StoredStays ==
    ASSUME TypeOK, NEW f \in Fences, StoredIsApplied(f), Active(f), ServerMoves,
           job'[f].seq = job[f].seq, result'[f].outputs = result[f].outputs
    PROVE  StoredIsApplied(f)'
<1>0. path \in 0 .. Len(lines) /\ Len(lines) \in Nat /\ job[f].seq \in Nat
  BY Types
<1>1. CASE JournalGrows
  <2>1. path # 0 /\ path' = path /\ path \in 1 .. Len(lines)
    BY <1>0, <1>1 DEF JournalGrows
  <2>2. PICK l \in Nat : l = Len(lines[path])
    BY <2>1, LinesAre
  <2>3. PICK k \in 0 .. l : k = job[f].seq
    BY <1>0, <2>1, <2>2 DEF StoredIsApplied
  <2>4. /\ Open(path, k)
        /\ result[f].outputs = [i \in 1 .. Outputs(path, k) |-> <<path, i>>]
    BY <2>1, <2>3 DEF StoredIsApplied
  <2>5. \A i \in 1 .. l : lines'[path][i] = lines[path][i]
    BY <1>1, <2>2 DEF JournalGrows
  <2>6. /\ \A i \in 1 .. k : lines'[path][i].type \notin Terminal
        /\ Cardinality({i \in 1 .. k : lines'[path][i].type = "OUTPUT"})
             = Outputs(path, k)
    BY <2>4, <2>5, FirstLinesStay
  <2>7. Open(path, job[f].seq)' /\ Outputs(path, job[f].seq)' = Outputs(path, k)
    BY <2>1, <2>3, <2>6 DEF Open, Outputs
  <2>8. job'[f].seq <= Len(lines'[path])
    BY <1>1, <2>2, <2>3 DEF JournalGrows
  <2> QED
    BY <2>1, <2>4, <2>7, <2>8 DEF StoredIsApplied
<1>2. CASE JournalMissing
  BY <1>2 DEF JournalMissing, StoredIsApplied
<1>3. CASE JournalAppears
  <2>1. /\ job'[f].seq = 0 /\ result'[f].outputs = <<>> /\ path' # 0
        /\ Len(lines'[path']) \in Nat
    BY <1>3 DEF JournalAppears, StoredIsApplied
  <2>2. 1 .. 0 = {}
    OBVIOUS
  <2>3. Outputs(path, job[f].seq)' = 0
    <3>1. {i \in 1 .. 0 : lines'[path'][i].type = "OUTPUT"} = {}
      BY <2>2
    <3> QED
      BY <2>1, <3>1, FS_EmptySet DEF Outputs
  <2>4. Open(path, job[f].seq)'
    BY <2>1, <2>2 DEF Open
  <2>5. <<>> = [i \in 1 .. 0 |-> <<path', i>>]
    OBVIOUS
  <2> QED
    BY <2>1, <2>3, <2>4, <2>5 DEF StoredIsApplied
<1> QED
  BY <1>1, <1>2, <1>3 DEF ServerMoves

\* An outcome that was earned stays so.
LEMMA EarnedStays ==
    ASSUME NEW f \in Fences, OutcomeIsEarned(f), RunsStay, job'[f] = job[f],
           result'[f] = result[f]
    PROVE  OutcomeIsEarned(f)'
<1> SUFFICES ASSUME job[f].pc \in {"seal", "commit"}, job[f].outcome = "OK"
             PROVE  /\ \E n \in sent' : WholeRun(n, result[f].outputs)'
                    /\ result[f].state # "NONE"
                    /\ job[f].pc = "commit" => result[f].state = "FINALIZED"
  BY DEF OutcomeIsEarned
<1>1. PICK n \in sent : WholeRun(n, result[f].outputs)
  BY DEF OutcomeIsEarned
<1>2. n \in sent' /\ WholeRun(n, result[f].outputs)'
  BY <1>1 DEF WholeRun, RunsStay
<1> QED
  BY <1>2 DEF OutcomeIsEarned

\* A Worker that does not take part.
LEMMA JobStays ==
    ASSUME TypeOK, NEW f \in Fences, JobIsGood(f), ServerMoves,
           job'[f] = job[f], result'[f] = result[f], UNCHANGED db,
           conn[f].on => job[f].pc = "follow",
           path' = 0 => path = 0 \/ ~conn'[f].on,
           \/ conn'[f] = conn[f]
           \/ ~conn'[f].on
           \/ /\ conn[f].on /\ conn'[f].file = conn[f].file
              /\ conn'[f].read = conn[f].read
              /\ conn'[f].recording = conn[f].recording /\ ~conn'[f].marked
    PROVE  JobIsGood(f)'
<1>1. StoredIsApplied(f)'
  <2>1. CASE Active(f)
    BY <2>1, StoredStays DEF JobIsGood
  <2>2. CASE ~Active(f)
    BY <2>2 DEF StoredIsApplied, Active
  <2> QED
    BY <2>1, <2>2
<1>2. OutcomeIsEarned(f)'
  BY EarnedStays DEF JobIsGood, ServerMoves
<1>3. ConnectionIsGood(f)'
  <2> SUFFICES ASSUME conn'[f].on
               PROVE  /\ path' # 0 /\ conn'[f].file = path' /\ conn'[f].read = job'[f].seq
                      /\ ~conn'[f].recording => ~rec'.on
                      /\ conn'[f].marked =>
                           /\ ~conn'[f].recording
                           /\ \/ conn'[f].read = Len(lines'[path'])
                              \/ lines'[path'][conn'[f].read + 1].type \in Terminal
    BY DEF ConnectionIsGood
  <2>1. /\ conn[f].on /\ conn'[f].file = conn[f].file /\ conn'[f].read = conn[f].read
        /\ conn'[f].recording = conn[f].recording
        /\ conn'[f].marked => conn[f].marked
    OBVIOUS
  <2>2. /\ path # 0 /\ conn[f].file = path /\ conn[f].read = job[f].seq
        /\ ~conn[f].recording => ~rec.on
        /\ conn[f].marked =>
             /\ ~conn[f].recording
             /\ \/ conn[f].read = Len(lines[path])
                \/ lines[path][conn[f].read + 1].type \in Terminal
    BY <2>1 DEF JobIsGood, ConnectionIsGood
  <2>3. JournalGrows
    BY <2>2 DEF ServerMoves, JournalMissing, JournalAppears
  <2>4. path' = path /\ path \in 1 .. Len(lines) /\ (rec'.on => rec.on)
    BY <2>2, <2>3, Types DEF JournalGrows
  <2>5. PICK l \in Nat : l = Len(lines[path])
    BY <2>4, LinesAre
  <2>6. PICK r \in Nat : r = conn[f].read
    BY Types
  <2>7. r <= l
    <3>1. Active(f)
      BY <2>1 DEF Active
    <3> QED
      BY <2>2, <2>5, <2>6, <3>1 DEF JobIsGood, StoredIsApplied
  <2>8. ASSUME conn[f].marked
        PROVE  r = Len(lines'[path]) \/ lines'[path][r + 1].type \in Terminal
    <3>1. ~rec.on
      BY <2>2, <2>8
    <3>2. CASE r = l
      BY <2>3, <2>5, <3>1, <3>2 DEF JournalGrows
    <3>3. CASE r # l
      <4>1. r + 1 \in 1 .. l
        BY <2>7, <3>3
      <4>2. lines'[path][r + 1] = lines[path][r + 1]
        BY <2>3, <2>5, <4>1 DEF JournalGrows
      <4> QED
        BY <2>2, <2>5, <2>6, <2>8, <3>3, <4>2
    <3> QED
      BY <3>2, <3>3
  <2> QED
    BY <2>1, <2>2, <2>4, <2>6, <2>8
<1> QED
  BY <1>1, <1>2, <1>3 DEF JobIsGood

\* A Worker whose POST the server answers.
LEMMA AnsweredStays ==
    ASSUME TypeOK, NEW f \in Fences, JobIsGood(f), ServerMoves,
           job[f].pc = "starting", UNCHANGED db,
           job'[f].seq = job[f].seq, result'[f] = result[f], ~conn'[f].on,
           job'[f].pc \in {"post", "mark", "seal"},
           job'[f].pc = "seal" => job'[f].outcome # "OK"
    PROVE  JobIsGood(f)'
<1>1. Active(f) /\ ~(f > db.fence) /\ result[f].state # "NONE"
  BY DEF Active, JobIsGood
<1>2. StoredIsApplied(f)'
  BY <1>1, StoredStays DEF JobIsGood
<1>3. ConnectionIsGood(f)' /\ OutcomeIsEarned(f)'
  BY DEF ConnectionIsGood, OutcomeIsEarned
<1> QED
  BY <1>1, <1>2, <1>3 DEF JobIsGood

\* A step of the server keeps the invariant if it keeps the journal's part.
LEMMA ServerKeeps ==
    ASSUME IInv, TypeOK', ServerMoves, UNCHANGED <<job, conn, result, db>>,
           path' = 0 => path = 0,
           Running => /\ path' # 0 => Numbered(path)' /\ CompletedIsWhole(path)'
                      /\ RecorderKnows'
    PROVE  IInv'
<1>1. ConnectedFollow'
  BY DEF IInv, ConnectedFollow
<1>2. Undecided'
  <2> SUFFICES ASSUME Running, NEW f \in Fences PROVE JobIsGood(f)'
    BY DEF Undecided, Running
  <2>1. JobIsGood(f) /\ TypeOK /\ (conn[f].on => job[f].pc = "follow")
    BY DEF IInv, Undecided, ConnectedFollow
  <2> QED
    BY <2>1, JobStays
<1>3. SuccessStays'
  BY SuccessKept DEF IInv, ServerMoves
<1> QED
  BY <1>1, <1>2, <1>3 DEF IInv

----------------------------------------------------------------------------
(* The journal.                                                            *)

\* A line is added to a journal.
LEMMA AppendIs ==
    ASSUME TypeOK, NEW n \in 1 .. Len(lines), NEW seq \in Nat \ {0},
           NEW type \in Terminal \cup {"OUTPUT", "OK", "ERROR"},
           AppendLine(n, seq, type)
    PROVE  /\ lines' \in Seq(Seq(Line)) /\ Len(lines') = Len(lines)
           /\ Len(lines[n]) \in Nat /\ Len(lines'[n]) = Len(lines[n]) + 1
           /\ \A i \in 1 .. Len(lines[n]) : lines'[n][i] = lines[n][i]
           /\ lines'[n][Len(lines[n]) + 1].seq = seq
           /\ lines'[n][Len(lines[n]) + 1].type = type
<1>1. lines \in Seq(Seq(Line)) /\ lines[n] \in Seq(Line) /\ Len(lines[n]) \in Nat
  BY LinesAre DEF TypeOK
<1>2. PICK e : e = [seq |-> seq, type |-> type]
  OBVIOUS
<1>3. e \in Line /\ e.seq = seq /\ e.type = type
  BY <1>2 DEF Line
<1>4. PICK s : s = Append(lines[n], e)
  OBVIOUS
<1>5. /\ s \in Seq(Line) /\ Len(s) = Len(lines[n]) + 1
      /\ \A i \in 1 .. Len(lines[n]) : s[i] = lines[n][i]
      /\ s[Len(lines[n]) + 1] = e
  BY <1>1, <1>3, <1>4, AppendProperties
<1>6. lines' = [lines EXCEPT ![n] = s]
  BY <1>2, <1>4 DEF AppendLine
<1>7. lines' \in Seq(Seq(Line)) /\ Len(lines') = Len(lines) /\ lines'[n] = s
  BY <1>1, <1>5, <1>6, ExceptSeq
<1> QED
  BY <1>1, <1>3, <1>5, <1>7

\* An ended journal is over.
LEMMA EndedStays ==
    ASSUME NEW n, NEW l \in Nat, NEW m \in Nat, l = Len(lines[n]), m = Len(lines'[n]),
           l <= m, \A i \in 1 .. l : lines'[n][i] = lines[n][i], Ended(n)
    PROVE  \E i \in 1 .. m : lines'[n][i].type \in Terminal
<1>1. PICK i \in 1 .. l : lines[n][i].type \in Terminal
  BY DEF Ended
<1>2. i \in 1 .. m
  OBVIOUS
<1> QED
  BY <1>1, <1>2

\* The number of the line that follows r, written at the end or behind an end.
LEMMA NumberedGrows ==
    ASSUME NEW n, NEW l \in Nat, NEW r \in 0 .. l, l = Len(lines[n]),
           Numbered(n), r = l \/ lines[n][r + 1].type \in Terminal,
           Len(lines'[n]) = l + 1,
           \A i \in 1 .. l : lines'[n][i] = lines[n][i],
           lines'[n][l + 1].seq = r + 1
    PROVE  \A k \in 0 .. l + 1 : (\A i \in 1 .. k : lines'[n][i].type \notin Terminal) =>
             \A i \in k + 1 .. l + 1 :
                /\ lines'[n][i].seq > k
                /\ i = k + 1 => lines'[n][i].seq = i
<1> SUFFICES ASSUME NEW k \in 0 .. l + 1,
                    \A i \in 1 .. k : lines'[n][i].type \notin Terminal,
                    NEW i \in k + 1 .. l + 1
             PROVE  lines'[n][i].seq > k /\ (i = k + 1 => lines'[n][i].seq = i)
  OBVIOUS
<1>1. k \in 0 .. l
  OBVIOUS
<1>2. Open(n, k)
  BY <1>1 DEF Open
<1>3. CASE i \in 1 .. l
  <2>1. i \in k + 1 .. l
    BY <1>3
  <2>2. lines[n][i].seq > k /\ (i = k + 1 => lines[n][i].seq = i)
    BY <1>1, <1>2, <2>1 DEF Numbered
  <2> QED
    BY <1>3, <2>2
<1>4. CASE i = l + 1
  <2>1. k <= r
    <3>1. CASE r = l
      BY <1>1, <3>1
    <3>2. CASE r # l
      <4>1. r + 1 \in 1 .. l /\ lines'[n][r + 1].type \in Terminal
        <5>1. PICK q \in 1 .. l : q = r + 1
          BY <3>2
        <5>2. lines'[n][q] = lines[n][q] /\ lines[n][q].type \in Terminal
          BY <3>2, <5>1
        <5> QED
          BY <5>1, <5>2
      <4>2. r + 1 \notin 1 .. k
        BY <4>1
      <4> QED
        BY <4>1, <4>2
    <3> QED
      BY <3>1, <3>2
  <2> QED
    BY <1>4, <2>1
<1>5. i \in 1 .. l \/ i = l + 1
  OBVIOUS
<1> QED
  BY <1>3, <1>4, <1>5

\* What the journal's part says of the next state.
LEMMA JournalIs ==
           /\ Numbered(path)' <=>
                \A k \in 0 .. Len(lines'[path']) :
                   (\A i \in 1 .. k : lines'[path'][i].type \notin Terminal) =>
                      \A i \in k + 1 .. Len(lines'[path']) :
                         /\ lines'[path'][i].seq > k
                         /\ i = k + 1 => lines'[path'][i].seq = i
           /\ CompletedIsWhole(path)' <=>
                \A i \in 1 .. Len(lines'[path']) : lines'[path'][i].type = "COMPLETED" =>
                  /\ path' \in sent' /\ out'[path'].over
                  /\ Cardinality({j \in 1 .. i - 1 : lines'[path'][j].type = "OUTPUT"})
                       = out'[path'].printed
                  /\ (\A j \in 1 .. i - 1 : lines'[path'][j].type # "ERROR") => out'[path'].ok
<1>1. \A k : Open(path, k)' <=> \A i \in 1 .. k : lines'[path'][i].type \notin Terminal
  BY DEF Open
<1>2. \A k : Outputs(path, k)'
               = Cardinality({j \in 1 .. k : lines'[path'][j].type = "OUTPUT"})
  BY DEF Outputs
<1>3. Numbered(path)' <=>
        \A k \in 0 .. Len(lines'[path']) :
           (\A i \in 1 .. k : lines'[path'][i].type \notin Terminal) =>
              \A i \in k + 1 .. Len(lines'[path']) :
                 /\ lines'[path'][i].seq > k
                 /\ i = k + 1 => lines'[path'][i].seq = i
  BY <1>1 DEF Numbered
<1>4. CompletedIsWhole(path)' <=>
        \A i \in 1 .. Len(lines'[path']) : lines'[path'][i].type = "COMPLETED" =>
          /\ path' \in sent' /\ out'[path'].over
          /\ Cardinality({j \in 1 .. i - 1 : lines'[path'][j].type = "OUTPUT"})
               = out'[path'].printed
          /\ (\A j \in 1 .. i - 1 : lines'[path'][j].type # "ERROR") => out'[path'].ok
  BY <1>2 DEF CompletedIsWhole
<1> QED
  BY <1>3, <1>4

\* A completed journal is whole after another line, too.
LEMMA CompletedGrows ==
    ASSUME NEW n, NEW l \in Nat, l = Len(lines[n]), CompletedIsWhole(n), RunsStay,
           NEW m \in {l, l + 1}, path' = n, m = Len(lines'[n]),
           \A i \in 1 .. l : lines'[n][i] = lines[n][i],
           m = l + 1 /\ lines'[n][m].type = "COMPLETED" =>
              /\ n \in sent' /\ out'[n].over /\ Outputs(n, l) = out'[n].printed
              /\ (\A j \in 1 .. l : lines[n][j].type # "ERROR") => out'[n].ok
    PROVE  CompletedIsWhole(path)'
<1> SUFFICES ASSUME NEW i \in 1 .. m, lines'[n][i].type = "COMPLETED"
             PROVE  /\ n \in sent' /\ out'[n].over
                    /\ Cardinality({j \in 1 .. i - 1 : lines'[n][j].type = "OUTPUT"})
                         = out'[n].printed
                    /\ (\A j \in 1 .. i - 1 : lines'[n][j].type # "ERROR") => out'[n].ok
  BY JournalIs
<1>1. PICK k \in 0 .. l : k = i - 1
  OBVIOUS
<1>2. Cardinality({j \in 1 .. k : lines'[n][j].type = "OUTPUT"}) = Outputs(n, k)
  BY FirstLinesStay
<1>3. \A j \in 1 .. k : lines'[n][j] = lines[n][j]
  OBVIOUS
<1>4. CASE i \in 1 .. l
  <2>1. lines[n][i].type = "COMPLETED"
    BY <1>4
  <2>2. /\ n \in sent /\ out[n].over /\ Outputs(n, k) = out[n].printed
        /\ (\A j \in 1 .. k : lines[n][j].type # "ERROR") => out[n].ok
    BY <1>1, <1>4, <2>1 DEF CompletedIsWhole
  <2> QED
    BY <1>1, <1>2, <1>3, <2>2 DEF RunsStay
<1>5. CASE i = l + 1
  <2>1. m = l + 1 /\ k = l
    BY <1>1, <1>5
  <2> QED
    BY <1>1, <1>2, <1>3, <1>5, <2>1
<1>6. i \in 1 .. l \/ i = l + 1
  OBVIOUS
<1> QED
  BY <1>4, <1>5, <1>6

----------------------------------------------------------------------------
(* The recorder.                                                           *)

\* The recorder adds a line.
LEMMA RecordKeeps ==
    ASSUME IInv, rec.on, ~Ended(path), NEW type \in Terminal \cup {"OUTPUT", "OK", "ERROR"},
           Record(type), Counted,
           rec' \in Recording, rec'.on, rec'.idle = rec.idle,
           UNCHANGED <<path, kernel, out, sent, conn, job, result, db>>,
           Running /\ type = "COMPLETED" =>
              rec.idle /\ rec.reply,
           Running /\ type = "OUTPUT" => Recorded < out[path].printed,
           Running /\ type \notin Terminal /\ rec'.reply =>
              /\ out[path].over
              /\ rec.reply \/ out[path].ok \/ type = "ERROR"
    PROVE  IInv'
<1>0. TypeOK /\ path \in 1 .. Len(lines)
  <2>1. TypeOK /\ path # 0
    BY DEF IInv, TypeOK
  <2> QED
    BY <2>1, Types
<1>1. PICK n \in 1 .. Len(lines) : n = path
  BY <1>0
<1>2. PICK l \in Nat : l = Len(lines[n])
  BY <1>0, LinesAre
<1>3. AppendLine(n, l + 1, type)
  BY <1>1, <1>2 DEF Record
<1>4. /\ lines' \in Seq(Seq(Line)) /\ Len(lines') = Len(lines)
      /\ Len(lines'[n]) = l + 1
      /\ \A i \in 1 .. l : lines'[n][i] = lines[n][i]
      /\ lines'[n][l + 1].seq = l + 1 /\ lines'[n][l + 1].type = type
  <2>1. l + 1 \in Nat \ {0}
    OBVIOUS
  <2> QED
    BY <1>0, <1>2, <1>3, <2>1, AppendIs
<1>5. TypeOK'
  BY <1>0, <1>4 DEF TypeOK, Counted
<1>6. RunsStay
  BY DEF RunsStay
<1>7. ServerMoves
  BY <1>1, <1>2, <1>4, <1>6 DEF ServerMoves, JournalGrows
<1>8. ASSUME Running
      PROVE  Numbered(path)' /\ CompletedIsWhole(path)' /\ RecorderKnows'
  <2>1. Numbered(n) /\ CompletedIsWhole(n) /\ RecorderKnows
    BY <1>1, <1>8 DEF IInv, Undecided
  <2>2. Numbered(path)'
    <3>1. l \in 0 .. l
      OBVIOUS
    <3>2. \A k \in 0 .. l + 1 : (\A i \in 1 .. k : lines'[n][i].type \notin Terminal) =>
             \A i \in k + 1 .. l + 1 :
                /\ lines'[n][i].seq > k
                /\ i = k + 1 => lines'[n][i].seq = i
      BY <1>2, <1>4, <2>1, <3>1, NumberedGrows
    <3> QED
      BY <1>1, <1>4, <3>2, JournalIs
  <2>3. /\ path \in sent
        /\ rec.idle => out[path].over /\ Outputs(n, l) = out[path].printed
        /\ rec.reply =>
             /\ out[path].over
             /\ out[path].ok \/ \E j \in 1 .. l : lines[n][j].type = "ERROR"
    BY <1>1, <1>2, <2>1 DEF RecorderKnows, Recorded
  <2>4. CompletedIsWhole(path)'
    <3>1. ASSUME type = "COMPLETED"
          PROVE  /\ n \in sent' /\ out'[n].over /\ Outputs(n, l) = out'[n].printed
                 /\ (\A j \in 1 .. l : lines[n][j].type # "ERROR") => out'[n].ok
      BY <1>1, <1>8, <2>3, <3>1
    <3>2. PICK m \in {l, l + 1} : m = l + 1
      OBVIOUS
    <3>3. path' = n /\ m = Len(lines'[n])
      BY <1>1, <1>4, <3>2
    <3>4. m = l + 1 /\ lines'[n][m].type = "COMPLETED" =>
              /\ n \in sent' /\ out'[n].over /\ Outputs(n, l) = out'[n].printed
              /\ (\A j \in 1 .. l : lines[n][j].type # "ERROR") => out'[n].ok
      BY <1>4, <3>1, <3>2
    <3>5. \A i \in 1 .. l : lines'[n][i] = lines[n][i]
      BY <1>4
    <3> QED
      BY <1>2, <1>6, <2>1, <3>3, <3>4, <3>5, CompletedGrows
  <2>5. RecorderKnows'
    <3> SUFFICES ASSUME ~Ended(path)'
                 PROVE  /\ rec'.idle => out'[path'].over /\ Recorded' = out'[path'].printed
                        /\ rec'.reply =>
                             /\ out'[path'].over
                             /\ \/ out'[path'].ok
                                \/ \E j \in 1 .. Len(lines'[path']) :
                                     lines'[path'][j].type = "ERROR"
      BY <2>3 DEF RecorderKnows
    <3>1. l + 1 \in 1 .. l + 1
      OBVIOUS
    <3>2. type \notin Terminal
      BY <1>1, <1>4, <3>1 DEF Ended
    <3>3. Recorded' = Outputs(n, l) + IF type = "OUTPUT" THEN 1 ELSE 0
      <4>1. PICK k \in Nat : k = l + 1
        OBVIOUS
      <4>2. Recorded' = Cardinality({i \in 1 .. k : lines'[n][i].type = "OUTPUT"})
        BY <1>1, <1>4, <4>1 DEF Recorded, Outputs
      <4>3. \A i : i \in 1 .. k <=> i \in 1 .. l \/ i = k
        BY <4>1
      <4>4. {i \in 1 .. k : lines'[n][i].type = "OUTPUT"}
              = {i \in 1 .. l : lines[n][i].type = "OUTPUT"}
                  \cup (IF type = "OUTPUT" THEN {k} ELSE {})
        BY <1>4, <4>1, <4>3
      <4>5. k \notin {i \in 1 .. l : lines[n][i].type = "OUTPUT"}
        BY <4>1
      <4>6. IsFiniteSet({i \in 1 .. l : lines[n][i].type = "OUTPUT"})
        <5>1. IsFiniteSet(1 .. l)
          BY FS_Interval
        <5>2. {i \in 1 .. l : lines[n][i].type = "OUTPUT"} \in SUBSET (1 .. l)
          OBVIOUS
        <5> QED
          BY <5>1, <5>2, FS_Subset
      <4>7. CASE type = "OUTPUT"
        BY <4>2, <4>4, <4>5, <4>6, <4>7, FS_AddElement DEF Outputs
      <4>8. CASE type # "OUTPUT"
        <5>1. Recorded' = Outputs(n, l)
          BY <4>2, <4>4, <4>8 DEF Outputs
        <5>2. Outputs(n, l) \in Nat
          BY OutputsIs
        <5> QED
          BY <4>8, <5>1, <5>2
      <4> QED
        BY <4>7, <4>8
    <3>4. ASSUME rec.idle PROVE out[path].over /\ Recorded' = out[path].printed
      <4>1. out[path].over /\ Outputs(n, l) = out[path].printed /\ Outputs(n, l) \in Nat
        BY <2>3, <3>4, OutputsIs
      <4>2. Recorded = Outputs(n, l)
        BY <1>1, <1>2 DEF Recorded
      <4>3. type # "OUTPUT"
        BY <1>8, <4>1, <4>2
      <4> QED
        BY <3>3, <4>1, <4>3
    <3>5. ASSUME rec'.reply
          PROVE  /\ out[path].over
                 /\ \/ out[path].ok
                    \/ \E j \in 1 .. l + 1 : lines'[n][j].type = "ERROR"
      <4>1. out[path].over /\ (rec.reply \/ out[path].ok \/ type = "ERROR")
        BY <1>8, <3>2, <3>5
      <4>2. \A j \in 1 .. l : j \in 1 .. l + 1 /\ lines'[n][j] = lines[n][j]
        BY <1>4
      <4> QED
        BY <1>4, <2>3, <3>1, <4>1, <4>2
    <3> QED
      BY <1>1, <1>4, <3>4, <3>5
  <2> QED
    BY <2>2, <2>4, <2>5
<1> QED
  BY <1>0, <1>5, <1>7, <1>8, ServerKeeps

\* The recorder's part, when no line is added and nothing new is seen.
LEMMA KnowsStays ==
    ASSUME RecorderKnows, RunsStay, path' = path, lines' = lines,
           rec'.on => /\ rec.on /\ (rec'.idle => rec.idle)
                      /\ rec'.reply => rec.reply
    PROVE  RecorderKnows'
<1> SUFFICES ASSUME rec'.on
             PROVE  /\ path \in sent'
                    /\ ~Ended(path) /\ rec'.idle =>
                         out'[path].over /\ Recorded = out'[path].printed
                    /\ ~Ended(path) /\ rec'.reply =>
                         /\ out'[path].over
                         /\ \/ out'[path].ok
                            \/ \E j \in 1 .. Len(lines[path]) : lines[path][j].type = "ERROR"
  <2>1. Recorded' = Recorded /\ (Ended(path)' <=> Ended(path))
    BY DEF Recorded, Outputs, Ended
  <2> QED
    BY <2>1 DEF RecorderKnows
<1> QED
  BY DEF RecorderKnows, RunsStay

\* A step of the server that leaves the journal alone.
LEMMA SameLinesKeeps ==
    ASSUME IInv, TypeOK', RunsStay, UNCHANGED <<path, lines, job, conn, result, db>>,
           rec'.on => rec.on, kernel = "gone" => kernel' = "gone",
           Running => RecorderKnows'
    PROVE  IInv'
<1>0. TypeOK
  BY DEF IInv
<1>1. CASE path = 0
  <2>1. ServerMoves
    BY <1>1 DEF ServerMoves, JournalMissing
  <2> QED
    BY <1>1, <2>1, ServerKeeps
<1>2. CASE path # 0
  <2>1. PICK n \in 1 .. Len(lines) : n = path
    BY <1>0, <1>2, Types
  <2>2. PICK l \in Nat : l = Len(lines[n])
    BY <1>0, LinesAre
  <2>3. ServerMoves
    BY <1>2, <2>1, <2>2 DEF ServerMoves, JournalGrows
  <2>4. ASSUME Running PROVE Numbered(path)' /\ CompletedIsWhole(path)'
    <3>1. Numbered(n) /\ CompletedIsWhole(n)
      BY <1>2, <2>1, <2>4 DEF IInv, Undecided
    <3>2. Numbered(path)'
      BY <2>1, <3>1 DEF Numbered, Open
    <3>3. PICK m \in {l, l + 1} : m = l
      OBVIOUS
    <3>4. CompletedIsWhole(path)'
      <4>1. \A i \in 1 .. l : lines'[n][i] = lines[n][i]
        OBVIOUS
      <4>2. m # l + 1 /\ path' = n /\ m = Len(lines'[n])
        BY <2>1, <2>2, <3>3
      <4> QED
        BY <2>2, <3>1, <4>1, <4>2, CompletedGrows
    <3> QED
      BY <3>2, <3>4
  <2> QED
    BY <1>2, <2>3, <2>4, ServerKeeps
<1> QED
  BY <1>1, <1>2

\* The recorder writes what the kernel says, and leaves.
LEMMA RecorderKeeps ==
    ASSUME IInv, RecorderStep \/ RecorderFails
    PROVE  IInv'
<1>0. TypeOK /\ rec \in Recording
  BY DEF IInv, TypeOK
<1>1. Counted
  <2>1. strays' = strays /\ (harmed' = harmed \/ harmed' = TRUE)
        /\ (faults' = faults \/ Fault)
    BY DEF RecorderStep, RecordOutput, RecordReply, ReadIdle, RecordEnd, RecorderLeaves,
           RecorderFails
  <2> QED
    BY <1>0, <2>1, FaultIs, Types DEF Counted
<1>2. UNCHANGED <<path, kernel, out, sent, conn, job, result, db>>
  BY DEF RecorderStep, RecordOutput, RecordReply, ReadIdle, RecordEnd, RecorderLeaves,
         RecorderFails
<1>3. {"OUTPUT", "OUTPUT_LIMIT", "OK", "ERROR", "COMPLETED", "LOST"}
        \subseteq Terminal \cup {"OUTPUT", "OK", "ERROR"}
      /\ {"OUTPUT_LIMIT", "COMPLETED", "LOST"} \subseteq Terminal
  BY DEF Terminal
<1>4. ASSUME Running, rec.on, ~Ended(path), rec.reply PROVE out[path].over
  BY <1>4 DEF IInv, Undecided, RecorderKnows
<1>5. CASE RecordOutput
  <2>1. /\ rec.on /\ ~Ended(path) /\ rec' = rec /\ Recorded < out[path].printed
        /\ Record("OUTPUT") \/ Record("OUTPUT_LIMIT")
    BY <1>5 DEF RecordOutput, Records, OverLimit
  <2> QED
    BY <1>0, <1>1, <1>2, <1>3, <1>4, <2>1, RecordKeeps
<1>6. CASE RecordReply
  <2>1. /\ rec.on /\ ~Ended(path) /\ rec' = [rec EXCEPT !.reply = TRUE] /\ out[path].over
        /\ \/ out[path].ok /\ Record("OK")
           \/ ~out[path].ok /\ Record("ERROR")
           \/ Record("OUTPUT_LIMIT")
    BY <1>6 DEF RecordReply, Records, OverLimit
  <2>2. rec' \in Recording /\ rec'.on /\ rec'.idle = rec.idle
    BY <1>0, <2>1 DEF Recording
  <2> QED
    BY <1>0, <1>1, <1>2, <1>3, <2>1, <2>2, RecordKeeps
<1>7. CASE RecordEnd
  <2>1. /\ rec.on /\ ~Ended(path) /\ rec' = rec
        /\ \/ rec.reply /\ rec.idle /\ Record("COMPLETED")
           \/ Record("LOST")
    BY <1>7 DEF RecordEnd, Records, Finished
  <2> QED
    BY <1>0, <1>1, <1>2, <1>3, <2>1, RecordKeeps
<1>8. CASE RecorderFails
  <2>1. rec.on /\ ~Ended(path) /\ rec' = rec /\ Record("LOST")
    BY <1>8 DEF RecorderFails, Records
  <2> QED
    BY <1>0, <1>1, <1>2, <1>3, <2>1, RecordKeeps
<1>9. RunsStay
  BY <1>2 DEF RunsStay
<1>10. CASE ReadIdle
  <2>1. /\ rec.on /\ rec' = [rec EXCEPT !.idle = TRUE] /\ lines' = lines
        /\ out[path].over /\ Recorded = out[path].printed
    BY <1>10 DEF ReadIdle, Records
  <2>2. rec' \in Recording /\ rec'.on /\ rec'.reply = rec.reply
    BY <1>0, <2>1 DEF Recording
  <2>3. TypeOK'
    BY <1>0, <1>1, <1>2, <2>1, <2>2 DEF TypeOK, Counted
  <2>4. ASSUME Running PROVE RecorderKnows'
    <3>1. RecorderKnows
      BY <2>4 DEF IInv, Undecided
    <3>2. Recorded' = Recorded /\ (Ended(path)' <=> Ended(path))
      BY <1>2, <2>1 DEF Recorded, Outputs, Ended
    <3> QED
      BY <1>2, <2>1, <2>2, <3>1, <3>2 DEF RecorderKnows
  <2> QED
    BY <1>2, <1>9, <2>1, <2>2, <2>3, <2>4, SameLinesKeeps
<1>11. CASE RecorderLeaves
  <2>1. rec' = NoRecording /\ lines' = lines
    BY <1>11 DEF RecorderLeaves
  <2>2. rec' \in Recording /\ ~rec'.on
    BY <2>1 DEF NoRecording, Recording
  <2>3. TypeOK'
    BY <1>0, <1>1, <1>2, <2>1, <2>2 DEF TypeOK, Counted
  <2>4. RecorderKnows'
    BY <2>2 DEF RecorderKnows
  <2> QED
    BY <1>2, <1>9, <2>1, <2>2, <2>3, <2>4, SameLinesKeeps
<1> QED
  BY <1>5, <1>6, <1>7, <1>8, <1>10, <1>11 DEF RecorderStep

----------------------------------------------------------------------------
(* The kernel.                                                             *)

\* The kernel's part of one run changes.
LEMMA OutBecomes ==
    ASSUME TypeOK, NEW n \in DOMAIN out, NEW o \in Output, out' = [out EXCEPT ![n] = o]
    PROVE  /\ out' \in Seq(Output) /\ Len(out') = Len(out) /\ out'[n] = o
           /\ \A m \in 1 .. Len(lines) : m # n => out'[m] = out[m]
<1>1. out \in Seq(Output) /\ Len(out) = Len(lines)
  BY DEF TypeOK
<1>2. n \in 1 .. Len(out)
  BY <1>1, LenProperties
<1> QED
  BY <1>1, <1>2, ExceptSeq

\* The kernel prints, and finishes.
LEMMA KernelKeeps ==
    ASSUME IInv, NEW n \in DOMAIN out, KernelStep(n)
    PROVE  IInv'
<1>0. TypeOK /\ out \in Seq(Output) /\ sent \subseteq 1 .. Len(lines)
  BY DEF IInv, TypeOK
<1>1. /\ n \in sent /\ ~out[n].over
      /\ UNCHANGED <<path, lines, rec, kernel, sent, strays, conn, job, result, db>>
      /\ UNCHANGED <<harmed, faults>>
  BY DEF KernelStep, KernelPrints, KernelFinishes, Executes
<1>2. out[n] \in Output
  BY <1>0
<1>3. PICK o \in Output : out' = [out EXCEPT ![n] = o]
  <2>1. CASE KernelPrints(n)
    <3>1. PICK p \in 0 .. NumOutputs : p = out[n].printed + 1
      BY <1>2, <2>1, BoundsAssumption DEF KernelPrints, Output
    <3>2. [out[n] EXCEPT !.printed = p] \in Output
      BY <1>2 DEF Output
    <3>3. out' = [out EXCEPT ![n] = [out[n] EXCEPT !.printed = p]]
      BY <2>1, <3>1 DEF KernelPrints
    <3> QED
      BY <3>2, <3>3
  <2>2. CASE KernelFinishes(n)
    <3>1. PICK ok \in BOOLEAN : out' = [out EXCEPT ![n].over = TRUE, ![n].ok = ok]
      BY <2>2 DEF KernelFinishes
    <3>2. [out[n] EXCEPT !.over = TRUE, !.ok = ok] \in Output
      BY <1>2 DEF Output
    <3>3. out' = [out EXCEPT ![n] = [out[n] EXCEPT !.over = TRUE, !.ok = ok]]
      BY <1>0, <3>1
    <3> QED
      BY <3>2, <3>3
  <2> QED
    BY <2>1, <2>2 DEF KernelStep
<1>4. /\ out' \in Seq(Output) /\ Len(out') = Len(out)
      /\ \A m \in 1 .. Len(lines) : m # n => out'[m] = out[m]
  BY <1>0, <1>3, OutBecomes
<1>5. TypeOK'
  BY <1>0, <1>1, <1>4 DEF TypeOK
<1>6. RunsStay
  BY <1>0, <1>1, <1>4 DEF RunsStay
<1>7. Running => RecorderKnows'
  BY <1>1, <1>6, KnowsStays DEF IInv, Undecided
<1> QED
  BY <1>1, <1>5, <1>6, <1>7, SameLinesKeeps

\* The runs of a kernel process that ends are cut off.
LEMMA CutOffIs ==
    ASSUME TypeOK, out' = CutOff
    PROVE  /\ out' \in Seq(Output) /\ Len(out') = Len(lines)
           /\ \A n \in sent : out[n].over =>
                /\ out'[n].over /\ out'[n].ok = out[n].ok
                /\ out'[n].printed = out[n].printed
<1>1. out \in Seq(Output) /\ Len(out) = Len(lines) /\ sent \subseteq 1 .. Len(lines)
  BY DEF TypeOK
<1>2. PICK l \in Nat : l = Len(lines)
  BY Types
<1>3. DOMAIN out = 1 .. l /\ \A n \in 1 .. l : out[n] \in Output
  BY <1>1, <1>2, LenProperties
<1>4. ASSUME NEW n \in 1 .. l
      PROVE  /\ [out[n] EXCEPT !.cut = ~out[n].over] \in Output
             /\ [out[n] EXCEPT !.cut = ~out[n].over].over = out[n].over
             /\ [out[n] EXCEPT !.cut = ~out[n].over].ok = out[n].ok
             /\ [out[n] EXCEPT !.cut = ~out[n].over].printed = out[n].printed
  <2>1. out[n] \in Output
    BY <1>3
  <2> QED
    BY <2>1 DEF Output
<1>5. out' = [n \in 1 .. l |-> [out[n] EXCEPT !.cut = ~out[n].over]]
  BY <1>3 DEF CutOff
<1>6. out' \in [1 .. l -> Output]
  BY <1>4, <1>5
<1>7. out' \in Seq(Output) /\ Len(out') = l
  BY <1>6
<1>8. \A n \in 1 .. l : /\ out'[n].over = out[n].over /\ out'[n].ok = out[n].ok
                        /\ out'[n].printed = out[n].printed
  BY <1>4, <1>5
<1> QED
  BY <1>1, <1>2, <1>7, <1>8

\* The kernel process dies, and is replaced.
LEMMA ProcessKeeps ==
    ASSUME IInv, KernelDies \/ KernelRestarts
    PROVE  IInv'
<1>0. TypeOK /\ rec \in Recording
  BY DEF IInv, TypeOK
<1>1. CASE KernelDies
  <2>1. /\ kernel = "up" /\ Fault /\ kernel' = "dead" /\ out' = CutOff
        /\ rec' = [rec EXCEPT !.lost = rec.on] /\ harmed' = TRUE
        /\ UNCHANGED <<path, lines, sent, strays, conn, job, result, db>>
    BY <1>1 DEF KernelDies
  <2>2. /\ rec' \in Recording /\ rec'.on = rec.on /\ rec'.idle = rec.idle
        /\ rec'.reply = rec.reply
    BY <1>0, <2>1 DEF Recording
  <2>3. out' \in Seq(Output) /\ Len(out') = Len(lines) /\ RunsStay
    BY <1>0, <2>1, CutOffIs DEF RunsStay
  <2>4. faults' \in 0 .. MaxFaults
    BY <1>0, <2>1, FaultIs
  <2>5. TypeOK'
    BY <1>0, <2>1, <2>2, <2>3, <2>4 DEF TypeOK
  <2>6. Running => RecorderKnows'
    BY <2>1, <2>2, <2>3, KnowsStays DEF IInv, Undecided
  <2> QED
    BY <2>1, <2>2, <2>3, <2>5, <2>6, SameLinesKeeps
<1>2. CASE KernelRestarts
  <2>1. /\ kernel = "dead" /\ kernel' = "up"
        /\ UNCHANGED <<path, lines, rec, out, sent, strays, conn, job, result, db>>
        /\ UNCHANGED <<harmed, faults>>
    BY <1>2 DEF KernelRestarts
  <2>2. TypeOK'
    BY <1>0, <2>1 DEF TypeOK
  <2>3. RunsStay
    BY <2>1 DEF RunsStay
  <2>4. Running => RecorderKnows'
    BY <2>1, <2>3, KnowsStays DEF IInv, Undecided
  <2> QED
    BY <2>1, <2>2, <2>3, <2>4, SameLinesKeeps
<1> QED
  BY <1>1, <1>2

----------------------------------------------------------------------------
(* New journals, orphans and restarts.                                     *)

\* A journal is created, with nothing in it.
LEMMA CreateIs ==
    ASSUME TypeOK, CreateJournal
    PROVE  /\ path' = Len(lines) + 1 /\ path' \in Nat /\ path' # 0
           /\ lines' \in Seq(Seq(Line)) /\ Len(lines') = Len(lines) + 1
           /\ lines'[path'] = <<>> /\ Len(lines'[path']) = 0
           /\ out' \in Seq(Output) /\ Len(out') = Len(lines')
           /\ \A n \in sent : out'[n] = out[n]
<1>1. lines \in Seq(Seq(Line)) /\ out \in Seq(Output) /\ Len(out) = Len(lines)
      /\ sent \subseteq 1 .. Len(lines)
  BY DEF TypeOK
<1>2. PICK l \in Nat : l = Len(lines)
  BY Types
<1>3. path' = l + 1 /\ lines' = Append(lines, <<>>) /\ out' = Append(out, NoOutput)
  BY <1>2 DEF CreateJournal
<1>4. <<>> \in Seq(Line) /\ Len(<<>>) = 0
  OBVIOUS
<1>5. NoOutput \in Output
  BY BoundsAssumption DEF NoOutput, Output
<1>6. lines' \in Seq(Seq(Line)) /\ Len(lines') = l + 1 /\ lines'[l + 1] = <<>>
  BY <1>1, <1>2, <1>3, <1>4, AppendProperties
<1>7. /\ out' \in Seq(Output) /\ Len(out') = l + 1
      /\ \A n \in 1 .. l : out'[n] = out[n]
  BY <1>1, <1>2, <1>3, <1>5, AppendProperties
<1> QED
  BY <1>1, <1>2, <1>3, <1>4, <1>6, <1>7

\* What a new journal is.
LEMMA NewJournal ==
    ASSUME IInv, path = 0, kernel = "up", CreateJournal, sent \subseteq sent'
    PROVE  /\ ServerMoves /\ Numbered(path)' /\ CompletedIsWhole(path)'
<1>0. TypeOK
  BY DEF IInv
<1>1. path' # 0 /\ Len(lines'[path']) = 0 /\ \A n \in sent : out'[n] = out[n]
  BY <1>0, CreateIs
<1>2. ServerMoves
  BY <1>1 DEF ServerMoves, RunsStay, JournalAppears
<1>3. Numbered(path)' /\ CompletedIsWhole(path)'
  <2>1. \A k \in 0 .. 0 : \A i \in k + 1 .. 0 : FALSE
    OBVIOUS
  <2>2. \A i \in 1 .. 0 : FALSE
    OBVIOUS
  <2> QED
    BY <1>1, <2>1, <2>2, JournalIs
<1> QED
  BY <1>2, <1>3

\* The code is sent under a new journal.
LEMMA SendIs ==
    ASSUME IInv, MayCreate, SendCode
    PROVE  /\ ServerMoves /\ Numbered(path)' /\ CompletedIsWhole(path)'
           /\ RecorderKnows' /\ path' # 0
           /\ path' \in 0 .. Len(lines') /\ lines' \in Seq(Seq(Line))
           /\ out' \in Seq(Output) /\ Len(out') = Len(lines')
           /\ rec' \in Recording /\ sent' \subseteq 1 .. Len(lines')
<1>0. TypeOK /\ path = 0 /\ kernel = "up"
  BY DEF IInv, MayCreate
<1>1. /\ path' = Len(lines) + 1 /\ path' \in Nat /\ path' # 0
      /\ lines' \in Seq(Seq(Line)) /\ Len(lines') = Len(lines) + 1
      /\ out' \in Seq(Output) /\ Len(out') = Len(lines')
  BY <1>0, CreateIs DEF SendCode
<1>2. sent' = sent \cup {path'}
  BY DEF SendCode
<1>3. PICK lost \in BOOLEAN : rec' = [NoRecording EXCEPT !.on = TRUE, !.lost = lost]
  BY DEF SendCode
<1>4. rec' \in Recording /\ ~rec'.idle /\ ~rec'.reply
  <2>1. rec' = [on |-> TRUE, reply |-> FALSE, idle |-> FALSE, lost |-> lost]
    BY <1>3 DEF NoRecording
  <2> QED
    BY <2>1 DEF Recording
<1>5. ServerMoves /\ Numbered(path)' /\ CompletedIsWhole(path)'
  BY <1>0, <1>2, NewJournal DEF SendCode
<1>6. RecorderKnows'
  BY <1>2, <1>4 DEF RecorderKnows
<1>7. sent' \subseteq 1 .. Len(lines')
  <2>1. sent \subseteq 1 .. Len(lines) /\ Len(lines) \in Nat
    BY <1>0, Types DEF TypeOK
  <2>2. PICK l \in Nat : l = Len(lines)
    BY <2>1
  <2>3. sent' = sent \cup {l + 1} /\ Len(lines') = l + 1
    BY <1>1, <1>2, <2>2
  <2>4. 1 .. l \subseteq 1 .. l + 1 /\ l + 1 \in 1 .. l + 1
    BY <2>2
  <2> QED
    BY <2>1, <2>2, <2>3, <2>4
<1>8. path' \in 0 .. Len(lines')
  BY <1>0, <1>1, Types
<1> QED
  BY <1>1, <1>4, <1>5, <1>6, <1>7, <1>8

\* A POST that nobody waits for is handled.
LEMMA StrayKeeps ==
    ASSUME IInv, StrayArrives \/ StrayCreates
    PROVE  IInv'
<1>0. TypeOK /\ strays \in [new : Nat, handled : Nat]
  BY DEF IInv, TypeOK
<1>1. strays' \in [new : Nat, handled : Nat]
  <2>1. CASE StrayArrives
    <3>1. strays.new > 0
      BY <2>1 DEF StrayArrives
    <3>2. PICK a \in Nat : a = strays.new - 1
      BY <1>0, <3>1
    <3>3. PICK b \in Nat :
            b = IF path = 0 /\ kernel = "up" THEN strays.handled + 1 ELSE strays.handled
      BY <1>0
    <3>4. strays' = [strays EXCEPT !.new = a, !.handled = b]
      BY <2>1, <3>2, <3>3 DEF StrayArrives
    <3> QED
      BY <1>0, <3>4
  <2>2. CASE StrayCreates
    <3>1. PICK b \in Nat : b = strays.handled - 1
      BY <1>0, <2>2 DEF StrayCreates
    <3>2. strays' = [strays EXCEPT !.handled = b]
      BY <2>2, <3>1 DEF StrayCreates
    <3> QED
      BY <1>0, <3>2
  <2> QED
    BY <2>1, <2>2
<1>2. UNCHANGED <<kernel, conn, job, result, db, harmed, faults>>
  BY DEF StrayArrives, StrayCreates
<1>3. CASE UNCHANGED <<path, lines, rec, out, sent>>
  <2>1. TypeOK'
    BY <1>0, <1>1, <1>2, <1>3 DEF TypeOK
  <2>2. RunsStay
    BY <1>3 DEF RunsStay
  <2>3. Running => RecorderKnows'
    BY <1>3, <2>2, KnowsStays DEF IInv, Undecided
  <2> QED
    BY <1>2, <1>3, <2>1, <2>2, <2>3, SameLinesKeeps
<1>4. CASE MayCreate /\ SendCode
  <2>1. /\ ServerMoves /\ Numbered(path)' /\ CompletedIsWhole(path)' /\ RecorderKnows'
        /\ path' # 0 /\ path' \in 0 .. Len(lines') /\ lines' \in Seq(Seq(Line))
        /\ out' \in Seq(Output) /\ Len(out') = Len(lines')
        /\ rec' \in Recording /\ sent' \subseteq 1 .. Len(lines')
    BY <1>4, SendIs
  <2>2. TypeOK'
    BY <1>0, <1>1, <1>2, <2>1 DEF TypeOK
  <2> QED
    BY <1>2, <2>1, <2>2, ServerKeeps
<1> QED
  BY <1>3, <1>4 DEF StrayArrives, StrayCreates

\* The file of a Step is removed when nobody has used it for long.
LEMMA RemoveExpiredKeeps ==
    ASSUME IInv, RemoveExpired
    PROVE  IInv'
<1>0. TypeOK
  BY DEF IInv
<1>1. /\ ~rec.on /\ path' = 0 /\ harmed' = TRUE
      /\ \A f \in Fences : job[f].pc \in {"idle", "gone"}
      /\ UNCHANGED <<lines, rec, kernel, out, sent, strays, conn, job, result, db>>
      /\ UNCHANGED faults
  BY DEF RemoveExpired, MayDelete
<1>2. TypeOK'
  <2>1. 0 \in 0 .. Len(lines)
    BY <1>0, Types
  <2> QED
    BY <1>0, <1>1, <2>1 DEF TypeOK
<1>3. ConnectedFollow'
  BY <1>1 DEF IInv, ConnectedFollow
<1>4. Undecided'
  <2>1. RecorderKnows'
    BY <1>1 DEF RecorderKnows
  <2> SUFFICES ASSUME Running, NEW f \in Fences
               PROVE  JobIsGood(f)'
    BY <1>1, <2>1 DEF Undecided, Running
  <2>2. JobIsGood(f) /\ ~conn[f].on
    BY <1>1 DEF IInv, Undecided, ConnectedFollow
  <2>3. ConnectionIsGood(f)' /\ StoredIsApplied(f)' /\ OutcomeIsEarned(f)'
    BY <1>1, <2>2 DEF ConnectionIsGood, StoredIsApplied, OutcomeIsEarned, Active
  <2> QED
    BY <1>1, <2>1, <2>2, <2>3 DEF JobIsGood
<1>5. SuccessStays'
  BY <1>1, SuccessKept DEF IInv, RunsStay
<1> QED
  BY <1>2, <1>3, <1>4, <1>5 DEF IInv

----------------------------------------------------------------------------
(* Steps of the server that the Workers see.                               *)

\* The server answers the POSTs it is handling, or breaks connections.
Answered(f) ==
    \/ /\ job'[f] = job[f]
       /\ \/ conn'[f] = conn[f]
          \/ ~conn'[f].on
          \/ /\ conn[f].on /\ conn'[f].file = conn[f].file
             /\ conn'[f].read = conn[f].read
             /\ conn'[f].recording = conn[f].recording /\ ~conn'[f].marked
    \/ /\ job[f].pc = "starting" /\ job'[f].seq = job[f].seq /\ ~conn'[f].on
       /\ job'[f].pc \in {"post", "mark", "seal"}
       /\ job'[f].pc = "seal" => job'[f].outcome # "OK"

\* Such a step keeps the invariant if it keeps the journal's part.
LEMMA AnswersKeep ==
    ASSUME IInv, TypeOK', ServerMoves, UNCHANGED <<result, db>>,
           \A f \in Fences : Answered(f) /\ (path' = 0 => path = 0 \/ ~conn'[f].on),
           Running => /\ path' # 0 => Numbered(path)' /\ CompletedIsWhole(path)'
                      /\ RecorderKnows'
    PROVE  IInv'
<1>1. ConnectedFollow'
  BY DEF IInv, ConnectedFollow, Answered
<1>2. Undecided'
  <2> SUFFICES ASSUME Running, NEW f \in Fences PROVE JobIsGood(f)'
    BY DEF Undecided, Running
  <2>1. JobIsGood(f) /\ TypeOK /\ (conn[f].on => job[f].pc = "follow")
    BY DEF IInv, Undecided, ConnectedFollow
  <2>2. result'[f] = result[f] /\ Answered(f) /\ (path' = 0 => path = 0 \/ ~conn'[f].on)
    OBVIOUS
  <2>3. CASE job'[f] = job[f]
    <3>1. \/ conn'[f] = conn[f]
          \/ ~conn'[f].on
          \/ /\ conn[f].on /\ conn'[f].file = conn[f].file
             /\ conn'[f].read = conn[f].read
             /\ conn'[f].recording = conn[f].recording /\ ~conn'[f].marked
      BY <2>2 DEF Answered
    <3> QED
      BY <2>1, <2>2, <2>3, <3>1, JobStays
  <2>4. CASE job'[f] # job[f]
    BY <2>1, <2>2, <2>4, AnsweredStays DEF Answered
  <2> QED
    BY <2>3, <2>4
<1>3. SuccessStays'
  <2>1. \A f \in Fences : job[f].pc \in {"release", "gone"} =>
           job'[f].pc \in {"release", "gone"} /\ result'[f] = result[f]
    BY DEF Answered
  <2> QED
    BY <2>1, SuccessKept DEF IInv, ServerMoves
<1> QED
  BY <1>1, <1>2, <1>3 DEF IInv

\* ExecutionJournals.start once the kernel is ready, or found dead.
LEMMA PostCreatesKeeps ==
    ASSUME IInv, NEW f \in Fences, PostCreates(f)
    PROVE  IInv'
<1>0. /\ TypeOK /\ "mark" \in Pc /\ {"DRIVER", "LOST"} \subseteq Outcome
      /\ job[f].pc = "starting" /\ UNCHANGED <<kernel, strays, result, db, harmed, faults>>
  BY DEF IInv, Pc, Outcome, PostCreates
<1>1. Counted
  BY <1>0, Leaves
<1>2. CASE MayCreate /\ SendCode /\ Go(f, "mark") /\ UNCHANGED conn
  <2>1. /\ ServerMoves /\ Numbered(path)' /\ CompletedIsWhole(path)' /\ RecorderKnows'
        /\ path' # 0 /\ path' \in 0 .. Len(lines') /\ lines' \in Seq(Seq(Line))
        /\ out' \in Seq(Output) /\ Len(out') = Len(lines')
        /\ rec' \in Recording /\ sent' \subseteq 1 .. Len(lines')
    BY <1>2, SendIs
  <2>2. Moves(f, "mark", job[f].outcome)
    BY <1>0, <1>2, GoIs
  <2>3. TypeOK'
    BY <1>0, <1>1, <1>2, <2>1, <2>2 DEF TypeOK, Moves, JobBecomes
  <2>4. ~conn[f].on
    BY <1>0, NotConnected
  <2>5. \A g \in Fences : Answered(g)
    BY <1>0, <1>2, <2>2, <2>4 DEF Answered, Moves, JobBecomes
  <2> QED
    BY <1>0, <2>1, <2>3, <2>5, AnswersKeep
<1>3. CASE ~MayCreate /\ UNCHANGED <<path, lines, rec, out, sent>>
  <2>1. SameServer
    BY <1>0, <1>3 DEF SameServer
  <2>2. CASE Go(f, "mark") /\ UNCHANGED conn
    BY <1>0, <1>1, <2>1, <2>2, GoesOn
  <2>3. CASE \E outcome \in {"DRIVER", "LOST"} : Ends(f, outcome)
    <3>1. PICK outcome \in {"DRIVER", "LOST"} : Ends(f, outcome)
      BY <2>3
    <3> QED
      BY <1>0, <1>1, <2>1, <3>1, EndsKeeps
  <2> QED
    BY <1>3, <2>2, <2>3 DEF PostCreates
<1> QED
  BY <1>2, <1>3 DEF PostCreates

\* The kernel is not ready in time, or the code could not be sent.
LEMMA SendFailsKeeps ==
    ASSUME IInv, NEW f \in Fences, SendFails(f)
    PROVE  IInv'
<1>0. /\ TypeOK /\ "DRIVER" \in Outcome /\ job[f].pc = "starting" /\ Fault
      /\ Ends(f, "DRIVER") /\ UNCHANGED <<rec, kernel, sent, strays, result, db>>
      /\ kernel = "up"
  BY DEF IInv, Outcome, SendFails
<1>1. Counted
  <2>1. harmed' = harmed \/ harmed' = TRUE
    BY DEF SendFails
  <2> QED
    BY <1>0, <2>1, FaultIs, Types DEF Counted
<1>2. CASE UNCHANGED <<path, lines, out, harmed>>
  <2>1. SameServer
    BY <1>0, <1>2 DEF SameServer
  <2> QED
    BY <1>0, <1>1, <2>1, EndsKeeps
<1>3. CASE MayCreate /\ CreateJournal
  <2>0. path = 0 /\ ~rec.on
    BY <1>0, <1>3 DEF MayCreate, TypeOK
  <2>1. ServerMoves /\ Numbered(path)' /\ CompletedIsWhole(path)'
    BY <1>0, <1>3, <2>0, NewJournal
  <2>2. /\ path' = Len(lines) + 1 /\ path' # 0 /\ path' \in Nat
        /\ lines' \in Seq(Seq(Line)) /\ Len(lines') = Len(lines) + 1
        /\ out' \in Seq(Output) /\ Len(out') = Len(lines')
    BY <1>0, <1>3, CreateIs
  <2>3. sent' \subseteq 1 .. Len(lines') /\ path' \in 0 .. Len(lines')
    <3>1. PICK l \in Nat : l = Len(lines)
      BY <1>0, Types
    <3>2. sent \subseteq 1 .. l /\ Len(lines') = l + 1 /\ path' = l + 1
      BY <1>0, <2>2, <3>1 DEF TypeOK
    <3>3. 1 .. l \subseteq 1 .. l + 1 /\ l + 1 \in 0 .. l + 1
      BY <3>1
    <3> QED
      BY <1>0, <3>2, <3>3
  <2>4. /\ Moves(f, "seal", "DRIVER") /\ ConnectionBecomes(f, NoConnection)
        /\ ~NoConnection.on
    BY <1>0, EndsIs
  <2>5. TypeOK'
    BY <1>0, <1>1, <2>0, <2>2, <2>3, <2>4
       DEF TypeOK, Moves, JobBecomes, ConnectionBecomes, Counted
  <2>6. RecorderKnows'
    BY <1>0, <2>0 DEF RecorderKnows
  <2>7. \A g \in Fences : Answered(g)
    BY <1>0, <2>4 DEF Answered, Moves, JobBecomes, ConnectionBecomes
  <2> QED
    BY <1>0, <2>1, <2>2, <2>5, <2>6, <2>7, AnswersKeep
<1> QED
  BY <1>2, <1>3 DEF SendFails

\* The server process ends with its kernels.
LEMMA ServerRestartsKeeps ==
    ASSUME IInv, ServerRestarts
    PROVE  IInv'
<1>0. /\ TypeOK /\ Fault /\ kernel' = "gone" /\ out' = CutOff /\ rec' = NoRecording
      /\ strays' = [strays EXCEPT !.handled = 0] /\ harmed' = TRUE
      /\ path' \in {path, 0} /\ conn' = [f \in Fences |-> NoConnection]
      /\ job' = [f \in Fences |->
                  IF job[f].pc = "starting" THEN [job[f] EXCEPT !.pc = "post"]
                  ELSE job[f]]
      /\ UNCHANGED <<sent, result, db>>
  BY DEF IInv, ServerRestarts
<1>1. Counted
  <2>1. faults' \in 0 .. MaxFaults /\ strays \in [new : Nat, handled : Nat]
    BY <1>0, FaultIs, Types
  <2>2. strays' \in [new : Nat, handled : Nat]
    BY <1>0, <2>1
  <2> QED
    BY <1>0, <2>1, <2>2 DEF Counted
<1>2. rec' \in Recording /\ ~rec'.on /\ RecorderKnows'
  BY <1>0 DEF NoRecording, Recording, RecorderKnows
<1>3. /\ out' \in Seq(Output) /\ Len(out') = Len(lines)
      /\ RunsStay
  BY <1>0, CutOffIs DEF RunsStay
<1>4. conn' \in [Fences -> Connection] /\ \A f \in Fences : ~conn'[f].on
  BY <1>0 DEF NoConnection, Connection
<1>5. /\ job' \in [Fences -> Job]
      /\ \A f \in Fences :
           \/ job'[f] = job[f]
           \/ job[f].pc = "starting" /\ job'[f].seq = job[f].seq /\ job'[f].pc = "post"
  <2>1. job \in [Fences -> Job] /\ "post" \in Pc
    BY <1>0 DEF TypeOK, Pc
  <2>2. ASSUME NEW f \in Fences
        PROVE  /\ job'[f] \in Job
               /\ \/ job'[f] = job[f]
                  \/ job[f].pc = "starting" /\ job'[f].seq = job[f].seq /\ job'[f].pc = "post"
    <3>1. job[f] \in Job
      BY <2>1
    <3>2. CASE job[f].pc = "starting"
      <4>1. job'[f] = [job[f] EXCEPT !.pc = "post"]
        BY <1>0, <3>2
      <4> QED
        BY <2>1, <3>1, <3>2, <4>1 DEF Job
    <3>3. CASE job[f].pc # "starting"
      BY <1>0, <3>1, <3>3
    <3> QED
      BY <3>2, <3>3
  <2>3. job' \in [Fences -> Job]
    BY <1>0, <2>2
  <2> QED
    BY <2>2, <2>3
<1>6. \A f \in Fences : Answered(f)
  BY <1>4, <1>5 DEF Answered
<1>7. CASE Records /\ Record("LOST")
  <2>0. rec.on /\ path # 0 /\ path \in 1 .. Len(lines)
    BY <1>0, <1>7, Types DEF Records, TypeOK
  <2>1. PICK l \in Nat : l = Len(lines[path])
    BY <1>0, <2>0, LinesAre
  <2>2. l + 1 \in Nat \ {0} /\ AppendLine(path, l + 1, "LOST")
    BY <1>7, <2>1 DEF Record
  <2>3. /\ lines' \in Seq(Seq(Line)) /\ Len(lines') = Len(lines)
        /\ Len(lines'[path]) = l + 1
        /\ \A i \in 1 .. l : lines'[path][i] = lines[path][i]
        /\ lines'[path][l + 1].seq = l + 1 /\ lines'[path][l + 1].type = "LOST"
    BY <1>0, <2>0, <2>1, <2>2, AppendIs DEF Terminal
  <2>4. TypeOK'
    <3>0. PICK k \in Nat : k = Len(lines)
      BY <1>0, Types
    <3>1. /\ path' \in 0 .. k /\ sent' \subseteq 1 .. k /\ Len(lines') = k
          /\ Len(out') = k
      BY <1>0, <1>3, <2>3, <3>0 DEF TypeOK
    <3> QED
      BY <1>0, <1>1, <1>2, <1>3, <1>4, <1>5, <2>3, <3>1 DEF TypeOK, Counted
  <2>5. ServerMoves
    <3>1. path' = path => JournalGrows
      BY <1>2, <2>0, <2>1, <2>3 DEF JournalGrows
    <3>2. path' = 0 => JournalMissing
      BY <1>0 DEF JournalMissing
    <3> QED
      BY <1>0, <1>3, <3>1, <3>2 DEF ServerMoves
  <2>6. ASSUME Running, path' # 0 PROVE Numbered(path)' /\ CompletedIsWhole(path)'
    <3>1. Numbered(path) /\ CompletedIsWhole(path) /\ path' = path
      BY <1>0, <2>0, <2>6 DEF IInv, Undecided
    <3>2. \A k \in 0 .. l + 1 : (\A i \in 1 .. k : lines'[path][i].type \notin Terminal) =>
             \A i \in k + 1 .. l + 1 :
                /\ lines'[path][i].seq > k
                /\ i = k + 1 => lines'[path][i].seq = i
      <4>1. l \in 0 .. l
        BY <2>1
      <4> QED
        BY <2>1, <2>3, <3>1, <4>1, NumberedGrows
    <3>3. CompletedIsWhole(path)'
      <4>1. PICK m \in {l, l + 1} : m = l + 1
        OBVIOUS
      <4>2. m = Len(lines'[path]) /\ lines'[path][m].type # "COMPLETED"
        BY <2>3, <4>1
      <4> QED
        BY <1>3, <2>1, <2>3, <3>1, <4>2, CompletedGrows
    <3> QED
      BY <2>3, <3>1, <3>2, <3>3, JournalIs
  <2> QED
    BY <1>0, <1>2, <1>4, <1>6, <2>4, <2>5, <2>6, AnswersKeep
<1>8. CASE UNCHANGED lines
  <2>1. TypeOK'
    <3>1. path' \in 0 .. Len(lines)
      BY <1>0, Types
    <3> QED
      BY <1>0, <1>1, <1>2, <1>3, <1>4, <1>5, <1>8, <3>1 DEF TypeOK, Counted
  <2>2. ASSUME path # 0 PROVE path \in 1 .. Len(lines) /\ Len(lines[path]) \in Nat
    BY <1>0, <2>2, Types, LinesAre
  <2>3. ServerMoves
    <3>1. path' # 0 => JournalGrows
      BY <1>0, <1>2, <1>8, <2>2 DEF JournalGrows
    <3>2. path' = 0 => JournalMissing
      BY <1>0 DEF JournalMissing
    <3> QED
      BY <1>3, <3>1, <3>2 DEF ServerMoves
  <2>4. ASSUME Running, path' # 0 PROVE Numbered(path)' /\ CompletedIsWhole(path)'
    <3>1. Numbered(path) /\ CompletedIsWhole(path) /\ path' = path /\ path # 0
      BY <1>0, <2>4 DEF IInv, Undecided
    <3>2. Numbered(path)'
      BY <1>8, <3>1 DEF Numbered, Open
    <3>3. PICK l \in Nat : l = Len(lines[path])
      BY <2>2, <3>1
    <3>4. PICK m \in {l, l + 1} : m = l
      OBVIOUS
    <3>5. CompletedIsWhole(path)'
      BY <1>3, <1>8, <3>1, <3>3, <3>4, CompletedGrows
    <3> QED
      BY <3>2, <3>5
  <2> QED
    BY <1>0, <1>2, <1>4, <1>6, <2>1, <2>3, <2>4, AnswersKeep
<1> QED
  BY <1>7, <1>8 DEF ServerRestarts

----------------------------------------------------------------------------
(* The reader that ends an abandoned journal.                              *)

\* The file behind a connection stays on disk, whoever has deleted its name.
FilesExist == \A f \in Fences : conn[f].on => conn[f].file \in 1 .. Len(lines)

\* The generator behind a WebSocket ends a journal that nobody records.
LEMMA FinishOrphanKeeps ==
    ASSUME IInv, FilesExist, NEW f \in Fences, FinishOrphan(f)
    PROVE  IInv'
<1>0. /\ TypeOK /\ conn[f].on /\ conn[f].marked /\ ~rec.on
      /\ conn' = [conn EXCEPT ![f].marked = FALSE]
      /\ UNCHANGED <<path, rec, kernel, out, sent, strays, job, result, db>>
      /\ UNCHANGED <<harmed, faults>>
  BY DEF IInv, FinishOrphan, Orphaned
<1>1. PICK n \in 1 .. Len(lines) : n = conn[f].file
  BY <1>0 DEF FilesExist
<1>2. PICK r \in Nat : r = conn[f].read
  BY <1>0, Types
<1>3. PICK l \in Nat : l = Len(lines[n])
  BY <1>0, LinesAre
<1>4. r + 1 \in Nat \ {0} /\ AppendLine(n, r + 1, "LOST")
  BY <1>1, <1>2 DEF FinishOrphan
<1>5. /\ lines' \in Seq(Seq(Line)) /\ Len(lines') = Len(lines)
      /\ Len(lines'[n]) = l + 1
      /\ \A i \in 1 .. l : lines'[n][i] = lines[n][i]
      /\ lines'[n][l + 1].seq = r + 1 /\ lines'[n][l + 1].type = "LOST"
  BY <1>0, <1>3, <1>4, AppendIs DEF Terminal
<1>6. /\ conn' \in [Fences -> Connection]
      /\ \A g \in Fences \ {f} : conn'[g] = conn[g]
      /\ conn'[f].file = conn[f].file /\ conn'[f].read = conn[f].read
      /\ conn'[f].recording = conn[f].recording /\ ~conn'[f].marked
  <2>1. PICK c : c = [conn[f] EXCEPT !.marked = FALSE]
    OBVIOUS
  <2>2. conn \in [Fences -> Connection] /\ conn[f] \in Connection
    BY <1>0, Types
  <2>3. /\ c \in Connection /\ c.file = conn[f].file /\ c.read = conn[f].read
        /\ c.recording = conn[f].recording /\ ~c.marked
    BY <2>1, <2>2 DEF Connection
  <2>4. conn' = [conn EXCEPT ![f] = c]
    BY <1>0, <2>1
  <2>5. conn' \in [Fences -> Connection] /\ conn'[f] = c
        /\ \A g \in Fences \ {f} : conn'[g] = conn[g]
    BY <2>2, <2>3, <2>4
  <2> QED
    BY <2>3, <2>5
<1>7. TypeOK'
  <2>1. PICK k \in Nat : k = Len(lines)
    BY <1>0, Types
  <2>2. /\ path' \in 0 .. k /\ sent' \subseteq 1 .. k /\ Len(lines') = k
        /\ Len(out') = k
    BY <1>0, <1>5, <2>1 DEF TypeOK
  <2> QED
    BY <1>0, <1>5, <1>6, <2>2 DEF TypeOK
<1>8. RunsStay
  BY <1>0 DEF RunsStay
<1>9. \A g \in Fences : Answered(g)
  BY <1>0, <1>6 DEF Answered
<1>10. CASE ~Running
  <2>1. ConnectedFollow'
    BY <1>0, <1>6 DEF IInv, ConnectedFollow
  <2>2. Undecided'
    BY <1>0, <1>10 DEF Undecided, Running
  <2>3. SuccessStays'
    BY <1>0, <1>8, SuccessKept DEF IInv
  <2> QED
    BY <1>7, <2>1, <2>2, <2>3 DEF IInv
<1>11. CASE Running
  <2>1. /\ path # 0 /\ n = path /\ r = job[f].seq /\ JobIsGood(f) /\ Active(f)
        /\ r = l \/ lines[path][r + 1].type \in Terminal
    BY <1>0, <1>1, <1>2, <1>3, <1>11
       DEF IInv, Undecided, JobIsGood, ConnectionIsGood, ConnectedFollow, Active
  <2>2. r \in 0 .. l /\ Numbered(path) /\ CompletedIsWhole(path)
    <3>1. /\ Numbered(path) /\ CompletedIsWhole(path)
          /\ job[f].seq <= Len(lines[path])
      BY <1>11, <2>1, Following
    <3>2. r <= l
      BY <1>3, <2>1, <3>1
    <3> QED
      BY <1>2, <1>3, <3>1, <3>2
  <2>3. ServerMoves
    BY <1>0, <1>3, <1>5, <1>8, <2>1 DEF ServerMoves, JournalGrows, Terminal
  <2>4. Numbered(path)'
    <3>1. \A k \in 0 .. l + 1 : (\A i \in 1 .. k : lines'[path][i].type \notin Terminal) =>
             \A i \in k + 1 .. l + 1 :
                /\ lines'[path][i].seq > k
                /\ i = k + 1 => lines'[path][i].seq = i
      <4>1. /\ l = Len(lines[path]) /\ Len(lines'[path]) = l + 1
            /\ \A i \in 1 .. l : lines'[path][i] = lines[path][i]
            /\ lines'[path][l + 1].seq = r + 1
        BY <1>3, <1>5, <2>1
      <4>2. r = l \/ lines[path][r + 1].type \in Terminal
        BY <2>1
      <4> QED
        BY <2>2, <4>1, <4>2, NumberedGrows
    <3>2. path' = path /\ Len(lines'[path]) = l + 1
      BY <1>0, <1>5, <2>1
    <3> QED
      BY <3>1, <3>2, JournalIs
  <2>5. CompletedIsWhole(path)'
    <3>1. PICK m \in {l, l + 1} : m = l + 1
      OBVIOUS
    <3>2. m = Len(lines'[path]) /\ lines'[path][m].type # "COMPLETED"
      BY <1>5, <2>1, <3>1
    <3> QED
      BY <1>0, <1>3, <1>5, <1>8, <2>1, <2>2, <3>2, CompletedGrows
  <2>6. RecorderKnows'
    BY <1>0 DEF RecorderKnows
  <2> QED
    BY <1>0, <1>7, <1>9, <2>1, <2>3, <2>4, <2>5, <2>6, AnswersKeep
<1> QED
  BY <1>10, <1>11

\* The next Worker begins.
LEMMA TakenOverKeeps ==
    ASSUME IInv, TakeOver \/ Stall
    PROVE  IInv'
<1>0. /\ TypeOK /\ Running /\ db.fence < MaxFences
      /\ db' = [db EXCEPT !.fence = @ + 1]
      /\ job' = [job EXCEPT ![db.fence + 1] =
                   [NoJob EXCEPT !.pc = "begin", !.submitted = db.submitted]]
      /\ SameServer /\ UNCHANGED <<strays, conn, result, harmed>>
  BY DEF IInv, TakeOver, Stall, TakenOver, SameServer, server, Running
<1>1. Counted
  <2>1. faults' = faults \/ Fault
    BY DEF TakeOver, Stall
  <2> QED
    BY <1>0, <2>1, FaultIs, Types DEF Counted
<1>2. PICK f \in Fences : f = db.fence + 1
  BY <1>0, Types, BoundsAssumption DEF Fences
<1>3. f > db.fence /\ \A g \in Fences : g > f => g > db.fence
  BY <1>0, <1>2, Types
<1>4. /\ job[f].pc = "idle" /\ result[f].outputs = <<>> /\ ~conn[f].on
  BY <1>0, <1>3, NotConnected DEF IInv, Undecided, JobIsGood
<1>5. PICK j : j = [NoJob EXCEPT !.pc = "begin", !.submitted = db.submitted]
  OBVIOUS
<1>6. j \in Job /\ j.pc = "begin" /\ j.seq = 0
  BY <1>0, <1>5 DEF NoJob, Job, Pc, Outcome, TypeOK
<1>7. /\ job' \in [Fences -> Job] /\ job'[f] = j
      /\ \A g \in Fences \ {f} : job'[g] = job[g]
  BY <1>0, <1>2, <1>5, <1>6, Types
<1>8. /\ db' \in [fence : Fences, submitted : BOOLEAN, committed : 0 .. MaxFences,
                  step : {"RUNNING", "SUCCEEDED", "FAILED"}]
      /\ db'.fence = f /\ db'.step = db.step /\ db'.committed = db.committed
  BY <1>0, <1>2 DEF TypeOK
<1>9. OthersStay(f)
  BY <1>0, <1>7, Types DEF OthersStay
<1>10. JobIsGood(f)'
  <2>1. ConnectionIsGood(f)' /\ OutcomeIsEarned(f)'
    BY <1>0, <1>4, <1>6, <1>7 DEF ConnectionIsGood, OutcomeIsEarned
  <2>2. StoredIsApplied(f)'
    <3>1. Outputs(path, 0) = 0 /\ Open(path, 0)
      BY OutputsIs DEF Open
    <3>2. path # 0 => 0 <= Len(lines[path])
      BY <1>0, Types, LinesAre
    <3>3. [i \in 1 .. 0 |-> <<path, i>>] = <<>>
      OBVIOUS
    <3>4. /\ path' = path /\ kernel' = kernel /\ lines' = lines
          /\ job'[f].seq = 0 /\ result'[f].outputs = <<>>
      BY <1>0, <1>4, <1>6, <1>7 DEF SameServer
    <3>5. Open(path, 0)' /\ Outputs(path, 0)' = 0
      BY <3>1, <3>4 DEF Open, Outputs
    <3> QED
      BY <3>2, <3>3, <3>4, <3>5 DEF StoredIsApplied
  <2> QED
    BY <1>2, <1>3, <1>6, <1>7, <1>8, <2>1, <2>2, Types DEF JobIsGood
<1> QED
  BY <1>0, <1>1, <1>3, <1>4, <1>8, <1>9, <1>10, OneJob

----------------------------------------------------------------------------
(* The invariant.                                                          *)

Inv == IInv /\ FilesExist

\* What a Worker reads from stays the same file.
SameFile(f) ==
    conn'[f].on => \/ conn[f].on /\ conn'[f].file = conn[f].file
                   \/ path # 0 /\ conn'[f].file = path

\* A step of a Worker adds at most a line, or an empty journal.
LEMMA JobFiles ==
    ASSUME TypeOK, NEW f \in Fences, JobStep(f) \/ JobFault(f)
    PROVE  /\ \A g \in Fences : SameFile(g)
           /\ UNCHANGED lines \/ CreateJournal \/ FinishOrphan(f)
<1>0. conn \in [Fences -> Connection] /\ ~NoConnection.on
  BY DEF TypeOK, NoConnection
<1>1. \/ UNCHANGED conn
      \/ conn' = [conn EXCEPT ![f] = NoConnection]
      \/ conn' = [conn EXCEPT ![f].read = @ + 1]
      \/ conn' = [conn EXCEPT ![f].caughtUp = TRUE, ![f].marked = ~conn[f].recording]
      \/ conn' = [conn EXCEPT ![f].marked = FALSE]
      \/ Connect(f)
  <2>1. CASE Submit(f)
    BY <2>1 DEF Submit, BeginResult, Post, MarkSubmitted, Ends
  <2>2. CASE Start(f)
    BY <2>2 DEF Start, PostArrives, PostCreates, Ends
  <2>3. CASE Follow(f)
    BY <2>3 DEF Follow, ApplyLine, CatchUp, FinishOrphan, Ends
  <2>4. CASE Store(f)
    BY <2>4 DEF Store, Seal, Commit, LoseLease, Release
  <2>5. CASE JobFault(f)
    BY <2>5 DEF JobFault, SendFails, AnswerLost, AppendFails, Disconnect, SealFails,
                ReleaseFails, LimitPasses, Crash, Ends
  <2> QED
    BY <2>1, <2>2, <2>3, <2>4, <2>5 DEF JobStep
<1>2. ASSUME NEW g \in Fences PROVE SameFile(g)
  <2>1. CASE UNCHANGED conn
    BY <2>1 DEF SameFile
  <2>2. CASE conn' = [conn EXCEPT ![f] = NoConnection]
    BY <1>0, <2>2 DEF SameFile
  <2>3. CASE \/ conn' = [conn EXCEPT ![f].read = @ + 1]
             \/ conn' = [conn EXCEPT ![f].caughtUp = TRUE,
                                     ![f].marked = ~conn[f].recording]
             \/ conn' = [conn EXCEPT ![f].marked = FALSE]
    <3>1. conn[g] \in Connection
      BY <1>0
    <3>2. conn'[g].on = conn[g].on /\ conn'[g].file = conn[g].file
      BY <1>0, <2>3, <3>1 DEF Connection
    <3> QED
      BY <3>2 DEF SameFile
  <2>4. CASE Connect(f)
    <3>1. CASE conn' = [conn EXCEPT ![f] = NoConnection]
      BY <2>2, <3>1
    <3>2. CASE path # 0 /\ conn' = [conn EXCEPT ![f] =
                        [NoConnection EXCEPT
                           !.on = TRUE, !.file = path,
                           !.read = Skipped(path, After(f)),
                           !.recording = rec.on]]
      <4>1. g = f => conn'[g].file = path
        BY <1>0, <3>2 DEF NoConnection
      <4>2. g # f => conn'[g] = conn[g]
        BY <1>0, <3>2
      <4> QED
        BY <3>2, <4>1, <4>2 DEF SameFile
    <3> QED
      BY <2>4, <3>1, <3>2 DEF Connect, Ends
  <2> QED
    BY <1>1, <2>1, <2>2, <2>3, <2>4
<1>3. UNCHANGED lines \/ CreateJournal \/ FinishOrphan(f)
  <2>1. CASE Submit(f)
    BY <2>1 DEF Submit, BeginResult, Post, MarkSubmitted, server
  <2>2. CASE Start(f)
    BY <2>2 DEF Start, PostArrives, PostCreates, SendCode, server
  <2>3. CASE Follow(f)
    BY <2>3 DEF Follow, Connect, ApplyLine, CatchUp, server
  <2>4. CASE Store(f)
    BY <2>4 DEF Store, Seal, Commit, LoseLease, Release, server
  <2>5. CASE JobFault(f)
    BY <2>5 DEF JobFault, SendFails, AnswerLost, AppendFails, Disconnect, SealFails,
                ReleaseFails, LimitPasses, Crash, server
  <2> QED
    BY <2>1, <2>2, <2>3, <2>4, <2>5 DEF JobStep
<1> QED
  BY <1>2, <1>3

\* No journal disappears from the disk under a reader.
LEMMA FilesStep ==
    ASSUME Inv, Next
    PROVE  FilesExist'
<1>0. TypeOK /\ Len(lines) \in Nat /\ path \in 0 .. Len(lines) /\ FilesExist
  BY Types DEF Inv, IInv
<1>1. CASE \E f \in Fences : JobStep(f) \/ JobFault(f)
  <2>1. PICK f \in Fences : JobStep(f) \/ JobFault(f)
    BY <1>1
  <2>2. /\ \A g \in Fences : SameFile(g)
        /\ UNCHANGED lines \/ CreateJournal \/ FinishOrphan(f)
    BY <1>0, <2>1, JobFiles
  <2>3. Len(lines') \in Nat /\ Len(lines') >= Len(lines)
    <3>1. CASE CreateJournal
      BY <1>0, <3>1, CreateIs
    <3>2. CASE FinishOrphan(f)
      <4>1. PICK n \in 1 .. Len(lines), r \in Nat : n = conn[f].file /\ r = conn[f].read
        BY <1>0, <3>2, Types DEF FilesExist, FinishOrphan, Orphaned
      <4>2. r + 1 \in Nat \ {0} /\ AppendLine(n, r + 1, "LOST")
        BY <3>2, <4>1 DEF FinishOrphan
      <4> QED
        BY <1>0, <4>2, AppendIs DEF Terminal
    <3> QED
      BY <1>0, <2>2, <3>1, <3>2
  <2> QED
    BY <1>0, <2>2, <2>3 DEF FilesExist, SameFile
<1>2. CASE RecorderStep \/ RecorderFails
  <2>1. UNCHANGED conn
    BY <1>2 DEF RecorderStep, RecordOutput, RecordReply, ReadIdle, RecordEnd,
                RecorderLeaves, RecorderFails
  <2>2. \/ UNCHANGED lines
        \/ rec.on /\ \E type \in Terminal \cup {"OUTPUT", "OK", "ERROR"} : Record(type)
    BY <1>2 DEF RecorderStep, RecordOutput, RecordReply, ReadIdle, RecordEnd, OverLimit,
                RecorderLeaves, RecorderFails, Records, Terminal
  <2>3. ASSUME rec.on, NEW type \in Terminal \cup {"OUTPUT", "OK", "ERROR"}, Record(type)
        PROVE  Len(lines') = Len(lines)
    <3>1. PICK n \in 1 .. Len(lines) : n = path
      BY <1>0, <2>3 DEF TypeOK
    <3>2. PICK l \in Nat : l = Len(lines[n])
      BY <1>0, LinesAre
    <3>3. l + 1 \in Nat \ {0} /\ AppendLine(n, l + 1, type)
      BY <2>3, <3>1, <3>2 DEF Record
    <3> QED
      BY <1>0, <3>3, AppendIs
  <2> QED
    BY <1>0, <2>1, <2>2, <2>3 DEF FilesExist
<1>3. CASE \/ (\E n \in DOMAIN out : KernelStep(n)) \/ StrayArrives \/ RemoveExpired
           \/ TakeOver \/ Stall \/ KernelDies \/ KernelRestarts
  <2>1. UNCHANGED <<conn, lines>>
    BY <1>3 DEF KernelStep, KernelPrints, KernelFinishes, StrayArrives, RemoveExpired,
                TakeOver, Stall, TakenOver, KernelDies, KernelRestarts, server
  <2> QED
    BY <1>0, <2>1 DEF FilesExist
<1>4. CASE StrayCreates
  <2>1. UNCHANGED conn /\ (UNCHANGED lines \/ CreateJournal)
    BY <1>4 DEF StrayCreates, SendCode
  <2>2. CreateJournal => Len(lines') = Len(lines) + 1
    BY <1>0, CreateIs
  <2> QED
    BY <1>0, <2>1, <2>2 DEF FilesExist
<1>5. CASE ServerRestarts
  BY <1>5 DEF FilesExist, ServerRestarts, NoConnection
<1> QED
  BY <1>1, <1>2, <1>3, <1>4, <1>5 DEF Next

\* It holds when the Step's first Worker begins.
LEMMA InvInit ==
    ASSUME Init
    PROVE  Inv
<1>0. 1 \in Fences
  BY BoundsAssumption DEF Fences
<1>1. /\ path = 0 /\ lines = <<>> /\ rec = NoRecording /\ out = <<>> /\ sent = {}
      /\ Len(lines) = 0 /\ Len(out) = 0 /\ lines \in Seq(Seq(Line)) /\ out \in Seq(Output)
  BY DEF Init
<1>2. /\ NoRecording \in Recording /\ ~NoRecording.on
      /\ NoConnection \in Connection /\ ~NoConnection.on
  BY DEF NoRecording, Recording, NoConnection, Connection
<1>3. PICK j : j = [NoJob EXCEPT !.pc = "begin"]
  OBVIOUS
<1>4. /\ NoJob \in Job /\ NoJob.pc = "idle" /\ NoJob.seq = 0
      /\ j \in Job /\ j.pc = "begin" /\ j.seq = 0
  BY <1>3 DEF NoJob, Job, Pc, Outcome
<1>5. /\ conn = [f \in Fences |-> NoConnection]
      /\ job = [f \in Fences |-> IF f = 1 THEN j ELSE NoJob]
      /\ result = [f \in Fences |-> [state |-> "NONE", outputs |-> <<>>]]
  BY <1>3 DEF Init
<1>6. /\ db = [fence |-> 1, submitted |-> FALSE, step |-> "RUNNING", committed |-> 0]
      /\ kernel = "up" /\ strays = [new |-> 0, handled |-> 0]
      /\ harmed = FALSE /\ faults = 0
  BY DEF Init, NoStrays
<1>7. TypeOK
  <2>1. /\ conn \in [Fences -> Connection] /\ job \in [Fences -> Job]
        /\ result \in [Fences -> Result]
    BY <1>2, <1>4, <1>5 DEF Result
  <2>2. /\ db \in [fence : Fences, submitted : BOOLEAN, committed : 0 .. MaxFences,
                   step : {"RUNNING", "SUCCEEDED", "FAILED"}]
        /\ faults \in 0 .. MaxFaults
    BY <1>0, <1>6, BoundsAssumption
  <2>3. result \in
          [Fences -> [state : {"NONE", "OPEN", "FINALIZED", "FAILED", "ABORTED"},
                      outputs : Seq(Nat \X Nat)]]
    BY <2>1 DEF Result
  <2>4. strays \in [new : Nat, handled : Nat] /\ 0 \in 0 .. 0 /\ sent \subseteq 1 .. 0
    BY <1>1, <1>6
  <2> QED
    BY <1>1, <1>2, <1>6, <2>1, <2>2, <2>3, <2>4 DEF TypeOK
<1>8. \A f \in Fences : /\ ~conn[f].on /\ job[f].seq = 0 /\ result[f].outputs = <<>>
                        /\ job[f].pc \in {"idle", "begin"} /\ (f # 1 => job[f].pc = "idle")
  BY <1>2, <1>4, <1>5
<1>9. \A f \in Fences : JobIsGood(f)
  <2> SUFFICES ASSUME NEW f \in Fences PROVE JobIsGood(f)
    OBVIOUS
  <2>1. ConnectionIsGood(f) /\ StoredIsApplied(f) /\ OutcomeIsEarned(f)
    BY <1>1, <1>8 DEF ConnectionIsGood, StoredIsApplied, OutcomeIsEarned
  <2>2. f > db.fence => f # 1
    BY <1>6
  <2> QED
    BY <1>8, <2>1, <2>2 DEF JobIsGood
<1>10. Undecided
  BY <1>1, <1>2, <1>9 DEF Undecided, RecorderKnows
<1>11. ConnectedFollow /\ FilesExist /\ SuccessStays
  BY <1>6, <1>8 DEF ConnectedFollow, FilesExist, SuccessStays
<1> QED
  BY <1>7, <1>10, <1>11 DEF Inv, IInv

\* No step breaks it.
LEMMA InvStep ==
    ASSUME Inv, [Next]_vars
    PROVE  Inv'
<1>0. IInv /\ FilesExist
  BY DEF Inv
<1>1. CASE UNCHANGED vars
  <2>1. /\ SameServer /\ UNCHANGED <<conn, job, result, db>> /\ UNCHANGED <<strays, harmed, faults>>
    BY <1>1 DEF vars, server, SameServer
  <2>2. TypeOK'
    BY <1>0, <2>1 DEF IInv, TypeOK, SameServer
  <2>3. RunsStay
    BY <2>1 DEF RunsStay, SameServer
  <2>4. Running => RecorderKnows'
    BY <1>0, <2>1, <2>3, KnowsStays DEF IInv, Undecided, SameServer
  <2>5. IInv'
    BY <1>0, <2>1, <2>2, <2>3, <2>4, SameLinesKeeps DEF SameServer
  <2> QED
    BY <1>0, <2>1, <2>5 DEF Inv, FilesExist, SameServer
<1>2. CASE Next
  <2>1. FilesExist'
    BY <1>2, FilesStep
  <2> SUFFICES IInv'
    BY <2>1 DEF Inv
  <2>2. CASE \E f \in Fences : JobStep(f)
    <3>1. PICK f \in Fences : JobStep(f)
      BY <2>2
    <3>2. CASE Submit(f)
      BY <1>0, <3>2, BeginResultKeeps, SubmitKeeps, MarkSubmittedKeeps DEF Submit
    <3>3. CASE Start(f)
      BY <1>0, <3>3, SubmitKeeps, PostCreatesKeeps DEF Start
    <3>4. CASE Follow(f)
      BY <1>0, <3>4, ConnectKeeps, ApplyLineKeeps, CatchUpKeeps, FinishOrphanKeeps DEF Follow
    <3>5. CASE Store(f)
      BY <1>0, <3>5, SealKeeps, CommitKeeps, LeavesKeeps, ReleaseKeeps DEF Store
    <3> QED
      BY <3>1, <3>2, <3>3, <3>4, <3>5 DEF JobStep
  <2>3. CASE \E f \in Fences : JobFault(f)
    BY <1>0, <2>3, SendFailsKeeps, SubmitKeeps, FollowFailsKeeps, StoreFailsKeeps,
       LeavesKeeps DEF JobFault
  <2>4. CASE RecorderStep \/ RecorderFails
    BY <1>0, <2>4, RecorderKeeps
  <2>5. CASE \E n \in DOMAIN out : KernelStep(n)
    BY <1>0, <2>5, KernelKeeps
  <2>6. CASE StrayArrives \/ StrayCreates
    BY <1>0, <2>6, StrayKeeps
  <2>7. CASE RemoveExpired
    BY <1>0, <2>7, RemoveExpiredKeeps
  <2>8. CASE TakeOver \/ Stall
    BY <1>0, <2>8, TakenOverKeeps
  <2>9. CASE KernelDies \/ KernelRestarts
    BY <1>0, <2>9, ProcessKeeps
  <2>10. CASE ServerRestarts
    BY <1>0, <2>10, ServerRestartsKeeps
  <2> QED
    BY <1>2, <2>2, <2>3, <2>4, <2>5, <2>6, <2>7, <2>8, <2>9, <2>10 DEF Next
<1> QED
  BY <1>1, <1>2

----------------------------------------------------------------------------
(* While nothing is harmed.                                                *)

\* A step of one Worker.
LEMMA WellJob ==
    ASSUME Well, NEW f \in Fences, SameServer,
           \A g \in Fences \ {f} : job'[g] = job[g] /\ conn'[g] = conn[g],
           db'.submitted => db.submitted \/ path # 0,
           job'[f].submitted => job[f].submitted,
           job'[f].pc \in {"mark", "follow"} => path # 0,
           conn'[f].on => (conn'[f].recording \/ Ended(path)) /\ ~conn'[f].marked,
           job'[f].outcome # "LOST"
    PROVE  Well'
<1>1. Ended(path)' <=> Ended(path)
  BY DEF SameServer, Ended
<1>2. ServerIsWell'
  BY <1>1 DEF Well, ServerIsWell, SameServer
<1>3. ASSUME NEW g \in Fences PROVE JobIsWell(g)'
  BY <1>1 DEF Well, JobIsWell, SameServer
<1> QED
  BY <1>2, <1>3 DEF Well, SameServer

\* A Worker goes on, or its execution call ends.
LEMMA WellMoves ==
    ASSUME TypeOK, Well, NEW f \in Fences, SameServer, NEW pc, NEW outcome,
           Moves(f, pc, outcome), outcome # "LOST",
           pc \in {"mark", "follow"} => path # 0,
           UNCHANGED conn \/ conn' = [conn EXCEPT ![f] = NoConnection],
           db'.submitted => db.submitted \/ path # 0
    PROVE  Well'
<1>1. conn \in [Fences -> Connection] /\ ~NoConnection.on
  BY DEF TypeOK, NoConnection
<1>2. \A g \in Fences \ {f} : job'[g] = job[g] /\ conn'[g] = conn[g]
  BY <1>1 DEF Moves, JobBecomes
<1>3. conn'[f] = conn[f] \/ ~conn'[f].on
  BY <1>1
<1>4. conn[f].on => (conn[f].recording \/ Ended(path)) /\ ~conn[f].marked
  BY DEF Well, JobIsWell
<1>5. job'[f].submitted = job[f].submitted /\ job'[f].pc = pc /\ job'[f].outcome = outcome
  BY DEF Moves, JobBecomes
<1> QED
  BY <1>2, <1>3, <1>4, <1>5, WellJob

\* The Worker submits.
LEMMA WellSubmits ==
    ASSUME IInv, Well, NEW f \in Fences,
           \/ BeginResult(f) \/ Post(f) \/ PostArrives(f) \/ MarkSubmitted(f)
           \/ AnswerLost(f)
    PROVE  Well'
<1>0. /\ TypeOK /\ {"post", "posted", "starting", "mark", "follow"} \subseteq Pc
      /\ "DRIVER" \in Outcome /\ kernel = "up" /\ JobIsWell(f) /\ job[f].outcome # "LOST"
  BY DEF IInv, Pc, Outcome, Well, ServerIsWell, JobIsWell
<1>1. SameServer /\ (UNCHANGED db \/ job[f].pc = "mark")
  BY DEF BeginResult, Post, PostArrives, MarkSubmitted, AnswerLost, SameServer, server
<1>2. db'.submitted => db.submitted \/ path # 0
  BY <1>0, <1>1 DEF JobIsWell
<1>3. CASE Ends(f, "DRIVER")
  <2>1. Moves(f, "seal", "DRIVER") /\ conn' = [conn EXCEPT ![f] = NoConnection]
    BY <1>0, <1>3, EndsIs DEF Ends
  <2> QED
    BY <1>0, <1>1, <1>2, <2>1, WellMoves
<1>4. ASSUME NEW pc \in {"post", "posted", "starting", "mark", "follow"},
             Go(f, pc), UNCHANGED conn, pc \in {"mark", "follow"} => path # 0
      PROVE  Well'
  <2>1. Moves(f, pc, job[f].outcome)
    BY <1>0, <1>4, GoIs
  <2> QED
    BY <1>0, <1>1, <1>2, <1>4, <2>1, WellMoves
<1>5. CASE BeginResult(f)
  BY <1>0, <1>4, <1>5 DEF BeginResult, JobIsWell
<1>6. CASE Post(f)
  BY <1>4, <1>6 DEF Post
<1>7. CASE PostArrives(f)
  BY <1>0, <1>4, <1>7 DEF PostArrives
<1>8. CASE MarkSubmitted(f)
  BY <1>0, <1>3, <1>4, <1>8 DEF MarkSubmitted, JobIsWell
<1>9. CASE AnswerLost(f)
  BY <1>3, <1>4, <1>9 DEF AnswerLost
<1> QED
  BY <1>5, <1>6, <1>7, <1>8, <1>9

\* The Worker stores, gives up or disappears.
LEMMA WellStores ==
    ASSUME IInv, Well, Running, NEW f \in Fences,
           \/ Seal(f) \/ LoseLease(f) \/ Release(f) \/ ReleaseFails(f)
           \/ SealFails(f) \/ LimitPasses(f) \/ Crash(f)
           \/ AppendFails(f) \/ Disconnect(f)
    PROVE  Well'
<1>0. /\ TypeOK /\ {"commit", "gone"} \subseteq Pc /\ job[f].pc # "release"
      /\ {"DRIVER", "LIMIT"} \subseteq Outcome /\ JobIsWell(f) /\ job[f].outcome # "LOST"
      /\ job[f].outcome \in Outcome
  BY Types DEF IInv, Pc, Outcome, Well, JobIsWell, Undecided, JobIsGood
<1>1. /\ SameServer /\ UNCHANGED db
      /\ UNCHANGED conn \/ conn' = [conn EXCEPT ![f] = NoConnection]
  BY <1>0 DEF Seal, LoseLease, Release, ReleaseFails, SealFails, LimitPasses, Crash,
              AppendFails, Disconnect, SameServer, server, Ends
<1>2. \/ \E outcome \in {"DRIVER", "LIMIT"} : Ends(f, outcome)
      \/ Go(f, "commit") \/ Go(f, "gone")
      \/ \E outcome \in Outcome \ {"LOST"} :
           job' = [job EXCEPT ![f].pc = "commit", ![f].outcome = outcome]
      \/ UNCHANGED job /\ conn' = [conn EXCEPT ![f] = NoConnection]
  <2>1. CASE Seal(f) \/ LoseLease(f) \/ Release(f) \/ ReleaseFails(f) \/ Crash(f)
    BY <1>0, <2>1 DEF Seal, LoseLease, Release, ReleaseFails, Crash
  <2>2. CASE SealFails(f)
    <3>1. PICK outcome \in Outcome \ {"LOST"} :
            outcome = IF job[f].outcome \in {"OK", "ERROR"} THEN "DRIVER" ELSE job[f].outcome
      BY <1>0
    <3>2. job' = [job EXCEPT ![f].pc = "commit", ![f].outcome = outcome]
      BY <2>2, <3>1 DEF SealFails
    <3> QED
      BY <3>2
  <2>3. CASE LimitPasses(f)
    BY <1>0, <2>3 DEF LimitPasses
  <2>4. CASE AppendFails(f) \/ Disconnect(f)
    BY <2>4 DEF AppendFails, Disconnect
  <2> QED
    BY <2>1, <2>2, <2>3, <2>4
<1>3. CASE \E outcome \in {"DRIVER", "LIMIT"} : Ends(f, outcome)
  <2>1. PICK outcome \in {"DRIVER", "LIMIT"} : Ends(f, outcome)
    BY <1>3
  <2>2. Moves(f, "seal", outcome)
    BY <1>0, <2>1, EndsIs
  <2> QED
    BY <1>0, <1>1, <2>1, <2>2, WellMoves
<1>4. CASE Go(f, "commit") \/ Go(f, "gone")
  <2>1. PICK pc \in {"commit", "gone"} : Go(f, pc)
    BY <1>4
  <2>2. Moves(f, pc, job[f].outcome)
    BY <1>0, <2>1, GoIs
  <2> QED
    BY <1>0, <1>1, <2>1, <2>2, WellMoves
<1>5. CASE \E outcome \in Outcome \ {"LOST"} :
             job' = [job EXCEPT ![f].pc = "commit", ![f].outcome = outcome]
  <2>1. PICK outcome \in Outcome \ {"LOST"} :
             job' = [job EXCEPT ![f].pc = "commit", ![f].outcome = outcome]
    BY <1>5
  <2>2. Moves(f, "commit", outcome)
    BY <1>0, <2>1, StopIs
  <2> QED
    BY <1>0, <1>1, <2>1, <2>2, WellMoves
<1>6. CASE UNCHANGED job /\ conn' = [conn EXCEPT ![f] = NoConnection]
  <2>1. Moves(f, job[f].pc, job[f].outcome)
    BY <1>0, <1>6, Types DEF Moves, JobBecomes
  <2>2. job[f].pc \in {"mark", "follow"} => path # 0
    BY <1>0 DEF JobIsWell
  <2> QED
    BY <1>0, <1>1, <1>6, <2>1, <2>2, WellMoves
<1> QED
  BY <1>2, <1>3, <1>4, <1>5, <1>6

\* The Worker follows: the journal it reads is ended by its recorder.
LEMMA WellFollows ==
    ASSUME IInv, Well, Running, NEW f \in Fences, Follow(f)
    PROVE  Well'
<1>0. /\ TypeOK /\ {"DRIVER", "GAP", "LIMIT", "OK", "ERROR"} \subseteq Outcome
      /\ job[f].outcome # "LOST" /\ JobIsGood(f)
      /\ conn[f].on => /\ job[f].pc = "follow" /\ ~conn[f].marked
                       /\ conn[f].recording \/ Ended(path)
      /\ job[f].pc = "follow" => path # 0
  BY DEF IInv, Outcome, Well, JobIsWell, Undecided, ConnectedFollow
<1>1. ASSUME NEW outcome \in {"DRIVER", "GAP", "LIMIT", "OK", "ERROR"}, Ends(f, outcome),
             SameServer, UNCHANGED db
      PROVE  Well'
  <2>1. Moves(f, "seal", outcome) /\ conn' = [conn EXCEPT ![f] = NoConnection]
    BY <1>0, <1>1, EndsIs DEF Ends
  <2> QED
    BY <1>0, <1>1, <2>1, WellMoves
<1>2. CASE Connect(f)
  <2>1. /\ job[f].pc = "follow" /\ path # 0 /\ SameServer /\ UNCHANGED <<job, db>>
        /\ conn' = [conn EXCEPT ![f] =
                      [NoConnection EXCEPT
                         !.on = TRUE, !.file = path,
                         !.read = Skipped(path, After(f)),
                         !.recording = rec.on]]
    BY <1>0, <1>2 DEF Connect, SameServer, server
  <2>2. \A g \in Fences \ {f} : conn'[g] = conn[g]
    BY <1>0, <2>1, Types
  <2>3. conn'[f].recording = rec.on /\ ~conn'[f].marked
    BY <1>0, <2>1, Types DEF NoConnection
  <2>4. rec.on \/ Ended(path)
    BY <2>1 DEF Well, ServerIsWell
  <2> QED
    BY <1>0, <2>1, <2>2, <2>3, <2>4, WellJob
<1>3. CASE ApplyLine(f)
  <2>1. conn[f].on /\ SameServer /\ UNCHANGED db /\ path # 0 /\ conn[f].file = path
        /\ Active(f)
    BY <1>0, <1>3 DEF ApplyLine, Unread, SameServer, server, JobIsGood, ConnectionIsGood,
                      Active
  <2>2. NextLine(f).type # "LOST"
    <3>0. conn[f].read \in Nat /\ path \in 1 .. Len(lines)
      BY <1>0, <2>1, Types
    <3>1. PICK r \in Nat, l \in Nat : r = conn[f].read /\ l = Len(lines[path])
      BY <1>0, <3>0, LinesAre
    <3>2. r + 1 \in 1 .. l
      BY <1>3, <2>1, <3>1 DEF ApplyLine, Unread
    <3> QED
      BY <2>1, <3>1, <3>2 DEF NextLine, Well, ServerIsWell
  <2>3. CASE Ends(f, "GAP")
    BY <1>1, <2>1, <2>3
  <2>4. CASE job' = [job EXCEPT ![f].seq = @ + 1] /\ conn' = [conn EXCEPT ![f].read = @ + 1]
    <3>1. job[f] \in Job /\ conn[f] \in Connection /\ DOMAIN job = Fences /\ DOMAIN conn = Fences
      BY <1>0 DEF TypeOK
    <3>2. /\ job'[f].submitted = job[f].submitted /\ job'[f].pc = job[f].pc
          /\ job'[f].outcome = job[f].outcome
          /\ \A g \in Fences \ {f} : job'[g] = job[g]
      BY <2>4, <3>1 DEF Job
    <3>3. /\ conn'[f].recording = conn[f].recording /\ conn'[f].marked = conn[f].marked
          /\ \A g \in Fences \ {f} : conn'[g] = conn[g]
      BY <2>4, <3>1 DEF Connection
    <3> QED
      BY <1>0, <2>1, <3>2, <3>3, WellJob
  <2>5. CASE Ends(f, CASE NextLine(f).type = "LOST" -> "LOST"
                       [] NextLine(f).type = "OUTPUT_LIMIT" -> "LIMIT"
                       [] ReportsCatchUp(f) /\ ~Holds(f) -> "DRIVER"
                       [] OTHER -> Replied(f))
    <3>1. Replied(f) \in {"OK", "ERROR"}
      BY DEF Replied
    <3>2. PICK outcome \in {"DRIVER", "LIMIT", "OK", "ERROR"} : Ends(f, outcome)
      BY <2>2, <2>5, <3>1
    <3> QED
      BY <1>1, <2>1, <3>2
  <2> QED
    BY <1>3, <2>3, <2>4, <2>5 DEF ApplyLine
<1>4. CASE CatchUp(f)
  <2>1. conn[f].on /\ SameServer /\ UNCHANGED db /\ path # 0 /\ conn[f].file = path
        /\ Active(f) /\ ~Unread(f) /\ conn[f].read = job[f].seq
    BY <1>0, <1>4 DEF CatchUp, SameServer, server, JobIsGood, ConnectionIsGood, Active
  <2>2. ~Ended(path)
    <3>1. PICK r \in Nat, l \in Nat : r = conn[f].read /\ l = Len(lines[path])
      BY <1>0, <2>1, Types, LinesAre
    <3>2. r <= l /\ Open(path, r)
      BY <2>1, <3>1, Following
    <3>3. r = l
      BY <2>1, <3>1, <3>2 DEF Unread
    <3> QED
      BY <3>1, <3>2, <3>3 DEF Ended, Open
  <2>3. CASE Ends(f, "DRIVER")
    BY <1>1, <2>1, <2>3
  <2>4. CASE /\ conn' = [conn EXCEPT ![f].caughtUp = TRUE, ![f].marked = ~conn[f].recording]
             /\ job' = [job EXCEPT ![f].caughtUp = TRUE]
    <3>1. job[f] \in Job /\ conn[f] \in Connection /\ DOMAIN job = Fences /\ DOMAIN conn = Fences
      BY <1>0 DEF TypeOK
    <3>2. /\ job'[f].submitted = job[f].submitted /\ job'[f].pc = job[f].pc
          /\ job'[f].outcome = job[f].outcome
          /\ \A g \in Fences \ {f} : job'[g] = job[g]
      BY <2>4, <3>1 DEF Job
    <3>3. /\ conn'[f].recording = conn[f].recording /\ conn'[f].marked = ~conn[f].recording
          /\ \A g \in Fences \ {f} : conn'[g] = conn[g]
      BY <2>4, <3>1 DEF Connection
    <3>4. conn[f].recording
      BY <1>0, <2>1, <2>2
    <3> QED
      BY <1>0, <2>1, <3>2, <3>3, <3>4, WellJob
  <2> QED
    BY <1>4, <2>3, <2>4 DEF CatchUp
<1>5. CASE FinishOrphan(f)
  BY <1>0, <1>5 DEF FinishOrphan, Orphaned
<1> QED
  BY <1>2, <1>3, <1>4, <1>5 DEF Follow

\* The code is sent: it was not sent before, and no Worker was following.
LEMMA WellSends ==
    ASSUME IInv, Well, Running, ~harmed, MayCreate, SendCode, UNCHANGED <<kernel, conn, db>>,
           \A f \in Fences : job'[f].outcome = job[f].outcome
    PROVE  Well'
<1>0. TypeOK /\ path = 0 /\ kernel = "up" /\ sent = {}
  BY DEF IInv, MayCreate, Well, ServerIsWell
<1>1. path' # 0 /\ Len(lines'[path']) = 0
  BY <1>0, CreateIs DEF SendCode
<1>2. rec' = [NoRecording EXCEPT !.on = TRUE, !.lost = FALSE]
  BY DEF SendCode
<1>3. rec'.on /\ ~rec'.lost
  BY <1>2 DEF NoRecording
<1>4. sent' = {path'}
  BY <1>0 DEF SendCode
<1>5. ServerIsWell'
  <2>1. \A i \in 1 .. Len(lines'[path']) : lines'[path'][i].type # "LOST"
    BY <1>1
  <2>2. 0 \notin sent'
    BY <1>1, <1>4
  <2> QED
    BY <1>0, <1>3, <1>4, <2>1, <2>2 DEF ServerIsWell
<1>6. ASSUME NEW f \in Fences PROVE JobIsWell(f)'
  <2>1. ~conn[f].on
    BY <1>0 DEF IInv, Undecided, JobIsGood, ConnectionIsGood
  <2>2. job'[f].outcome # "LOST" /\ ~conn'[f].on
    BY <2>1 DEF Well, JobIsWell
  <2> QED
    BY <1>1, <2>2 DEF JobIsWell
<1> QED
  BY <1>1, <1>5, <1>6 DEF Well

\* The server answers a POST.
LEMMA WellAnswers ==
    ASSUME IInv, Well, Running, ~harmed, ~harmed', NEW f \in Fences,
           PostCreates(f) \/ SendFails(f)
    PROVE  Well'
<1>0. /\ TypeOK /\ "mark" \in Pc /\ "DRIVER" \in Outcome /\ kernel = "up"
      /\ job[f].outcome # "LOST"
  BY DEF IInv, Pc, Outcome, Well, ServerIsWell, JobIsWell
<1>1. CASE MayCreate /\ SendCode /\ Go(f, "mark") /\ UNCHANGED <<kernel, conn, db>>
  <2>1. \A g \in Fences : job'[g].outcome = job[g].outcome
    BY <1>0, <1>1, GoIs DEF Moves, JobBecomes
  <2> QED
    BY <1>1, <2>1, WellSends
<1>2. CASE SameServer /\ ~MayCreate /\ Go(f, "mark") /\ UNCHANGED <<conn, db>>
  <2>1. path # 0
    BY <1>0, <1>2 DEF MayCreate
  <2>2. Moves(f, "mark", job[f].outcome)
    BY <1>0, <1>2, GoIs
  <2> QED
    BY <1>0, <1>2, <2>1, <2>2, WellMoves
<1>3. CASE SameServer /\ Ends(f, "DRIVER") /\ UNCHANGED db
  <2>1. Moves(f, "seal", "DRIVER") /\ conn' = [conn EXCEPT ![f] = NoConnection]
    BY <1>0, <1>3, EndsIs DEF Ends
  <2> QED
    BY <1>0, <1>3, <2>1, WellMoves
<1> QED
  BY <1>0, <1>1, <1>2, <1>3 DEF PostCreates, SendFails, SameServer

\* The recorder writes no LOST as long as its kernel lives.
LEMMA WellRecords ==
    ASSUME IInv, Well, Running, RecorderStep
    PROVE  Well'
<1>0. TypeOK /\ rec.on /\ path # 0 /\ path \in 1 .. Len(lines) /\ rec \in Recording
      /\ ~rec.lost
  BY Types DEF IInv, TypeOK, RecorderStep, RecordOutput, RecordReply, ReadIdle, RecordEnd,
         RecorderLeaves, Records, Well, ServerIsWell
<1>1. UNCHANGED <<path, kernel, sent, conn, job, db>>
  BY DEF RecorderStep, RecordOutput, RecordReply, ReadIdle, RecordEnd, RecorderLeaves
<1>2. PICK l \in Nat : l = Len(lines[path])
  BY <1>0, LinesAre
<1>3. /\ ~rec'.lost
      /\ rec'.on \/ (Ended(path) /\ UNCHANGED lines)
  BY <1>0 DEF RecorderStep, RecordOutput, RecordReply, ReadIdle, RecordEnd, RecorderLeaves,
              NoRecording, Recording
<1>4. \/ UNCHANGED lines
      \/ \E type \in (Terminal \cup {"OUTPUT", "OK", "ERROR"}) \ {"LOST"} : Record(type)
  BY <1>0 DEF RecorderStep, RecordOutput, RecordReply, ReadIdle, RecordEnd, RecorderLeaves,
              OverLimit, Terminal
<1>5. PICK m \in {l, l + 1} :
        /\ m = Len(lines'[path]) /\ \A i \in 1 .. l : lines'[path][i] = lines[path][i]
        /\ m = l + 1 => lines'[path][m].type # "LOST"
  <2>1. CASE UNCHANGED lines
    BY <1>2, <2>1
  <2>2. ASSUME NEW type \in (Terminal \cup {"OUTPUT", "OK", "ERROR"}) \ {"LOST"}, Record(type)
        PROVE  /\ l + 1 = Len(lines'[path])
               /\ \A i \in 1 .. l : lines'[path][i] = lines[path][i]
               /\ lines'[path][l + 1].type # "LOST"
    <3>1. l + 1 \in Nat \ {0} /\ AppendLine(path, l + 1, type)
      BY <1>2, <2>2 DEF Record
    <3> QED
      BY <1>0, <1>2, <2>2, <3>1, AppendIs
  <2> QED
    BY <1>4, <2>1, <2>2
<1>6. \A i \in 1 .. m : lines'[path][i].type # "LOST"
  <2>1. \A i \in 1 .. l : lines[path][i].type # "LOST"
    BY <1>0, <1>2 DEF Well, ServerIsWell
  <2> QED
    BY <1>2, <1>5, <2>1
<1>7. Ended(path) => Ended(path)'
  <2>1. Ended(path) => \E i \in 1 .. m : lines'[path][i].type \in Terminal
    <3>1. m \in Nat /\ l <= m
      BY <1>2
    <3> QED
      BY <1>2, <1>5, <3>1, EndedStays
  <2> QED
    BY <1>1, <1>5, <2>1 DEF Ended
<1>8. ServerIsWell'
  BY <1>1, <1>3, <1>5, <1>6, <1>7 DEF Well, ServerIsWell
<1>9. \A f \in Fences : JobIsWell(f)'
  BY <1>1, <1>7 DEF Well, JobIsWell
<1> QED
  BY <1>1, <1>8, <1>9 DEF Well

\* The next Worker begins.
LEMMA WellTakesOver ==
    ASSUME IInv, Well, TakeOver \/ Stall
    PROVE  Well'
<1>0. /\ TypeOK /\ db.fence < MaxFences
      /\ db' = [db EXCEPT !.fence = @ + 1]
      /\ job' = [job EXCEPT ![db.fence + 1] =
                   [NoJob EXCEPT !.pc = "begin", !.submitted = db.submitted]]
      /\ SameServer /\ UNCHANGED conn
  BY DEF IInv, TakeOver, Stall, TakenOver, SameServer, server
<1>1. db'.submitted = db.submitted
  BY <1>0 DEF TypeOK
<1>2. PICK f \in Fences : f = db.fence + 1
  BY <1>0, Types, BoundsAssumption DEF Fences
<1>3. PICK j : j = [NoJob EXCEPT !.pc = "begin", !.submitted = db.submitted]
  OBVIOUS
<1>4. j.pc = "begin" /\ j.submitted = db.submitted /\ j.outcome = "NONE"
  BY <1>3 DEF NoJob
<1>5. job'[f] = j /\ \A g \in Fences \ {f} : job'[g] = job[g]
  BY <1>0, <1>2, <1>3, Types
<1>6. ServerIsWell'
  BY <1>0 DEF Well, ServerIsWell, SameServer, Ended
<1>7. (db.submitted => path # 0) /\ path' = path /\ (Ended(path)' <=> Ended(path))
  BY <1>0 DEF Well, SameServer, Ended
<1>8. ASSUME NEW g \in Fences PROVE JobIsWell(g)'
  <2>1. conn[g].on => (conn[g].recording \/ Ended(path)) /\ ~conn[g].marked
    BY DEF Well, JobIsWell
  <2>2. CASE g = f
    BY <1>0, <1>4, <1>5, <1>7, <2>1, <2>2 DEF JobIsWell
  <2>3. CASE g # f
    <3>1. job'[g] = job[g] /\ JobIsWell(g)
      BY <1>5, <2>3 DEF Well
    <3> QED
      BY <1>0, <1>7, <3>1 DEF JobIsWell
  <2> QED
    BY <2>2, <2>3
<1> QED
  BY <1>1, <1>6, <1>7, <1>8 DEF Well

\* A step that leaves the journal and the Workers alone.
LEMMA WellStays ==
    ASSUME Well, UNCHANGED <<path, lines, rec, kernel, sent, conn, job, db>>
    PROVE  Well'
<1>1. Ended(path)' <=> Ended(path)
  BY DEF Ended
<1> QED
  BY <1>1 DEF Well, ServerIsWell, JobIsWell

\* No step harms the Step without saying so.
LEMMA UnharmedStep ==
    ASSUME IInv, Unharmed, [Next]_vars
    PROVE  Unharmed'
<1> SUFFICES ASSUME Running', ~harmed', Running /\ ~harmed => Well
             PROVE  Well'
  BY DEF Unharmed
<1>1. CASE UNCHANGED vars
  <2>1. UNCHANGED <<path, lines, rec, kernel, sent, conn, job, db>> /\ UNCHANGED harmed
    BY <1>1 DEF vars, server
  <2> QED
    BY <2>1, WellStays DEF Running
<1>2. CASE \E f \in Fences : JobStep(f)
  <2>1. PICK f \in Fences : JobStep(f)
    BY <1>2
  <2>2. ~harmed
    BY <2>1 DEF JobStep, Submit, BeginResult, Post, MarkSubmitted, Start, PostArrives,
                PostCreates, Follow, Connect, ApplyLine, CatchUp, FinishOrphan, Store, Seal,
                Commit, LoseLease, Release
  <2>3. Running /\ ~Commit(f)
    <3>1. ~Commit(f)
      BY DEF Commit, Running, IInv, TypeOK
    <3> SUFFICES Running
      BY <3>1
    <3>2. CASE Submit(f) \/ Start(f)
      BY <3>2 DEF Submit, BeginResult, Post, MarkSubmitted, Start, PostArrives,
                  PostCreates, Running, IInv, TypeOK, Holds
    <3>3. CASE Follow(f)
      BY <3>3 DEF Follow, Connect, ApplyLine, CatchUp, FinishOrphan, Running
    <3>4. CASE Store(f)
      BY <3>1, <3>4 DEF Store, Seal, LoseLease, Release, Running
    <3> QED
      BY <2>1, <3>1, <3>2, <3>3, <3>4 DEF JobStep
  <2> QED
    BY <2>1, <2>2, <2>3, WellSubmits, WellAnswers, WellFollows, WellStores
       DEF JobStep, Submit, Start, Store
<1>3. CASE \E f \in Fences : JobFault(f)
  <2>1. PICK f \in Fences : JobFault(f)
    BY <1>3
  <2>2. ~harmed /\ Running
    BY <2>1 DEF JobFault, SendFails, AnswerLost, AppendFails, Disconnect, SealFails,
                ReleaseFails, LimitPasses, Crash, Running
  <2> QED
    BY <2>1, <2>2, WellSubmits, WellAnswers, WellStores DEF JobFault
<1>4. CASE RecorderStep
  <2>1. ~harmed /\ Running
    BY <1>4 DEF RecorderStep, RecordOutput, RecordReply, ReadIdle, RecordEnd,
                RecorderLeaves, Running
  <2> QED
    BY <1>4, <2>1, WellRecords
<1>5. CASE \E n \in DOMAIN out : KernelStep(n)
  <2>1. UNCHANGED <<path, lines, rec, kernel, sent, conn, job, db>> /\ UNCHANGED harmed
    BY <1>5 DEF KernelStep, KernelPrints, KernelFinishes
  <2> QED
    BY <2>1, WellStays DEF Running
<1>6. CASE StrayArrives
  <2>1. UNCHANGED <<path, lines, rec, kernel, sent, conn, job, db>> /\ UNCHANGED harmed
    BY <1>6 DEF StrayArrives
  <2> QED
    BY <2>1, WellStays DEF Running
<1>7. CASE StrayCreates
  <2>1. UNCHANGED <<kernel, conn, job, db, harmed>> /\ Running /\ ~harmed
    BY <1>7 DEF StrayCreates, Running
  <2>2. CASE MayCreate /\ SendCode
    BY <2>1, <2>2, WellSends
  <2>3. CASE UNCHANGED <<path, lines, rec, out, sent>>
    BY <2>1, <2>3, WellStays
  <2> QED
    BY <1>7, <2>2, <2>3 DEF StrayCreates
<1>8. CASE TakeOver \/ Stall
  <2>1. ~harmed /\ Running
    BY <1>8 DEF TakeOver, Stall, TakenOver, Running
  <2> QED
    BY <1>8, <2>1, WellTakesOver
<1>9. CASE KernelRestarts
  <2>1. ~harmed /\ Running /\ kernel = "dead"
    BY <1>9 DEF KernelRestarts, Running
  <2> QED
    BY <2>1 DEF Well, ServerIsWell
<1>10. CASE RemoveExpired \/ KernelDies \/ ServerRestarts \/ RecorderFails
  BY <1>10 DEF RemoveExpired, KernelDies, ServerRestarts, RecorderFails
<1> QED
  BY <1>1, <1>2, <1>3, <1>4, <1>5, <1>6, <1>7, <1>8, <1>9, <1>10 DEF Next

----------------------------------------------------------------------------
(* The theorems.                                                           *)

\* The invariant and what it says while nothing is harmed hold throughout.
LEMMA Invariants == Spec => [](Inv /\ Unharmed)
<1>1. Init => Inv /\ Unharmed
  <2> SUFFICES ASSUME Init PROVE Inv /\ Unharmed
    OBVIOUS
  <2>1. Inv
    BY InvInit
  <2>2. /\ path = 0 /\ sent = {} /\ kernel = "up" /\ ~db.submitted /\ ~rec.lost
        /\ \A f \in Fences : ~conn[f].on /\ ~job[f].submitted /\ job[f].outcome = "NONE"
                             /\ job[f].pc \in {"idle", "begin"}
    BY DEF Init, NoRecording, NoConnection, NoJob
  <2>3. ServerIsWell /\ \A f \in Fences : JobIsWell(f)
    BY <2>2 DEF ServerIsWell, JobIsWell
  <2> QED
    BY <2>1, <2>2, <2>3 DEF Unharmed, Well
<1>2. Inv /\ Unharmed /\ [Next]_vars => (Inv /\ Unharmed)'
  BY InvStep, UnharmedStep DEF Inv
<1> QED
  BY <1>1, <1>2, PTL DEF Spec

\* The type invariant, for any number of Workers, messages and faults.
THEOREM TypeCorrect == Spec => []TypeOK
<1>1. Inv /\ Unharmed => TypeOK
  BY DEF Inv, IInv
<1> QED
  BY <1>1, Invariants, PTL

\* A Step succeeds only with the whole output of one run of its code, in order
\* and without repeats, in the sealed result of the token that commits it:
\* mark_succeeded after any interleaving of takeovers, stale Workers, broken
\* streams, recorder, kernel and server failures.
THEOREM SuccessIsWhole == Spec => []SuccessIsOneWholeRun
<1>1. Inv /\ Unharmed => SuccessIsOneWholeRun
  <2> SUFFICES ASSUME Inv, db.step = "SUCCEEDED"
               PROVE  /\ result[db.committed].state = "FINALIZED"
                      /\ \E n \in sent :
                           /\ out[n].over /\ out[n].ok
                           /\ result[db.committed].outputs =
                                [i \in 1 .. out[n].printed |-> <<n, i>>]
    BY DEF SuccessIsOneWholeRun
  <2> QED
    BY DEF Inv, IInv, SuccessStays, WholeRun
<1> QED
  BY <1>1, Invariants, PTL

\* While the Step is undecided and nothing was harmed, its code is sent at most
\* once and its journal is still there: open("x") decides between the handlers
\* of repeated, late and abandoned POSTs.
THEOREM SentOnce == Spec => []UndecidedIsSentOnce
<1>1. Inv /\ Unharmed => UndecidedIsSentOnce
  <2> SUFFICES ASSUME Inv, Unharmed, db.step = "RUNNING", ~harmed
               PROVE  Cardinality(sent) <= 1 /\ (sent # {} => path # 0)
    BY DEF UndecidedIsSentOnce
  <2>1. sent \subseteq {path} /\ 0 \notin sent
    BY DEF Unharmed, Running, Well, ServerIsWell
  <2>2. sent = {} \/ sent = {path}
    BY <2>1
  <2>3. Cardinality({}) = 0 /\ Cardinality({path}) = 1
    BY FS_EmptySet, FS_Singleton
  <2> QED
    BY <2>1, <2>2, <2>3
<1> QED
  BY <1>1, Invariants, PTL

\* The Worker that holds the Step never finds its execution lost while kernel,
\* server and journal are unharmed, whatever its predecessors did.
THEOREM LosesNothing == Spec => []NothingIsLost
<1>1. Inv /\ Unharmed => NothingIsLost
  BY DEF Inv, Unharmed, NothingIsLost, Holds, Running, Well, JobIsWell
<1> QED
  BY <1>1, Invariants, PTL

=============================================================================
