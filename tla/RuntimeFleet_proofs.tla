------------------------ MODULE RuntimeFleet_proofs ------------------------
(***************************************************************************)
(* Proofs about the Runtime Targets, for any number of Targets, servers,   *)
(* Executions, commands, probes and faults.                                *)
(*                                                                         *)
(* A recorded kernel is known: as long as it lives and its Target was not  *)
(* moved away from it, the row of its Execution names it, as a session     *)
(* that is not cleaned up, on a Target that is live.  A purge refuses      *)
(* while any row names a session on the Target.  Kernels that no Attempt   *)
(* recorded are nobody's: nothing is claimed of them.                      *)
(***************************************************************************)
EXTENDS RuntimeFleet, FiniteSetTheorems, SequenceTheorems, TLAPS

Cleanups == {"NOT_REQUIRED", "PENDING", "FAILED", "SUCCEEDED"}

Sessions == {None} \cup (Executions \X Nat)

Row ==
    [state : {"absent", "live", "purged"}, name : Names \cup {None},
     endpoint : Endpoints \cup {None}, pool : Pools \cup {None},
     credential : Keys \cup {None}, status : {"ACTIVE", "OFFLINE", "DRAINING"},
     enabled : BOOLEAN, max : Nat, verified : Endpoints \cup {None}]

Probe ==
    [pc : {"idle", "read"}, target : Targets \cup {None},
     endpoint : Endpoints \cup {None}, pool : Pools \cup {None},
     credential : Keys \cup {None}, healthy : BOOLEAN]

Exec ==
    [status : {"QUEUED", "RUNNING", "CANCEL_REQUESTED", "FAILED", "ENDED"},
     target : Targets \cup {None}, session : Sessions, cleanup : Cleanups,
     retained : {"none", "open", "lapsed"}, gaveUp : BOOLEAN]

Attempt ==
    [target : Targets \cup {None}, session : Sessions, cleanup : Cleanups,
     active : BOOLEAN]

\* The type invariant.
TypeOK ==
    /\ row \in [Targets -> Row]
    /\ probe \in [Probers -> Probe]
    /\ exec \in [Executions -> Exec]
    /\ attempts \in [Executions -> Seq(Attempt)]
    /\ claim \in [Executions -> [pc : {"idle", "chosen", "resume", "started"},
                                 target : Targets \cup {None}]]
    /\ kernels \subseteq [id : Executions \X Nat, at : Endpoints \cup {None}]

\* An ACTIVE Target was verified where it is.
ActiveIsVerified ==
    \A t \in Targets :
        row[t].status = "ACTIVE" => row[t].verified = row[t].endpoint

\* The last Attempt runs on the Target of the row.
LastRuns(x) ==
    Len(attempts[x]) > 0 /\ Last(x).active /\ Last(x).target = exec[x].target

\* An Attempt of this Execution recorded the session.
Recorded(x, id) == \E i \in 1 .. Len(attempts[x]) : attempts[x][i].session = id

\* The execution row, while it names a session, while it runs, and while it is
\* being cancelled.
ExecIsGood(x) ==
    /\ exec[x].session # None =>
         /\ exec[x].cleanup # "SUCCEEDED"
         /\ exec[x].target \in Targets /\ Live(exec[x].target)
         /\ Recorded(x, exec[x].session)
         /\ \E j \in 1 .. Len(attempts[x]) : exec[x].session = <<x, j>>
    /\ exec[x].status = "RUNNING" =>
         /\ exec[x].cleanup = "NOT_REQUIRED"
         /\ exec[x].target \in Targets /\ Live(exec[x].target)
         /\ LastRuns(x)
         /\ exec[x].session = None => Last(x).session = None
    /\ exec[x].status = "CANCEL_REQUESTED" /\ exec[x].session # None =>
         exec[x].gaveUp \/ LastRuns(x)
    /\ exec[x].retained # "none" => Len(attempts[x]) > 0
    /\ exec[x].retained = "lapsed" => exec[x].gaveUp

\* A claim under way: nobody else moves the row it has locked.  A session that
\* was started and not recorded belongs to a run, or to one being cancelled.
ClaimIsGood(x) ==
    /\ claim[x].pc \in {"chosen", "resume"} =>
         exec[x].status = "QUEUED" /\ claim[x].target \in Targets
    /\ claim[x].pc = "chosen" => exec[x].session = None
    /\ claim[x].pc = "resume" =>
         /\ exec[x].session # None /\ claim[x].target = exec[x].target
         /\ exec[x].retained # "none"
    /\ claim[x].pc = "started" =>
         /\ exec[x].status \in {"RUNNING", "CANCEL_REQUESTED"}
         /\ exec[x].session = None

\* A session is recorded for Attempts on one Target, and only the last Attempt
\* of a run is active.
AttemptsAreGood(x) ==
    \A i \in 1 .. Len(attempts[x]) :
        /\ attempts[x][i].session # None =>
             /\ \E j \in 1 .. i : attempts[x][i].session = <<x, j>>
             /\ attempts[x][i].session = exec[x].session =>
                  attempts[x][i].target = exec[x].target
        /\ attempts[x][i].active =>
             /\ i = Len(attempts[x])
             /\ exec[x].status \in {"RUNNING", "CANCEL_REQUESTED"}

\* The row names each recorded kernel whose Target has not moved away; ids are
\* used once; and the kernel of a run that has recorded none is where the run is.
KernelsAreKnown(x) ==
    \A k \in kernels :
        /\ k.id \notin stray /\ Recorded(x, k.id) =>
             exec[x].session = k.id /\ Server(x) = k.at
        /\ \A j \in Nat : k.id = <<x, j>> => j <= Len(attempts[x])
        /\ /\ exec[x].status = "RUNNING" /\ exec[x].session = None
           /\ k.id = NewSession(x)
           => claim[x].pc = "started" /\ (k.id \in stray \/ Server(x) = k.at)

WorkIsGood ==
    \A x \in Executions :
        ExecIsGood(x) /\ ClaimIsGood(x) /\ AttemptsAreGood(x) /\ KernelsAreKnown(x)

Inv == TypeOK /\ ActiveIsVerified /\ WorkIsGood

----------------------------------------------------------------------------
(* What a step of one Execution changes.                                   *)

ClaimRow ==
    [pc : {"idle", "chosen", "resume", "started"}, target : Targets \cup {None}]

Only(x) ==
    /\ exec' \in [Executions -> Exec] /\ attempts' \in [Executions -> Seq(Attempt)]
    /\ claim' \in [Executions -> ClaimRow]
    /\ \A y \in Executions \ {x} :
         exec'[y] = exec[y] /\ attempts'[y] = attempts[y] /\ claim'[y] = claim[y]

\* No Attempt becomes active, or moves.
SameAttempts(x) ==
    /\ Len(attempts'[x]) = Len(attempts[x])
    /\ \A i \in 1 .. Len(attempts[x]) :
         /\ attempts'[x][i].session = attempts[x][i].session
         /\ attempts'[x][i].target = attempts[x][i].target
         /\ attempts'[x][i].active => attempts[x][i].active

\* Nobody gets a slot.
NoneIsAdded == \A t \in Targets : Holders(t)' \subseteq Holders(t)

\* The Attempts of an Execution.
LEMMA AttemptsAre ==
    ASSUME TypeOK, NEW x \in Executions
    PROVE  /\ attempts[x] \in Seq(Attempt) /\ Len(attempts[x]) \in Nat
           /\ DOMAIN attempts[x] = 1 .. Len(attempts[x])
           /\ \A i \in 1 .. Len(attempts[x]) : attempts[x][i] \in Attempt
           /\ Len(attempts[x]) > 0 => Last(x) \in Attempt
<1>1. attempts[x] \in Seq(Attempt)
  BY DEF TypeOK
<1>2. /\ Len(attempts[x]) \in Nat /\ DOMAIN attempts[x] = 1 .. Len(attempts[x])
  BY <1>1, LenProperties
<1>3. \A i \in 1 .. Len(attempts[x]) : attempts[x][i] \in Attempt
  BY <1>1, ElementOfSeq
<1>4. Len(attempts[x]) > 0 => Len(attempts[x]) \in 1 .. Len(attempts[x])
  BY <1>2
<1> QED
  BY <1>1, <1>2, <1>3, <1>4 DEF Last

\* The last Attempt is written.
LEMMA SetLastIs ==
    ASSUME TypeOK, NEW x \in Executions, Len(attempts[x]) > 0,
           NEW a \in Attempt, SetLast(x, a)
    PROVE  /\ attempts' \in [Executions -> Seq(Attempt)]
           /\ \A y \in Executions \ {x} : attempts'[y] = attempts[y]
           /\ Len(attempts'[x]) = Len(attempts[x]) /\ Last(x)' = a
           /\ attempts'[x][Len(attempts[x])] = a
           /\ \A i \in 1 .. Len(attempts[x]) : i # Len(attempts[x]) =>
                attempts'[x][i] = attempts[x][i]
<1>1. attempts \in [Executions -> Seq(Attempt)] /\ attempts[x] \in Seq(Attempt)
  BY DEF TypeOK
<1>2. PICK l \in Nat : l = Len(attempts[x])
  BY <1>1, LenProperties
<1>3. l \in 1 .. l
  BY <1>2
<1>4. PICK s : s = [attempts[x] EXCEPT ![l] = a]
  OBVIOUS
<1>5. s \in Seq(Attempt) /\ Len(s) = l /\ s[l] = a /\ \A i \in 1 .. l : i # l => s[i] = attempts[x][i]
  BY <1>1, <1>2, <1>3, <1>4
<1>6. attempts' = [attempts EXCEPT ![x] = s]
  BY <1>2, <1>4 DEF SetLast
<1>7. /\ attempts' \in [Executions -> Seq(Attempt)] /\ attempts'[x] = s
      /\ \A y \in Executions \ {x} : attempts'[y] = attempts[y]
  BY <1>1, <1>5, <1>6
<1> QED
  BY <1>2, <1>5, <1>7 DEF Last

\* ... without a new session: the Attempts stay where they are.
LEMMA SetLastStays ==
    ASSUME TypeOK, NEW x \in Executions, Len(attempts[x]) > 0,
           NEW a \in Attempt, SetLast(x, a),
           a.session = Last(x).session, a.target = Last(x).target,
           a.active => Last(x).active
    PROVE  /\ attempts' \in [Executions -> Seq(Attempt)] /\ SameAttempts(x)
           /\ \A y \in Executions \ {x} : attempts'[y] = attempts[y]
<1>1. /\ attempts' \in [Executions -> Seq(Attempt)]
      /\ \A y \in Executions \ {x} : attempts'[y] = attempts[y]
      /\ Len(attempts'[x]) = Len(attempts[x])
      /\ attempts'[x][Len(attempts[x])] = a
      /\ \A i \in 1 .. Len(attempts[x]) : i # Len(attempts[x]) =>
           attempts'[x][i] = attempts[x][i]
  BY SetLastIs
<1>2. SameAttempts(x)
  BY <1>1 DEF SameAttempts, Last
<1> QED
  BY <1>1, <1>2

\* Kernels stay known.
LEMMA KernelsStay ==
    ASSUME TypeOK, NEW x \in Executions, KernelsAreKnown(x), UNCHANGED <<row, stray>>,
           kernels' \subseteq kernels,
           Len(attempts'[x]) \in Nat, Len(attempts'[x]) >= Len(attempts[x]),
           \A id \in Executions \X Nat : Recorded(x, id)' => Recorded(x, id),
           \/ exec'[x].session = exec[x].session /\ exec'[x].target = exec[x].target
           \/ exec[x].session = None
           \/ Kernel(x) \notin kernels',
           \/ exec'[x].status # "RUNNING"
           \/ exec'[x].session # None
           \/ Len(attempts'[x]) > Len(attempts[x])
    PROVE  KernelsAreKnown(x)'
<1> SUFFICES ASSUME NEW k \in kernels'
             PROVE  /\ k.id \notin stray /\ Recorded(x, k.id)' =>
                         exec'[x].session = k.id /\ Server(x)' = k.at
                    /\ \A j \in Nat : k.id = <<x, j>> => j <= Len(attempts'[x])
                    /\ ~(/\ exec'[x].status = "RUNNING" /\ exec'[x].session = None
                         /\ k.id = <<x, Len(attempts'[x])>>)
  BY DEF KernelsAreKnown, NewSession
<1>1. /\ k.id \notin stray /\ Recorded(x, k.id) =>
           exec[x].session = k.id /\ Server(x) = k.at
      /\ \A j \in Nat : k.id = <<x, j>> => j <= Len(attempts[x])
  BY DEF KernelsAreKnown
<1>2. k \in [id : Executions \X Nat, at : Endpoints \cup {None}] /\ Len(attempts[x]) \in Nat
  BY AttemptsAre DEF TypeOK
<1>3. ASSUME k.id \notin stray, Recorded(x, k.id)'
      PROVE  exec'[x].session = k.id /\ Server(x)' = k.at
  <2>1. exec[x].session = k.id /\ Server(x) = k.at
    BY <1>1, <1>2, <1>3
  <2>2. k.id # None
    BY <1>2, NoneAssumption
  <2>3. k = Kernel(x)
    BY <1>2, <2>1 DEF Kernel
  <2>4. exec'[x].session = exec[x].session /\ exec'[x].target = exec[x].target
    BY <2>1, <2>2, <2>3
  <2> QED
    BY <2>1, <2>4 DEF Server
<1>4. \A j \in Nat : k.id = <<x, j>> => j <= Len(attempts'[x])
  BY <1>1, <1>2
<1>5. Len(attempts'[x]) > Len(attempts[x]) => k.id # <<x, Len(attempts'[x])>>
  BY <1>1, <1>2
<1> QED
  BY <1>3, <1>4, <1>5

\* A step of one Execution keeps the invariant if it keeps that one's part.
LEMMA WorkKeeps ==
    ASSUME Inv, NEW x \in Executions, Only(x), UNCHANGED <<row, probe, stray>>,
           kernels' \subseteq [id : Executions \X Nat, at : Endpoints \cup {None}],
           \A k \in kernels' : k \in kernels \/ \E j \in Nat : k.id = <<x, j>>,
           KernelsAreKnown(x)', ExecIsGood(x)', ClaimIsGood(x)', AttemptsAreGood(x)'
    PROVE  Inv'
<1>1. TypeOK'
  BY DEF Inv, TypeOK, Only, ClaimRow
<1>2. ActiveIsVerified'
  BY DEF Inv, ActiveIsVerified
<1>3. ASSUME NEW y \in Executions, y # x
      PROVE  ExecIsGood(y)' /\ ClaimIsGood(y)' /\ AttemptsAreGood(y)' /\ KernelsAreKnown(y)'
  <2>1. exec'[y] = exec[y] /\ attempts'[y] = attempts[y] /\ claim'[y] = claim[y]
    BY <1>3 DEF Only
  <2>2. ExecIsGood(y) /\ ClaimIsGood(y) /\ AttemptsAreGood(y) /\ KernelsAreKnown(y)
    BY DEF Inv, WorkIsGood
  <2>3. ExecIsGood(y)'
    BY <2>1, <2>2 DEF ExecIsGood, Recorded, Live, LastRuns, Last
  <2>4. ClaimIsGood(y)'
    BY <2>1, <2>2 DEF ClaimIsGood
  <2>5. AttemptsAreGood(y)'
    BY <2>1, <2>2 DEF AttemptsAreGood
  <2>6. KernelsAreKnown(y)'
    <3>1. \A id : Recorded(y, id)' <=> Recorded(y, id)
      BY <2>1 DEF Recorded
    <3>2. Server(y)' = Server(y) /\ NewSession(y)' = NewSession(y)
      BY <2>1 DEF Server, NewSession
    <3>3. ASSUME NEW k \in kernels', NEW j \in Nat, k.id = <<x, j>>
          PROVE  /\ ~Recorded(y, k.id) /\ k.id # NewSession(y)
                 /\ \A n \in Nat : k.id # <<y, n>>
      <4>1. k.id # None
        BY <3>3, NoneAssumption
      <4>2. \A n : <<x, j>> # <<y, n>>
        BY <1>3
      <4>3. ~Recorded(y, k.id)
        BY <2>2, <3>3, <4>1, <4>2 DEF Recorded, AttemptsAreGood
      <4> QED
        BY <3>3, <4>2, <4>3 DEF NewSession
    <3> SUFFICES ASSUME NEW k \in kernels'
                 PROVE  /\ k.id \notin stray /\ Recorded(y, k.id) =>
                             exec[y].session = k.id /\ Server(y) = k.at
                        /\ \A j \in Nat : k.id = <<y, j>> => j <= Len(attempts[y])
                        /\ /\ exec[y].status = "RUNNING" /\ exec[y].session = None
                           /\ k.id = NewSession(y)
                           => claim[y].pc = "started" /\ (k.id \in stray \/ Server(y) = k.at)
      BY <2>1, <3>1, <3>2 DEF KernelsAreKnown
    <3>4. CASE k \in kernels
      BY <2>2, <3>4 DEF KernelsAreKnown
    <3>5. CASE \E j \in Nat : k.id = <<x, j>>
      BY <3>3, <3>5
    <3> QED
      BY <3>4, <3>5
  <2> QED
    BY <2>3, <2>4, <2>5, <2>6
<1>4. WorkIsGood'
  BY <1>3 DEF WorkIsGood
<1> QED
  BY <1>1, <1>2, <1>4 DEF Inv

\* Nobody gets a slot if this Execution does not.
LEMMA NotAdded ==
    ASSUME TypeOK, NEW x \in Executions, Only(x),
           \A t \in Targets :
              Reserves(x, t)' /\ ~exec'[x].gaveUp => Reserves(x, t) /\ ~exec[x].gaveUp
    PROVE  NoneIsAdded
<1> SUFFICES ASSUME NEW t \in Targets, NEW y \in Executions, Reserves(y, t)', ~exec'[y].gaveUp
             PROVE  Reserves(y, t) /\ ~exec[y].gaveUp
  BY DEF NoneIsAdded, Holders, Reservations
<1>1. CASE y # x
  <2>1. exec'[y] = exec[y] /\ attempts'[y] = attempts[y]
    BY <1>1 DEF Only
  <2> QED
    BY <2>1 DEF Reserves
<1> QED
  BY <1>1

\* A row that counts on its Target after this step.
Counts(x) ==
    /\ exec'[x].session # None
    /\ \/ exec'[x].status \in {"FAILED", "QUEUED"} /\ exec'[x].retained = "open"
       \/ exec'[x].cleanup \in {"PENDING", "FAILED"}

\* An Execution that does not run after this step.
LEMMA RestsKeeps ==
    ASSUME Inv, NEW x \in Executions, Only(x), UNCHANGED <<row, probe, stray>>,
           SameAttempts(x), ClaimIsGood(x)',
           exec'[x].status # "RUNNING",
           Len(attempts[x]) > 0 /\ Last(x)'.active => exec'[x].status = "CANCEL_REQUESTED",
           exec'[x].status = "CANCEL_REQUESTED" /\ exec'[x].session # None =>
              exec'[x].gaveUp \/ LastRuns(x)',
           exec'[x].session # None =>
              /\ exec'[x].session = exec[x].session /\ exec'[x].cleanup # "SUCCEEDED"
              /\ exec'[x].target = exec[x].target,
           kernels' \subseteq kernels,
           exec'[x].session = exec[x].session \/ Kernel(x) \notin kernels',
           exec'[x].retained # "none" => Len(attempts[x]) > 0,
           exec'[x].retained = "lapsed" => exec'[x].gaveUp,
           exec[x].gaveUp => exec'[x].gaveUp,
           Counts(x) /\ ~exec'[x].gaveUp => Reserves(x, exec[x].target)
    PROVE  Inv' /\ NoneIsAdded
<1>0. TypeOK /\ ExecIsGood(x) /\ AttemptsAreGood(x) /\ KernelsAreKnown(x)
  BY DEF Inv, WorkIsGood
<1>a. Len(attempts[x]) \in Nat /\ Len(attempts'[x]) = Len(attempts[x])
  BY <1>0, AttemptsAre DEF SameAttempts
<1>1. KernelsAreKnown(x)'
  <2>1. \A id \in Executions \X Nat : Recorded(x, id)' => Recorded(x, id)
    BY DEF Recorded, SameAttempts
  <2>2. \/ exec'[x].session = exec[x].session /\ exec'[x].target = exec[x].target
        \/ exec[x].session = None
        \/ Kernel(x) \notin kernels'
    OBVIOUS
  <2> QED
    BY <1>0, <1>a, <2>1, <2>2, KernelsStay
<1>2. kernels' \subseteq [id : Executions \X Nat, at : Endpoints \cup {None}]
  BY <1>0 DEF TypeOK
<1>b. Recorded(x, exec[x].session) => Recorded(x, exec[x].session)' \/ exec'[x].session = None
  <2> SUFFICES ASSUME NEW i \in 1 .. Len(attempts[x]), attempts[x][i].session = exec[x].session,
                      exec'[x].session # None
               PROVE  \E n \in 1 .. Len(attempts'[x]) : attempts'[x][n].session = exec'[x].session
    BY DEF Recorded
  <2> QED
    BY <1>a DEF SameAttempts
<1>3. ExecIsGood(x)'
  BY <1>0, <1>b DEF ExecIsGood, SameAttempts, Live
<1>4. AttemptsAreGood(x)'
  <2> SUFFICES ASSUME NEW i \in 1 .. Len(attempts[x])
               PROVE  /\ attempts'[x][i].session # None =>
                           /\ \E j \in 1 .. i : attempts'[x][i].session = <<x, j>>
                           /\ attempts'[x][i].session = exec'[x].session =>
                                attempts'[x][i].target = exec'[x].target
                      /\ attempts'[x][i].active =>
                           /\ i = Len(attempts[x])
                           /\ exec'[x].status \in {"RUNNING", "CANCEL_REQUESTED"}
    BY <1>a DEF AttemptsAreGood
  <2>1. /\ attempts[x][i].session # None =>
             /\ \E j \in 1 .. i : attempts[x][i].session = <<x, j>>
             /\ attempts[x][i].session = exec[x].session =>
                  attempts[x][i].target = exec[x].target
        /\ attempts[x][i].active => i = Len(attempts[x])
    BY <1>0 DEF AttemptsAreGood
  <2>2. /\ attempts'[x][i].session = attempts[x][i].session
        /\ attempts'[x][i].target = attempts[x][i].target
        /\ attempts'[x][i].active => attempts[x][i].active
    BY DEF SameAttempts
  <2>3. attempts'[x][i].active => Len(attempts[x]) > 0 /\ Last(x)'.active
    BY <1>a, <2>1, <2>2 DEF Last
  <2> QED
    BY <2>1, <2>2, <2>3
<1>5. Inv'
  BY <1>1, <1>2, <1>3, <1>4, WorkKeeps
<1>6. ASSUME NEW t \in Targets, Reserves(x, t)', ~exec'[x].gaveUp
      PROVE  Reserves(x, t) /\ ~exec[x].gaveUp
  <2>0. DOMAIN attempts[x] = 1 .. Len(attempts[x]) /\ DOMAIN attempts'[x] = 1 .. Len(attempts'[x])
    <3>1. attempts'[x] \in Seq(Attempt)
      BY DEF Only
    <3> QED
      BY <1>0, <3>1, AttemptsAre, LenProperties
  <2>1. CASE \E i \in DOMAIN attempts'[x] : attempts'[x][i].target = t /\ attempts'[x][i].active
    <3>1. \E i \in DOMAIN attempts[x] : attempts[x][i].target = t /\ attempts[x][i].active
      BY <2>0, <2>1 DEF SameAttempts
    <3> QED
      BY <1>6, <3>1 DEF Reserves
  <2>2. CASE exec'[x].target = t /\ Counts(x)
    <3>1. exec'[x].target = exec[x].target
      BY <2>2 DEF Counts
    <3> QED
      BY <1>6, <2>2, <3>1
  <2> QED
    BY <1>6, <2>1, <2>2 DEF Reserves, Counts
<1>7. NoneIsAdded
  BY <1>0, <1>6, NotAdded
<1> QED
  BY <1>5, <1>7

\* Holding a slot while it runs, and while a run is being cancelled.
LEMMA RunningReserves ==
    ASSUME Inv, NEW x \in Executions,
           \/ exec[x].status = "RUNNING"
           \/ exec[x].status = "CANCEL_REQUESTED" /\ exec[x].session # None /\ ~exec[x].gaveUp
    PROVE  Reserves(x, exec[x].target)
<1>1. TypeOK /\ LastRuns(x)
  BY DEF Inv, WorkIsGood, ExecIsGood
<1>2. Len(attempts[x]) \in DOMAIN attempts[x]
  BY <1>1, AttemptsAre DEF LastRuns
<1> QED
  BY <1>1, <1>2 DEF Reserves, Last, LastRuns

\* An Execution that neither runs nor is being cancelled has no active Attempt.
LEMMA RestingIsInactive ==
    ASSUME Inv, NEW x \in Executions, exec[x].status \notin {"RUNNING", "CANCEL_REQUESTED"}
    PROVE  \A i \in 1 .. Len(attempts[x]) : ~attempts[x][i].active
BY DEF Inv, WorkIsGood, AttemptsAreGood

----------------------------------------------------------------------------
(* The steps of one Execution.                                             *)

\* The execution row is written.
LEMMA ExecIs ==
    ASSUME TypeOK, NEW x \in Executions, NEW e \in Exec, exec' = [exec EXCEPT ![x] = e]
    PROVE  /\ exec' \in [Executions -> Exec] /\ exec'[x] = e
           /\ \A y \in Executions \ {x} : exec'[y] = exec[y]
BY DEF TypeOK

\* The claim is written.
LEMMA ClaimIs ==
    ASSUME TypeOK, NEW x \in Executions, NEW c \in ClaimRow, claim' = [claim EXCEPT ![x] = c]
    PROVE  /\ claim' \in [Executions -> ClaimRow] /\ claim'[x] = c
           /\ \A y \in Executions \ {x} : claim'[y] = claim[y]
BY DEF TypeOK, ClaimRow

\* A claim begins: the row is locked, the Target is not.
LEMMA ClaimBegins ==
    ASSUME Inv, NEW x \in Executions, ClaimSelect(x) \/ ResumeBegin(x)
    PROVE  Inv' /\ NoneIsAdded
<1>0. /\ TypeOK /\ ExecIsGood(x) /\ exec[x].status = "QUEUED" /\ exec[x] \in Exec
      /\ UNCHANGED <<row, probe, stray, exec, attempts, kernels>>
  BY DEF Inv, WorkIsGood, TypeOK, ClaimSelect, ResumeBegin, fleet
<1>1. PICK c \in ClaimRow :
        /\ claim' = [claim EXCEPT ![x] = c] /\ c.target \in Targets
        /\ \/ c.pc = "chosen" /\ exec[x].session = None
           \/ /\ c.pc = "resume" /\ c.target = exec[x].target
              /\ exec[x].session # None /\ exec[x].retained = "open"
  <2>1. CASE ClaimSelect(x)
    <3>1. PICK t \in UNION {Best(x, Targets, seen) : seen \in [Targets -> Observed]} :
            claim' = [claim EXCEPT ![x] = [pc |-> "chosen", target |-> t]]
      BY <2>1 DEF ClaimSelect
    <3>2. PICK seen \in [Targets -> Observed] : t \in Best(x, Targets, seen)
      BY <3>1
    <3>3. t \in Targets
      BY <3>2 DEF Best, Candidates
    <3>4. [pc |-> "chosen", target |-> t] \in ClaimRow
      BY <3>3 DEF ClaimRow
    <3> QED
      BY <2>1, <3>1, <3>3, <3>4 DEF ClaimSelect
  <2>2. CASE ResumeBegin(x)
    <3>1. exec[x].target \in Targets
      BY <1>0, <2>2 DEF ResumeBegin, ExecIsGood
    <3>2. [pc |-> "resume", target |-> exec[x].target] \in ClaimRow
      BY <3>1 DEF ClaimRow
    <3> QED
      BY <2>2, <3>1, <3>2 DEF ResumeBegin
  <2> QED
    BY <2>1, <2>2
<1>2. /\ claim' \in [Executions -> ClaimRow] /\ claim'[x] = c
      /\ \A y \in Executions \ {x} : claim'[y] = claim[y]
  BY <1>0, <1>1, ClaimIs
<1>3. Only(x)
  BY <1>0, <1>2 DEF Only, TypeOK
<1>4. ClaimIsGood(x)'
  BY <1>0, <1>1, <1>2 DEF ClaimIsGood
<1>5. SameAttempts(x)
  BY <1>0 DEF SameAttempts
<1>6. Counts(x) => Reserves(x, exec[x].target)
  BY <1>0 DEF Counts, Reserves
<1>7. /\ exec'[x] = exec[x] /\ kernels' \subseteq kernels
      /\ exec[x].session # None => exec[x].cleanup # "SUCCEEDED"
      /\ exec[x].retained # "none" => Len(attempts[x]) > 0
      /\ exec[x].retained = "lapsed" => exec[x].gaveUp
  BY <1>0 DEF ExecIsGood
<1>8. ~(Len(attempts[x]) > 0 /\ Last(x)'.active)
  BY <1>0, AttemptsAre, RestingIsInactive DEF Last
<1> QED
  BY <1>0, <1>3, <1>4, <1>5, <1>6, <1>7, <1>8, RestsKeeps

\* A run that goes on.
LEMMA RunsKeeps ==
    ASSUME Inv, NEW x \in Executions, Only(x), UNCHANGED <<row, probe, stray>>,
           kernels' \subseteq [id : Executions \X Nat, at : Endpoints \cup {None}],
           \A k \in kernels' : k \in kernels \/ \E j \in Nat : k.id = <<x, j>>,
           KernelsAreKnown(x)', AttemptsAreGood(x)', ClaimIsGood(x)',
           exec'[x].status = "RUNNING", exec'[x].cleanup = "NOT_REQUIRED",
           exec'[x].target \in Targets, Live(exec'[x].target),
           Len(attempts'[x]) > 0, Last(x)'.active, Last(x)'.target = exec'[x].target,
           exec'[x].session = None => Last(x)'.session = None,
           exec'[x].session # None =>
              /\ Recorded(x, exec[x].session)'
              /\ \E j \in 1 .. Len(attempts'[x]) : exec'[x].session = <<x, j>>,
           exec'[x].retained = "lapsed" => exec'[x].gaveUp
    PROVE  Inv'
<1>1. Live(exec[x].target)'
  BY DEF Live
<1>2. ExecIsGood(x)'
  BY <1>1 DEF ExecIsGood, LastRuns
<1> QED
  BY <1>2, WorkKeeps

\* The claim that reserves a slot: a new Attempt on a live Target.
LEMMA RunKeeps ==
    ASSUME Inv, NEW x \in Executions, NEW t \in Targets, Live(t), Run(x, t),
           claim' = [claim EXCEPT ![x] = Idle], UNCHANGED <<row, probe, stray, kernels>>,
           exec[x].status = "QUEUED", exec[x].session = None \/ t = exec[x].target
    PROVE  /\ Inv' /\ Only(x)
           /\ exec[x].session # None => exec'[x].gaveUp = exec[x].gaveUp
           /\ \A u \in Targets : Reserves(x, u)' => u = t
<1>0. /\ TypeOK /\ ExecIsGood(x) /\ AttemptsAreGood(x) /\ KernelsAreKnown(x) /\ exec[x] \in Exec
  BY DEF Inv, WorkIsGood, TypeOK
<1>1. Idle \in ClaimRow /\ Idle.pc = "idle"
  BY DEF Idle, ClaimRow
<1>2. /\ claim' \in [Executions -> ClaimRow] /\ claim'[x] = Idle
      /\ \A y \in Executions \ {x} : claim'[y] = claim[y]
  BY <1>0, <1>1, ClaimIs
<1>a. PICK r \in {"none", "open", "lapsed"} :
        /\ r = IF exec[x].session = None THEN "none" ELSE exec[x].retained
        /\ r = "lapsed" => exec[x].retained = "lapsed" /\ exec[x].session # None
  BY <1>0 DEF Exec
<1>b. PICK g \in BOOLEAN :
        /\ g = (exec[x].gaveUp /\ exec[x].session # None)
        /\ exec[x].session # None => g = exec[x].gaveUp
  BY <1>0 DEF Exec
<1>3. PICK e : e = [exec[x] EXCEPT !.status = "RUNNING", !.target = t,
                                   !.cleanup = "NOT_REQUIRED", !.retained = r,
                                   !.gaveUp = g]
  OBVIOUS
<1>4. /\ e \in Exec /\ e.status = "RUNNING" /\ e.target = t /\ e.cleanup = "NOT_REQUIRED"
      /\ e.session = exec[x].session /\ e.gaveUp = g /\ e.retained = r
  BY <1>0, <1>a, <1>b, <1>3 DEF Exec, Cleanups
<1>5. exec' = [exec EXCEPT ![x] = e]
  BY <1>0, <1>a, <1>b, <1>3 DEF Run, TypeOK
<1>6. /\ exec' \in [Executions -> Exec] /\ exec'[x] = e
      /\ \A y \in Executions \ {x} : exec'[y] = exec[y]
  BY <1>0, <1>4, <1>5, ExecIs
<1>7. PICK l \in Nat : l = Len(attempts[x])
  BY <1>0, AttemptsAre
<1>8. PICK a \in Attempt : a = NewAttempt(t) /\ a.session = None /\ a.target = t /\ a.active
  <2>1. NewAttempt(t) \in Attempt
    <3>1. None \in Sessions /\ "NOT_REQUIRED" \in Cleanups
      BY DEF Sessions, Cleanups
    <3> QED
      BY <3>1 DEF NewAttempt, Attempt
  <2>2. NewAttempt(t).session = None /\ NewAttempt(t).target = t /\ NewAttempt(t).active
    BY DEF NewAttempt
  <2> QED
    BY <2>1, <2>2
<1>9. PICK s \in Seq(Attempt) :
        /\ s = Append(attempts[x], a) /\ Len(s) = l + 1 /\ s[l + 1] = a
        /\ \A i \in 1 .. l : s[i] = attempts[x][i]
  <2>1. attempts[x] \in Seq(Attempt)
    BY <1>0, AttemptsAre
  <2>2. PICK s : s = Append(attempts[x], a)
    OBVIOUS
  <2>3. s \in Seq(Attempt) /\ Len(s) = l + 1 /\ s[l + 1] = a
    BY <1>7, <1>8, <2>1, <2>2, AppendProperties
  <2>4. \A i \in 1 .. l : s[i] = attempts[x][i]
    BY <1>7, <1>8, <2>1, <2>2, AppendProperties
  <2> QED
    BY <2>2, <2>3, <2>4
<1>10. /\ attempts' \in [Executions -> Seq(Attempt)] /\ attempts'[x] = s
       /\ \A y \in Executions \ {x} : attempts'[y] = attempts[y]
  BY <1>0, <1>8, <1>9 DEF Run, TypeOK
<1>11. Only(x)
  BY <1>2, <1>6, <1>10 DEF Only
<1>c. \A i \in 1 .. l : ~s[i].active
  BY <1>7, <1>9, RestingIsInactive
<1>12. AttemptsAreGood(x)'
  <2> SUFFICES ASSUME NEW i \in 1 .. l + 1
               PROVE  /\ s[i].session # None =>
                           /\ \E j \in 1 .. i : s[i].session = <<x, j>>
                           /\ s[i].session = e.session => s[i].target = e.target
                      /\ s[i].active => i = l + 1
    <3>1. /\ attempts'[x] = s /\ Len(s) = l + 1 /\ exec'[x] = e
          /\ e.status \in {"RUNNING", "CANCEL_REQUESTED"}
      BY <1>4, <1>6, <1>9, <1>10
    <3> QED
      BY <3>1, Zenon DEF AttemptsAreGood
  <2>1. CASE i = l + 1
    BY <1>8, <1>9, <2>1
  <2>2. CASE i \in 1 .. l
    <3>1. attempts[x][i].session # None =>
            /\ \E j \in 1 .. i : attempts[x][i].session = <<x, j>>
            /\ attempts[x][i].session = exec[x].session => attempts[x][i].target = exec[x].target
      BY <1>0, <1>7, <2>2 DEF AttemptsAreGood
    <3> QED
      BY <1>4, <1>9, <1>c, <2>2, <3>1
  <2> QED
    BY <1>7, <2>1, <2>2
<1>13. KernelsAreKnown(x)'
  <2>1. \A id \in Executions \X Nat : Recorded(x, id)' => Recorded(x, id)
    <3> SUFFICES ASSUME NEW id \in Executions \X Nat, NEW i \in 1 .. l + 1, s[i].session = id
                 PROVE  \E n \in 1 .. l : attempts[x][n].session = id
      BY <1>7, <1>9, <1>10 DEF Recorded
    <3>1. id # None
      BY NoneAssumption
    <3>2. i \in 1 .. l
      BY <1>7, <1>8, <1>9, <3>1
    <3> QED
      BY <1>9, <3>2
  <2>2. Len(attempts'[x]) \in Nat /\ Len(attempts'[x]) > Len(attempts[x])
    BY <1>7, <1>9, <1>10
  <2>3. \/ exec'[x].session = exec[x].session /\ exec'[x].target = exec[x].target
        \/ exec[x].session = None
    BY <1>4, <1>6
  <2> QED
    BY <1>0, <1>7, <2>1, <2>2, <2>3, KernelsStay
<1>14. /\ Len(attempts'[x]) > 0 /\ Last(x)' = a
  BY <1>7, <1>9, <1>10 DEF Last
<1>15. exec'[x].session # None =>
         /\ Recorded(x, exec[x].session)'
         /\ \E j \in 1 .. Len(attempts'[x]) : exec'[x].session = <<x, j>>
  <2> SUFFICES ASSUME exec[x].session # None
               PROVE  /\ \E j \in 1 .. l + 1 : s[j].session = exec[x].session
                      /\ \E j \in 1 .. l + 1 : exec[x].session = <<x, j>>
    BY <1>4, <1>6, <1>9, <1>10 DEF Recorded
  <2>1. PICK j \in 1 .. l : exec[x].session = <<x, j>>
    BY <1>0, <1>7 DEF ExecIsGood
  <2>2. PICK i \in 1 .. l : attempts[x][i].session = exec[x].session
    BY <1>0, <1>7 DEF ExecIsGood, Recorded
  <2>3. i \in 1 .. l + 1 /\ j \in 1 .. l + 1 /\ s[i].session = exec[x].session
    BY <1>7, <1>9, <2>1, <2>2
  <2> QED
    BY <2>1, <2>3
<1>16. Inv'
  <2>1. /\ exec'[x].status = "RUNNING" /\ exec'[x].cleanup = "NOT_REQUIRED"
        /\ exec'[x].target \in Targets /\ Live(exec'[x].target)
        /\ Last(x)'.active /\ Last(x)'.target = exec'[x].target
        /\ Last(x)'.session = None
    BY <1>4, <1>6, <1>8, <1>14
  <2>2. kernels' \subseteq [id : Executions \X Nat, at : Endpoints \cup {None}]
    BY <1>0 DEF TypeOK
  <2>3. exec'[x].retained = "lapsed" => exec'[x].gaveUp
    BY <1>0, <1>a, <1>b, <1>4, <1>6 DEF ExecIsGood
  <2>4. ClaimIsGood(x)'
    BY <1>1, <1>2 DEF ClaimIsGood
  <2>5. \A k \in kernels' : k \in kernels
    OBVIOUS
  <2> QED
    BY <1>11, <1>12, <1>13, <1>14, <1>15, <2>1, <2>2, <2>3, <2>4, <2>5, RunsKeeps
<1>17. ASSUME NEW u \in Targets, Reserves(x, u)', u # t PROVE FALSE
  <2>0. DOMAIN s = 1 .. l + 1 /\ DOMAIN attempts[x] = 1 .. l
    BY <1>0, <1>7, <1>9, AttemptsAre, LenProperties
  <2>1. PICK i \in 1 .. l + 1 : s[i].target = u /\ s[i].active
    BY <1>4, <1>6, <1>10, <1>17, <2>0 DEF Reserves
  <2>2. i \in 1 .. l
    BY <1>7, <1>8, <1>9, <1>17, <2>1
  <2> QED
    BY <1>c, <2>1, <2>2
<1> QED
  BY <1>b, <1>4, <1>6, <1>11, <1>16, <1>17

\* What a claim does when it has locked its Target.
LEMMA ClaimCommits ==
    ASSUME Inv, NEW x \in Executions, ClaimCommit(x)
    PROVE  /\ Inv'
           /\ \/ NoneIsAdded
              \/ \E t \in Targets :
                   /\ Cardinality(Reservations(t)) < row[t].max /\ Only(x)
                   /\ \A u \in Targets : Reserves(x, u)' => u = t
<1>0. /\ TypeOK /\ ExecIsGood(x) /\ ClaimIsGood(x) /\ claim[x].pc = "chosen"
      /\ claim' = [claim EXCEPT ![x] = Idle]
      /\ UNCHANGED <<row, probe, stray, kernels>>
  BY DEF Inv, WorkIsGood, ClaimCommit, fleet
<1>1. PICK t \in Targets : t = claim[x].target
  BY <1>0 DEF ClaimIsGood
<1>a. PICK still \in {StillBest(x, t, seen) : seen \in [Targets -> Observed]} :
         IF still THEN Run(x, t) ELSE UNCHANGED <<exec, attempts>>
  BY <1>1 DEF ClaimCommit
<1>2. PICK seen \in [Targets -> Observed] :
         (StillBest(x, t, seen) /\ Run(x, t)) \/ UNCHANGED <<exec, attempts>>
  BY <1>a
<1>3. CASE StillBest(x, t, seen) /\ Run(x, t)
  <2>1. t \in Candidates(x, {t}, seen)
    BY <1>3 DEF StillBest, Best
  <2>2. Live(t) /\ AdmissionUsed(t, seen) < row[t].max
    BY <2>1 DEF Candidates, Eligible
  <2>3. Cardinality(Reservations(t)) < row[t].max
    <3>1. IsFiniteSet(Reservations(t))
      BY ExecutionsAssumption, FS_Subset DEF Reservations
    <3>2. PICK c \in Nat : c = Cardinality(Reservations(t))
      BY <3>1, FS_CardinalityType
    <3>3. seen[t] \in Observed /\ row[t].max \in Nat
      BY <1>0 DEF TypeOK, Row
    <3>4. CASE seen[t].sessions = None
      BY <2>2, <3>4 DEF AdmissionUsed
    <3>5. CASE seen[t].sessions # None
      <4>1. PICK n \in Nat : n = seen[t].sessions
        BY <3>3, <3>5, ObservedAssumption
      <4>2. Max({n, c}) \in Nat /\ Max({n, c}) >= c
        <5>1. \E m \in {n, c} : \A k \in {n, c} : m >= k
          BY <3>2, <4>1
        <5> QED
          BY <3>2, <4>1, <5>1 DEF Max
      <4>3. Max({n, c}) < row[t].max
        BY <2>2, <3>2, <3>5, <4>1 DEF AdmissionUsed
      <4> QED
        BY <3>2, <3>3, <4>2, <4>3
    <3> QED
      BY <3>4, <3>5
  <2>4. exec[x].session = None /\ exec[x].status = "QUEUED"
    BY <1>0 DEF ClaimIsGood
  <2> QED
    BY <1>0, <1>3, <2>2, <2>3, <2>4, RunKeeps
<1>4. CASE UNCHANGED <<exec, attempts>>
  <2>1. Idle \in ClaimRow /\ Idle.pc = "idle"
    BY DEF Idle, ClaimRow
  <2>2. /\ claim' \in [Executions -> ClaimRow] /\ claim'[x] = Idle
        /\ \A y \in Executions \ {x} : claim'[y] = claim[y]
    BY <1>0, <2>1, ClaimIs
  <2>3. Only(x)
    BY <1>0, <1>4, <2>2 DEF Only, TypeOK
  <2>4. ClaimIsGood(x)' /\ SameAttempts(x)
    BY <1>4, <2>1, <2>2 DEF ClaimIsGood, SameAttempts
  <2>5. /\ exec'[x] = exec[x] /\ exec[x].status = "QUEUED"
        /\ exec[x].session # None => exec[x].cleanup # "SUCCEEDED"
        /\ exec[x].retained # "none" => Len(attempts[x]) > 0
        /\ exec[x].retained = "lapsed" => exec[x].gaveUp
    BY <1>0, <1>4 DEF ExecIsGood, ClaimIsGood
  <2>6. Counts(x) => Reserves(x, exec[x].target)
    BY <1>4 DEF Counts, Reserves
  <2>7. ~(Len(attempts[x]) > 0 /\ Last(x)'.active)
    BY <1>0, <1>4, <2>5, AttemptsAre, RestingIsInactive DEF Last
  <2> QED
    BY <1>0, <2>3, <2>4, <2>5, <2>6, <2>7, RestsKeeps
<1> QED
  BY <1>2, <1>3, <1>4

\* A retained session is taken up again, or given up.
LEMMA ResumeCommits ==
    ASSUME Inv, NEW x \in Executions, ResumeCommit(x)
    PROVE  Inv' /\ NoneIsAdded
<1>0. /\ TypeOK /\ ExecIsGood(x) /\ ClaimIsGood(x) /\ claim[x].pc = "resume"
      /\ exec[x] \in Exec /\ claim' = [claim EXCEPT ![x] = Idle]
      /\ UNCHANGED <<row, probe, stray, kernels>>
  BY DEF Inv, WorkIsGood, ResumeCommit, fleet, TypeOK
<1>1. /\ exec[x].status = "QUEUED" /\ exec[x].session # None /\ exec[x].retained # "none"
      /\ exec[x].target \in Targets /\ claim[x].target = exec[x].target
  BY <1>0 DEF ClaimIsGood
<1>2. /\ Idle \in ClaimRow /\ Idle.pc = "idle"
      /\ claim' \in [Executions -> ClaimRow] /\ claim'[x] = Idle
      /\ \A y \in Executions \ {x} : claim'[y] = claim[y]
  <2>1. Idle \in ClaimRow /\ Idle.pc = "idle"
    BY DEF Idle, ClaimRow
  <2> QED
    BY <1>0, <2>1, ClaimIs
<1>3. exec[x].retained = "open" => Reserves(x, exec[x].target)
  BY <1>1 DEF Reserves
<1>4. exec[x].retained = "open" \/ exec[x].gaveUp
  BY <1>0, <1>1 DEF ExecIsGood, Exec
<1>a. UNCHANGED attempts => ~(Len(attempts[x]) > 0 /\ Last(x)'.active)
  BY <1>0, <1>1, AttemptsAre, RestingIsInactive DEF Last
<1>5. CASE /\ exec' = [exec EXCEPT ![x].status = "FAILED", ![x].retained = "none",
                                   ![x].cleanup = "FAILED"]
           /\ UNCHANGED attempts
  <2>1. PICK e : e = [exec[x] EXCEPT !.status = "FAILED", !.retained = "none",
                                     !.cleanup = "FAILED"]
    OBVIOUS
  <2>2. /\ e \in Exec /\ e.status = "FAILED" /\ e.retained = "none" /\ e.cleanup = "FAILED"
        /\ e.target = exec[x].target /\ e.session = exec[x].session
        /\ e.gaveUp = exec[x].gaveUp
    BY <1>0, <2>1 DEF Exec, Cleanups
  <2>3. exec' = [exec EXCEPT ![x] = e]
    BY <1>0, <1>5, <2>1 DEF TypeOK
  <2>4. /\ exec' \in [Executions -> Exec] /\ exec'[x] = e
        /\ \A y \in Executions \ {x} : exec'[y] = exec[y]
    BY <1>0, <2>2, <2>3, ExecIs
  <2>5. Only(x) /\ SameAttempts(x) /\ ClaimIsGood(x)'
    BY <1>0, <1>2, <1>5, <2>4 DEF Only, TypeOK, SameAttempts, ClaimIsGood
  <2> QED
    BY <1>0, <1>3, <1>4, <1>5, <1>a, <2>2, <2>4, <2>5, RestsKeeps
<1>6. CASE UNCHANGED <<exec, attempts>>
  <2>1. Only(x) /\ SameAttempts(x) /\ ClaimIsGood(x)'
    BY <1>0, <1>2, <1>6 DEF Only, TypeOK, SameAttempts, ClaimIsGood
  <2>2. /\ exec'[x] = exec[x]
        /\ exec[x].session # None => exec[x].cleanup # "SUCCEEDED"
        /\ exec[x].retained # "none" => Len(attempts[x]) > 0
        /\ exec[x].retained = "lapsed" => exec[x].gaveUp
    BY <1>0, <1>6 DEF ExecIsGood
  <2>3. Counts(x) => Reserves(x, exec[x].target)
    BY <1>6 DEF Counts, Reserves
  <2> QED
    BY <1>0, <1>1, <1>6, <1>a, <2>1, <2>2, <2>3, RestsKeeps
<1>7. CASE Live(exec[x].target) /\ Run(x, exec[x].target)
  <2>1. /\ Inv' /\ Only(x) /\ exec'[x].gaveUp = exec[x].gaveUp
        /\ \A u \in Targets : Reserves(x, u)' => u = exec[x].target
    BY <1>0, <1>1, <1>7, RunKeeps
  <2> QED
    BY <1>0, <1>3, <1>4, <2>1, NotAdded
<1> QED
  BY <1>1, <1>5, <1>6, <1>7 DEF ResumeCommit

\* A run records its session: the Attempts that reserve a slot are the same.
LEMMA RecordsReserves ==
    ASSUME Inv, NEW x \in Executions, Only(x), Len(attempts'[x]) = Len(attempts[x]),
           \A i \in 1 .. Len(attempts[x]) :
              /\ attempts'[x][i].target = attempts[x][i].target
              /\ attempts'[x][i].active => attempts[x][i].active,
           exec'[x].status = "RUNNING", exec'[x].cleanup = "NOT_REQUIRED",
           exec'[x].gaveUp = exec[x].gaveUp
    PROVE  NoneIsAdded
<1>0. TypeOK
  BY DEF Inv
<1>1. DOMAIN attempts[x] = 1 .. Len(attempts[x]) /\ DOMAIN attempts'[x] = 1 .. Len(attempts'[x])
  <2>1. attempts'[x] \in Seq(Attempt)
    BY DEF Only
  <2> QED
    BY <1>0, <2>1, AttemptsAre, LenProperties
<1>2. ASSUME NEW t \in Targets, Reserves(x, t)'
      PROVE  Reserves(x, t)
  BY <1>1, <1>2 DEF Reserves
<1> QED
  BY <1>0, <1>2, NotAdded

\* A new session: only the Worker knows its kernel.
LEMMA SessionStarts ==
    ASSUME Inv, NEW x \in Executions, StartSession(x)
    PROVE  Inv' /\ NoneIsAdded
<1>0. /\ TypeOK /\ ExecIsGood(x) /\ AttemptsAreGood(x) /\ KernelsAreKnown(x)
      /\ exec[x].status = "RUNNING" /\ exec[x].session = None /\ claim[x].pc = "idle"
      /\ kernels' = kernels \cup {NewKernel(x)}
      /\ claim' = [claim EXCEPT ![x].pc = "started"]
      /\ UNCHANGED <<row, probe, exec, attempts, stray>>
  BY DEF Inv, WorkIsGood, StartSession, fleet
<1>1. /\ exec[x].target \in Targets /\ Live(exec[x].target) /\ LastRuns(x)
      /\ exec[x].cleanup = "NOT_REQUIRED"
      /\ exec[x].retained = "lapsed" => exec[x].gaveUp
  BY <1>0 DEF ExecIsGood
<1>2. PICK l \in Nat : l = Len(attempts[x]) /\ l > 0
  BY <1>0, <1>1, AttemptsAre DEF LastRuns
<1>3. PICK n : n = NewKernel(x)
  OBVIOUS
<1>4. /\ n \in [id : Executions \X Nat, at : Endpoints \cup {None}]
      /\ n.id = <<x, l>> /\ n.at = Server(x) /\ n.id = NewSession(x)
  BY <1>0, <1>1, <1>2, <1>3 DEF NewKernel, NewSession, Server, TypeOK, Row
<1>5. PICK c \in ClaimRow : c.pc = "started" /\ claim' = [claim EXCEPT ![x] = c]
  <2>1. claim[x] \in ClaimRow
    BY <1>0 DEF TypeOK, ClaimRow
  <2>2. PICK c : c = [claim[x] EXCEPT !.pc = "started"]
    OBVIOUS
  <2>3. c \in ClaimRow /\ c.pc = "started"
    BY <2>1, <2>2 DEF ClaimRow
  <2>4. claim' = [claim EXCEPT ![x] = c]
    BY <1>0, <2>2 DEF TypeOK
  <2> QED
    BY <2>3, <2>4
<1>6. /\ claim' \in [Executions -> ClaimRow] /\ claim'[x] = c
      /\ \A y \in Executions \ {x} : claim'[y] = claim[y]
  BY <1>0, <1>5, ClaimIs
<1>7. Only(x)
  BY <1>0, <1>6 DEF Only, TypeOK
<1>8. ClaimIsGood(x)'
  BY <1>0, <1>5, <1>6 DEF ClaimIsGood
<1>9. AttemptsAreGood(x)'
  BY <1>0 DEF AttemptsAreGood
<1>10. KernelsAreKnown(x)'
  <2>1. /\ Server(x)' = Server(x) /\ NewSession(x)' = NewSession(x)
        /\ \A id : Recorded(x, id)' <=> Recorded(x, id)
    BY <1>0 DEF Server, NewSession, Recorded
  <2>2. ~Recorded(x, n.id)
    <3> SUFFICES ASSUME NEW i \in 1 .. l, attempts[x][i].session = <<x, l>> PROVE FALSE
      BY <1>2, <1>4 DEF Recorded
    <3>1. <<x, l>> # None
      BY NoneAssumption
    <3>2. PICK j \in 1 .. i : attempts[x][i].session = <<x, j>>
      BY <1>0, <1>2, <3>1 DEF AttemptsAreGood
    <3>3. i = l /\ j = l
      BY <1>2, <3>2
    <3>4. attempts[x][l].session = None
      BY <1>0, <1>2 DEF ExecIsGood, Last
    <3> QED
      BY <3>1, <3>3, <3>4
  <2> SUFFICES ASSUME NEW k \in kernels'
               PROVE  /\ k.id \notin stray /\ Recorded(x, k.id) =>
                           exec[x].session = k.id /\ Server(x) = k.at
                      /\ \A j \in Nat : k.id = <<x, j>> => j <= Len(attempts[x])
                      /\ k.id = NewSession(x) => k.id \in stray \/ Server(x) = k.at
    BY <1>0, <1>5, <1>6, <2>1 DEF KernelsAreKnown
  <2>3. CASE k \in kernels
    BY <1>0, <2>3 DEF KernelsAreKnown
  <2>4. CASE k = n
    BY <1>2, <1>4, <2>2, <2>4
  <2> QED
    BY <1>0, <1>3, <2>3, <2>4
<1>11. kernels' \subseteq [id : Executions \X Nat, at : Endpoints \cup {None}]
  BY <1>0, <1>3, <1>4 DEF TypeOK
<1>12. \A k \in kernels' : k \in kernels \/ \E j \in Nat : k.id = <<x, j>>
  BY <1>0, <1>3, <1>4
<1>13. ExecIsGood(x)'
  BY <1>0, <1>1 DEF ExecIsGood, Recorded, LastRuns, Last, Live
<1>14. Inv'
  BY <1>0, <1>7, <1>8, <1>9, <1>10, <1>11, <1>12, <1>13, WorkKeeps
<1>15. NoneIsAdded
  BY <1>0 DEF NoneIsAdded, Holders, Reservations, Reserves
<1> QED
  BY <1>14, <1>15

\* A run records its session: its kernel is known by the row from now on.
LEMMA SessionIsRecorded ==
    ASSUME Inv, NEW x \in Executions, RecordSession(x)
    PROVE  Inv' /\ NoneIsAdded
<1>0. /\ TypeOK /\ ExecIsGood(x) /\ ClaimIsGood(x) /\ AttemptsAreGood(x)
      /\ KernelsAreKnown(x) /\ exec[x] \in Exec
      /\ exec[x].status = "RUNNING" /\ exec[x].session = None
      /\ claim' = [claim EXCEPT ![x] = Idle]
      /\ UNCHANGED <<row, probe, kernels, stray>>
  BY DEF Inv, WorkIsGood, RecordSession, ClaimIsGood, fleet, TypeOK
<1>1. /\ exec[x].target \in Targets /\ Live(exec[x].target) /\ Len(attempts[x]) > 0
      /\ Last(x) \in Attempt /\ Last(x).active /\ Last(x).target = exec[x].target
      /\ exec[x].cleanup = "NOT_REQUIRED"
      /\ exec[x].retained = "lapsed" => exec[x].gaveUp
  BY <1>0, AttemptsAre DEF ExecIsGood, LastRuns
<1>2. PICK l \in Nat : l = Len(attempts[x]) /\ l > 0
  BY <1>0, <1>1, AttemptsAre
<1>3. PICK id \in Sessions : id = <<x, l>> /\ id \in Executions \X Nat /\ id # None
  <2>1. <<x, l>> \in Executions \X Nat
    OBVIOUS
  <2> QED
    BY <2>1, NoneAssumption DEF Sessions
<1>a. PICK a : a = [Last(x) EXCEPT !.session = id]
  OBVIOUS
<1>4. a \in Attempt /\ a.session = id /\ a.target = Last(x).target /\ a.active
  BY <1>1, <1>a DEF Attempt
<1>e. PICK e : e = [exec[x] EXCEPT !.session = id]
  OBVIOUS
<1>5. /\ e \in Exec /\ e.session = id
      /\ e.target = exec[x].target /\ e.status = "RUNNING"
      /\ e.cleanup = "NOT_REQUIRED" /\ e.retained = exec[x].retained
      /\ e.gaveUp = exec[x].gaveUp
  BY <1>0, <1>1, <1>e DEF Exec
<1>6. exec' = [exec EXCEPT ![x] = e] /\ SetLast(x, a) /\ id = NewSession(x)
  BY <1>0, <1>2, <1>3, <1>a, <1>e DEF RecordSession, NewSession, TypeOK
<1>7. /\ exec' \in [Executions -> Exec] /\ exec'[x] = e
      /\ \A y \in Executions \ {x} : exec'[y] = exec[y]
  BY <1>0, <1>5, <1>6, ExecIs
<1>8. /\ attempts' \in [Executions -> Seq(Attempt)]
      /\ \A y \in Executions \ {x} : attempts'[y] = attempts[y]
      /\ Len(attempts'[x]) = l /\ Last(x)' = a /\ attempts'[x][l] = a
      /\ \A i \in 1 .. l : i # l => attempts'[x][i] = attempts[x][i]
  BY <1>0, <1>1, <1>2, <1>4, <1>6, SetLastIs
<1>b. /\ Idle.pc = "idle" /\ claim' \in [Executions -> ClaimRow] /\ claim'[x] = Idle
      /\ \A y \in Executions \ {x} : claim'[y] = claim[y]
  <2>1. Idle \in ClaimRow /\ Idle.pc = "idle"
    BY DEF Idle, ClaimRow
  <2> QED
    BY <1>0, <2>1, ClaimIs
<1>9. Only(x)
  BY <1>7, <1>8, <1>b DEF Only
<1>10. AttemptsAreGood(x)'
  <2> SUFFICES ASSUME NEW i \in 1 .. l
               PROVE  /\ attempts'[x][i].session # None =>
                           /\ \E j \in 1 .. i : attempts'[x][i].session = <<x, j>>
                           /\ attempts'[x][i].session = id => attempts'[x][i].target = e.target
                      /\ attempts'[x][i].active => i = l
    BY <1>5, <1>7, <1>8 DEF AttemptsAreGood
  <2>1. CASE i = l
    BY <1>1, <1>2, <1>3, <1>4, <1>5, <1>8, <2>1
  <2>2. CASE i # l
    <3>1. attempts'[x][i] = attempts[x][i]
      BY <1>8, <2>2
    <3>2. /\ attempts[x][i].session # None => \E j \in 1 .. i : attempts[x][i].session = <<x, j>>
          /\ ~attempts[x][i].active
      BY <1>0, <1>2, <2>2 DEF AttemptsAreGood
    <3>3. \A j \in 1 .. i : <<x, j>> # id
      BY <1>2, <1>3, <2>2
    <3> QED
      BY <3>1, <3>2, <3>3
  <2> QED
    BY <2>1, <2>2
<1>11. Server(x)' = Server(x)
  BY <1>0, <1>5, <1>7 DEF Server
<1>12. kernels' \subseteq [id : Executions \X Nat, at : Endpoints \cup {None}]
  BY <1>0 DEF TypeOK
<1>13. KernelsAreKnown(x)'
  <2> SUFFICES ASSUME NEW k \in kernels
               PROVE  /\ k.id \notin stray /\ Recorded(x, k.id)' =>
                           id = k.id /\ Server(x) = k.at
                      /\ \A j \in Nat : k.id = <<x, j>> => j <= l
    BY <1>0, <1>3, <1>5, <1>7, <1>8, <1>11 DEF KernelsAreKnown
  <2>0. k.id # None
    BY <1>0, NoneAssumption DEF TypeOK
  <2>1. /\ k.id \notin stray => ~Recorded(x, k.id)
        /\ \A j \in Nat : k.id = <<x, j>> => j <= l
        /\ k.id = id => k.id \in stray \/ Server(x) = k.at
    BY <1>0, <1>2, <1>6, <2>0 DEF KernelsAreKnown
  <2>2. Recorded(x, k.id)' => Recorded(x, k.id) \/ k.id = id
    <3> SUFFICES ASSUME NEW i \in 1 .. l, attempts'[x][i].session = k.id, k.id # id
                 PROVE  \E n \in 1 .. l : attempts[x][n].session = k.id
      BY <1>2, <1>8 DEF Recorded
    <3>1. i # l
      BY <1>4, <1>8
    <3> QED
      BY <1>8, <3>1
  <2> QED
    BY <2>1, <2>2
<1>14. Inv'
  <2>1. /\ Recorded(x, exec[x].session)'
        /\ \E j \in 1 .. Len(attempts'[x]) : exec'[x].session = <<x, j>>
    <3>1. l \in 1 .. Len(attempts'[x])
      BY <1>2, <1>8
    <3> QED
      BY <1>3, <1>4, <1>5, <1>7, <1>8, <3>1 DEF Recorded
  <2>2. ClaimIsGood(x)'
    BY <1>b DEF ClaimIsGood
  <2>3. /\ exec'[x].status = "RUNNING" /\ exec'[x].cleanup = "NOT_REQUIRED"
        /\ exec'[x].target \in Targets /\ Live(exec'[x].target)
        /\ Len(attempts'[x]) > 0 /\ Last(x)'.active /\ Last(x)'.target = exec'[x].target
        /\ exec'[x].retained = "lapsed" => exec'[x].gaveUp
        /\ exec'[x].session # None
    BY <1>1, <1>2, <1>3, <1>4, <1>5, <1>7, <1>8
  <2>4. \A k \in kernels' : k \in kernels
    BY <1>0
  <2> QED
    BY <1>0, <1>9, <1>10, <1>12, <1>13, <2>1, <2>2, <2>3, <2>4, RunsKeeps
<1>15. NoneIsAdded
  <2>1. \A i \in 1 .. l : /\ attempts'[x][i].target = attempts[x][i].target
                          /\ attempts'[x][i].active => attempts[x][i].active
    BY <1>1, <1>2, <1>4, <1>8 DEF Last
  <2> QED
    BY <1>2, <1>5, <1>7, <1>8, <1>9, <2>1, RecordsReserves
<1> QED
  BY <1>14, <1>15

\* A resumed run records the session it found.
LEMMA SessionResumes ==
    ASSUME Inv, NEW x \in Executions, ResumeSession(x)
    PROVE  Inv' /\ NoneIsAdded
<1>0. /\ TypeOK /\ ExecIsGood(x) /\ ClaimIsGood(x) /\ AttemptsAreGood(x)
      /\ KernelsAreKnown(x) /\ exec[x] \in Exec
      /\ exec[x].status = "RUNNING" /\ exec[x].session # None
      /\ UNCHANGED <<row, probe, exec, claim, kernels, stray>>
  BY DEF Inv, WorkIsGood, ResumeSession, fleet, TypeOK
<1>1. /\ exec[x].target \in Targets /\ Live(exec[x].target) /\ Len(attempts[x]) > 0
      /\ Last(x) \in Attempt /\ Last(x).active /\ Last(x).target = exec[x].target
      /\ exec[x].cleanup = "NOT_REQUIRED"
      /\ exec[x].retained = "lapsed" => exec[x].gaveUp
  BY <1>0, AttemptsAre DEF ExecIsGood, LastRuns
<1>2. PICK l \in Nat : l = Len(attempts[x]) /\ l > 0
  BY <1>0, <1>1, AttemptsAre
<1>3. PICK n \in 1 .. l : exec[x].session = <<x, n>>
  BY <1>0, <1>2 DEF ExecIsGood
<1>a. PICK a : a = [Last(x) EXCEPT !.session = exec[x].session]
  OBVIOUS
<1>4. a \in Attempt /\ a.session = exec[x].session /\ a.target = Last(x).target /\ a.active
  <2>1. exec[x].session \in Sessions
    BY <1>0 DEF Exec
  <2> QED
    BY <1>1, <1>a, <2>1 DEF Attempt
<1>5. SetLast(x, a)
  BY <1>a DEF ResumeSession
<1>6. /\ attempts' \in [Executions -> Seq(Attempt)]
      /\ \A y \in Executions \ {x} : attempts'[y] = attempts[y]
      /\ Len(attempts'[x]) = l /\ Last(x)' = a /\ attempts'[x][l] = a
      /\ \A i \in 1 .. l : i # l => attempts'[x][i] = attempts[x][i]
  BY <1>0, <1>1, <1>2, <1>4, <1>5, SetLastIs
<1>7. Only(x)
  BY <1>0, <1>6 DEF Only, TypeOK, ClaimRow
<1>8. AttemptsAreGood(x)'
  <2> SUFFICES ASSUME NEW i \in 1 .. l
               PROVE  /\ attempts'[x][i].session # None =>
                           /\ \E j \in 1 .. i : attempts'[x][i].session = <<x, j>>
                           /\ attempts'[x][i].session = exec[x].session =>
                                attempts'[x][i].target = exec[x].target
                      /\ attempts'[x][i].active => i = l
    BY <1>0, <1>6 DEF AttemptsAreGood
  <2>1. CASE i = l
    BY <1>1, <1>3, <1>4, <1>6, <2>1
  <2>2. CASE i # l
    BY <1>0, <1>2, <1>6, <2>2 DEF AttemptsAreGood
  <2> QED
    BY <2>1, <2>2
<1>9. KernelsAreKnown(x)'
  <2>1. \A id \in Executions \X Nat : Recorded(x, id)' => Recorded(x, id) \/ exec[x].session = id
    <3> SUFFICES ASSUME NEW id \in Executions \X Nat, NEW i \in 1 .. l,
                        attempts'[x][i].session = id, exec[x].session # id
                 PROVE  \E j \in 1 .. l : attempts[x][j].session = id
      BY <1>2, <1>6 DEF Recorded
    <3>1. i # l
      BY <1>4, <1>6
    <3> QED
      BY <1>6, <3>1
  <2> SUFFICES ASSUME NEW k \in kernels
               PROVE  /\ k.id \notin stray /\ Recorded(x, k.id)' =>
                           exec[x].session = k.id /\ Server(x) = k.at
                      /\ \A j \in Nat : k.id = <<x, j>> => j <= l
    BY <1>0, <1>6 DEF KernelsAreKnown, Server
  <2>2. /\ k.id \notin stray /\ Recorded(x, k.id) =>
             exec[x].session = k.id /\ Server(x) = k.at
        /\ \A j \in Nat : k.id = <<x, j>> => j <= l
    BY <1>0, <1>2 DEF KernelsAreKnown
  <2>3. k.id \in Executions \X Nat
    BY <1>0 DEF TypeOK
  <2>4. k.id \notin stray /\ exec[x].session = k.id => Server(x) = k.at
    <3>1. exec[x].session = k.id => Recorded(x, k.id)
      BY <1>0, <1>2 DEF ExecIsGood
    <3> QED
      BY <2>2, <3>1
  <2> QED
    BY <2>1, <2>2, <2>3, <2>4
<1>10. Inv'
  <2>1. /\ Recorded(x, exec[x].session)'
        /\ \E j \in 1 .. Len(attempts'[x]) : exec'[x].session = <<x, j>>
    <3>1. l \in 1 .. Len(attempts'[x])
      BY <1>2, <1>6
    <3> QED
      BY <1>0, <1>3, <1>4, <1>6, <3>1 DEF Recorded
  <2>2. ClaimIsGood(x)' /\ \A k \in kernels' : k \in kernels
    BY <1>0 DEF ClaimIsGood
  <2>3. /\ exec'[x].status = "RUNNING" /\ exec'[x].cleanup = "NOT_REQUIRED"
        /\ exec'[x].target \in Targets /\ Live(exec'[x].target)
        /\ Len(attempts'[x]) > 0 /\ Last(x)'.active /\ Last(x)'.target = exec'[x].target
        /\ exec'[x].retained = "lapsed" => exec'[x].gaveUp
    BY <1>0, <1>1, <1>2, <1>4, <1>6
  <2>4. kernels' \subseteq [id : Executions \X Nat, at : Endpoints \cup {None}]
    BY <1>0 DEF TypeOK
  <2> QED
    BY <1>0, <1>7, <1>8, <1>9, <2>1, <2>2, <2>3, <2>4, RunsKeeps
<1>11. NoneIsAdded
  <2>1. \A i \in 1 .. l : /\ attempts'[x][i].target = attempts[x][i].target
                          /\ attempts'[x][i].active => attempts[x][i].active
    BY <1>1, <1>2, <1>4, <1>6 DEF Last
  <2> QED
    BY <1>0, <1>1, <1>2, <1>6, <1>7, <2>1, RecordsReserves
<1> QED
  BY <1>10, <1>11

----------------------------------------------------------------------------
(* The end of a run, and what follows it.                                  *)

\* The claim that is left alone fits the new row.
ClaimFits(x, e) ==
    /\ claim[x].pc \in {"chosen", "resume"} =>
         /\ e.status = "QUEUED" /\ e.session = exec[x].session
         /\ e.retained # "none" /\ e.target = exec[x].target
    /\ claim[x].pc = "started" => e.status = "CANCEL_REQUESTED" /\ e.session = None

\* The new row counts on its Target.
RowCounts(e) ==
    /\ e.session # None /\ ~e.gaveUp
    /\ \/ e.status \in {"FAILED", "QUEUED"} /\ e.retained = "open"
       \/ e.cleanup \in {"PENDING", "FAILED"}

\* The row and the last Attempt are written, and the claim is left alone or ends.
LEMMA EndKeeps ==
    ASSUME Inv, NEW x \in Executions, NEW e \in Exec, exec' = [exec EXCEPT ![x] = e],
           \/ /\ UNCHANGED attempts
              /\ Len(attempts[x]) > 0 /\ Last(x).active => e.status = "CANCEL_REQUESTED"
           \/ \E a \in Attempt :
                /\ Len(attempts[x]) > 0 /\ SetLast(x, a)
                /\ a.session = Last(x).session /\ a.target = Last(x).target /\ ~a.active,
           claim' = [claim EXCEPT ![x] = Idle] \/ (UNCHANGED claim /\ ClaimFits(x, e)),
           UNCHANGED <<row, probe, stray>>,
           e.status # "RUNNING",
           e.status = "CANCEL_REQUESTED" =>
              /\ UNCHANGED attempts
              /\ e.session # None => e.gaveUp \/ LastRuns(x),
           e.session # None =>
              /\ e.session = exec[x].session /\ e.cleanup # "SUCCEEDED"
              /\ e.target = exec[x].target,
           kernels' \subseteq kernels,
           e.session = exec[x].session \/ Kernel(x) \notin kernels',
           e.retained # "none" => Len(attempts[x]) > 0,
           e.retained = "lapsed" => e.gaveUp, exec[x].gaveUp => e.gaveUp,
           RowCounts(e) => Reserves(x, exec[x].target)
    PROVE  Inv' /\ NoneIsAdded
<1>0. TypeOK /\ ClaimIsGood(x)
  BY DEF Inv, WorkIsGood
<1>1. /\ exec' \in [Executions -> Exec] /\ exec'[x] = e
      /\ \A y \in Executions \ {x} : exec'[y] = exec[y]
  BY <1>0, ExecIs
<1>2. /\ attempts' \in [Executions -> Seq(Attempt)] /\ SameAttempts(x)
      /\ \A y \in Executions \ {x} : attempts'[y] = attempts[y]
      /\ Len(attempts[x]) > 0 /\ Last(x)'.active => e.status = "CANCEL_REQUESTED"
  <2>1. CASE UNCHANGED attempts /\ (Len(attempts[x]) > 0 /\ Last(x).active => e.status = "CANCEL_REQUESTED")
    BY <1>0, <2>1 DEF TypeOK, SameAttempts, Last
  <2>2. CASE \E a \in Attempt :
                /\ Len(attempts[x]) > 0 /\ SetLast(x, a)
                /\ a.session = Last(x).session /\ a.target = Last(x).target /\ ~a.active
    <3>1. PICK a \in Attempt :
                /\ Len(attempts[x]) > 0 /\ SetLast(x, a)
                /\ a.session = Last(x).session /\ a.target = Last(x).target /\ ~a.active
      BY <2>2
    <3>2. Last(x)' = a
      BY <1>0, <3>1, SetLastIs
    <3> QED
      BY <1>0, <3>1, <3>2, SetLastStays
  <2> QED
    BY <2>1, <2>2
<1>3. /\ claim' \in [Executions -> ClaimRow] /\ ClaimIsGood(x)'
      /\ \A y \in Executions \ {x} : claim'[y] = claim[y]
  <2>1. CASE claim' = [claim EXCEPT ![x] = Idle]
    <3>1. Idle \in ClaimRow /\ Idle.pc = "idle"
      BY DEF Idle, ClaimRow
    <3>2. /\ claim' \in [Executions -> ClaimRow] /\ claim'[x] = Idle
          /\ \A y \in Executions \ {x} : claim'[y] = claim[y]
      BY <1>0, <2>1, <3>1, ClaimIs
    <3> QED
      BY <3>1, <3>2 DEF ClaimIsGood
  <2>2. CASE UNCHANGED claim /\ ClaimFits(x, e)
    <3>1. ClaimIsGood(x)'
      BY <1>0, <1>1, <2>2 DEF ClaimIsGood, ClaimFits
    <3> QED
      BY <1>0, <2>2, <3>1 DEF TypeOK, ClaimRow
  <2> QED
    BY <2>1, <2>2
<1>4. Only(x)
  BY <1>1, <1>2, <1>3 DEF Only
<1>5. Counts(x) /\ ~exec'[x].gaveUp => Reserves(x, exec[x].target)
  BY <1>1 DEF Counts, RowCounts
<1>6. /\ exec'[x].status # "RUNNING"
      /\ Len(attempts[x]) > 0 /\ Last(x)'.active => exec'[x].status = "CANCEL_REQUESTED"
      /\ exec'[x].session # None =>
           /\ exec'[x].session = exec[x].session /\ exec'[x].cleanup # "SUCCEEDED"
           /\ exec'[x].target = exec[x].target
      /\ exec'[x].session = exec[x].session \/ Kernel(x) \notin kernels'
      /\ exec'[x].retained # "none" => Len(attempts[x]) > 0
      /\ exec'[x].retained = "lapsed" => exec'[x].gaveUp
      /\ exec[x].gaveUp => exec'[x].gaveUp
  BY <1>1, <1>2
<1>7. exec'[x].status = "CANCEL_REQUESTED" /\ exec'[x].session # None =>
        exec'[x].gaveUp \/ LastRuns(x)'
  BY <1>1 DEF LastRuns, Last
<1> QED
  BY <1>2, <1>3, <1>4, <1>5, <1>6, <1>7, RestsKeeps

\* The columns that the end of a run writes.
LEMMA EndedKeeps ==
    ASSUME Inv, NEW x \in Executions, NEW status \in {"FAILED", "ENDED"},
           NEW cleanup \in Cleanups, Ended(x, status, cleanup),
           claim' = [claim EXCEPT ![x] = Idle] \/ (UNCHANGED claim /\ claim[x].pc = "idle"),
           UNCHANGED <<row, probe, stray>>, kernels' \subseteq kernels,
           cleanup = "SUCCEEDED" => Kernel(x) \notin kernels',
           cleanup \in {"PENDING", "FAILED"} => exec[x].gaveUp \/ Reserves(x, exec[x].target)
    PROVE  Inv' /\ NoneIsAdded
<1>0. /\ TypeOK /\ ExecIsGood(x) /\ exec[x] \in Exec
      /\ attempts[x] \in Seq(Attempt) /\ Len(attempts[x]) \in Nat
      /\ Len(attempts[x]) > 0 => Last(x) \in Attempt
  BY AttemptsAre DEF Inv, WorkIsGood, TypeOK
<1>1. PICK n \in Sessions : /\ n = IF cleanup = "SUCCEEDED" THEN None ELSE exec[x].session
                            /\ n # None => n = exec[x].session /\ cleanup # "SUCCEEDED"
                            /\ n = exec[x].session \/ cleanup = "SUCCEEDED"
  BY <1>0 DEF Exec, Sessions
<1>2. PICK e : e = [exec[x] EXCEPT !.status = status, !.cleanup = cleanup,
                                   !.retained = "none", !.session = n]
  OBVIOUS
<1>3. /\ e \in Exec /\ e.status = status /\ e.cleanup = cleanup /\ e.retained = "none"
      /\ e.session = n /\ e.target = exec[x].target /\ e.gaveUp = exec[x].gaveUp
  BY <1>0, <1>2 DEF Exec
<1>4. exec' = [exec EXCEPT ![x] = e]
  BY <1>0, <1>1, <1>2 DEF Ended, TypeOK
<1>5. \/ /\ UNCHANGED attempts
         /\ Len(attempts[x]) > 0 /\ Last(x).active => e.status = "CANCEL_REQUESTED"
      \/ \E a \in Attempt :
           /\ Len(attempts[x]) > 0 /\ SetLast(x, a)
           /\ a.session = Last(x).session /\ a.target = Last(x).target /\ ~a.active
  <2>1. CASE attempts[x] # <<>> /\ Last(x).active
    <3>1. Len(attempts[x]) > 0
      BY <1>0, <2>1, EmptySeq
    <3>2. PICK a : a = [Last(x) EXCEPT !.active = FALSE, !.cleanup = cleanup]
      OBVIOUS
    <3>3. a \in Attempt /\ a.session = Last(x).session /\ a.target = Last(x).target /\ ~a.active
      BY <1>0, <3>1, <3>2 DEF Attempt
    <3>4. SetLast(x, a)
      BY <2>1, <3>2 DEF Ended
    <3> QED
      BY <3>1, <3>3, <3>4
  <2>2. CASE ~(attempts[x] # <<>> /\ Last(x).active)
    <3>1. UNCHANGED attempts
      BY <2>2 DEF Ended
    <3>2. Len(attempts[x]) > 0 => attempts[x] # <<>>
      BY <1>0, EmptySeq
    <3> QED
      BY <2>2, <3>1, <3>2
  <2> QED
    BY <2>1, <2>2
<1>6. claim' = [claim EXCEPT ![x] = Idle] \/ (UNCHANGED claim /\ ClaimFits(x, e))
  BY DEF ClaimFits
<1>7. RowCounts(e) => Reserves(x, exec[x].target)
  BY <1>3 DEF RowCounts
<1>8. /\ e.status # "RUNNING" /\ e.status # "CANCEL_REQUESTED"
      /\ e.session # None =>
           /\ e.session = exec[x].session /\ e.cleanup # "SUCCEEDED"
           /\ e.target = exec[x].target
      /\ e.session = exec[x].session \/ Kernel(x) \notin kernels'
  BY <1>1, <1>3
<1> QED
  BY <1>3, <1>4, <1>5, <1>6, <1>7, <1>8, EndKeeps

\* An Execution whose row names a session has an Attempt.
LEMMA SessionHasAttempt ==
    ASSUME Inv, NEW x \in Executions, exec[x].session # None
    PROVE  Len(attempts[x]) > 0
<1>1. TypeOK /\ ExecIsGood(x)
  BY DEF Inv, WorkIsGood
<1>2. PICK j \in 1 .. Len(attempts[x]) : exec[x].session = <<x, j>>
  BY <1>1 DEF ExecIsGood
<1>3. Len(attempts[x]) \in Nat
  BY <1>1, AttemptsAre
<1> QED
  BY <1>2, <1>3

\* A run or a cancellation ends, with its kernel deleted or not.
LEMMA RunEnds ==
    ASSUME Inv, NEW x \in Executions, NEW status \in {"FAILED", "ENDED"},
           NEW cleanup \in {"PENDING", "FAILED"},
           \/ EndStopped(x, status) \/ EndUnstopped(x, status, cleanup)
           \/ EndWithoutSession(x) \/ CancelStopped(x) \/ CancelUnstopped(x)
    PROVE  Inv' /\ NoneIsAdded
<1>0. /\ TypeOK /\ ExecIsGood(x) /\ ClaimIsGood(x) /\ claim[x] \in ClaimRow
      /\ {"NOT_REQUIRED", "PENDING", "FAILED", "SUCCEEDED"} = Cleanups
  BY DEF Inv, WorkIsGood, TypeOK, ClaimRow, Cleanups
<1>a. ASSUME exec[x].status \in {"RUNNING", "CANCEL_REQUESTED"}, exec[x].session # None
      PROVE  claim[x].pc = "idle"
  BY <1>0, <1>a DEF ClaimIsGood, ClaimRow
<1>1. CASE EndStopped(x, status) \/ CancelStopped(x)
  <2>1. PICK s \in {"FAILED", "ENDED"} : Ended(x, s, "SUCCEEDED")
    BY <1>1 DEF EndStopped, CancelStopped
  <2>2. /\ claim[x].pc = "idle" /\ kernels' = kernels \ {Kernel(x)}
        /\ UNCHANGED <<claim, row, probe, stray>>
    BY <1>1, <1>a DEF EndStopped, CancelStopped, fleet
  <2> QED
    BY <1>0, <2>1, <2>2, EndedKeeps
<1>2. CASE EndUnstopped(x, status, cleanup) \/ CancelUnstopped(x)
  <2>1. PICK s \in {"FAILED", "ENDED"}, c \in {"PENDING", "FAILED"} : Ended(x, s, c)
    BY <1>2 DEF EndUnstopped, CancelUnstopped
  <2>2. /\ claim[x].pc = "idle" /\ UNCHANGED <<kernels, claim, row, probe, stray>>
    BY <1>2, <1>a DEF EndUnstopped, CancelUnstopped, fleet
  <2>3. exec[x].gaveUp \/ Reserves(x, exec[x].target)
    BY <1>2, RunningReserves DEF EndUnstopped, CancelUnstopped
  <2> QED
    BY <1>0, <2>1, <2>2, <2>3, EndedKeeps
<1>3. CASE EndWithoutSession(x)
  <2>1. PICK s \in {"FAILED", "ENDED"} : Ended(x, s, "NOT_REQUIRED")
    BY <1>3 DEF EndWithoutSession
  <2>2. /\ claim' = [claim EXCEPT ![x] = Idle] /\ kernels' \subseteq kernels
        /\ UNCHANGED <<row, probe, stray>>
    BY <1>3 DEF EndWithoutSession, fleet
  <2> QED
    BY <1>0, <2>1, <2>2, EndedKeeps
<1> QED
  BY <1>1, <1>2, <1>3

\* The code failed, and its session is kept.
LEMMA RunIsRetained ==
    ASSUME Inv, NEW x \in Executions, EndRetained(x)
    PROVE  Inv' /\ NoneIsAdded
<1>0. /\ TypeOK /\ ExecIsGood(x) /\ ClaimIsGood(x) /\ exec[x] \in Exec
      /\ exec[x].status = "RUNNING" /\ UNCHANGED <<claim, row, probe, kernels, stray>>
  BY DEF Inv, WorkIsGood, TypeOK, EndRetained, fleet
<1>1. /\ Len(attempts[x]) > 0 /\ Last(x) \in Attempt
      /\ exec[x].session # None /\ claim[x].pc = "idle"
  <2>1. Len(attempts[x]) > 0 /\ Last(x) \in Attempt /\ exec[x].session # None
    BY <1>0, AttemptsAre DEF ExecIsGood, LastRuns, EndRetained
  <2>2. claim[x] \in ClaimRow
    BY <1>0 DEF TypeOK, ClaimRow
  <2> QED
    BY <1>0, <2>1, <2>2 DEF ClaimIsGood, ClaimRow
<1>2. PICK e : e = [exec[x] EXCEPT !.status = "FAILED", !.retained = "open",
                                   !.cleanup = "NOT_REQUIRED"]
  OBVIOUS
<1>3. /\ e \in Exec /\ e.status = "FAILED" /\ e.retained = "open"
      /\ e.cleanup = "NOT_REQUIRED" /\ e.session = exec[x].session
      /\ e.target = exec[x].target /\ e.gaveUp = exec[x].gaveUp
  BY <1>0, <1>2 DEF Exec, Cleanups
<1>4. exec' = [exec EXCEPT ![x] = e]
  BY <1>0, <1>2 DEF EndRetained, TypeOK
<1>5. PICK a : a = [Last(x) EXCEPT !.active = FALSE, !.cleanup = "NOT_REQUIRED"]
  OBVIOUS
<1>6. a \in Attempt /\ a.session = Last(x).session /\ a.target = Last(x).target /\ ~a.active
  BY <1>1, <1>5 DEF Attempt, Cleanups
<1>7. SetLast(x, a)
  BY <1>5 DEF EndRetained
<1>8. Reserves(x, exec[x].target)
  BY <1>0, RunningReserves
<1>9. UNCHANGED claim /\ ClaimFits(x, e)
  BY <1>0, <1>1 DEF ClaimFits
<1> QED
  BY <1>0, <1>1, <1>3, <1>4, <1>6, <1>7, <1>8, <1>9, EndKeeps

\* A failed Execution is queued again, or its retention ends.
LEMMA RowIsQueued ==
    ASSUME Inv, NEW x \in Executions, Retry(x) \/ RetentionEnds(x)
    PROVE  Inv' /\ NoneIsAdded
<1>0. /\ TypeOK /\ ExecIsGood(x) /\ ClaimIsGood(x) /\ exec[x] \in Exec /\ claim[x] \in ClaimRow
      /\ exec[x].status \in {"FAILED", "QUEUED"}
      /\ UNCHANGED <<attempts, claim, row, probe, kernels, stray>>
  BY DEF Inv, WorkIsGood, TypeOK, ClaimRow, Retry, RetentionEnds, fleet
<1>a. ~(Len(attempts[x]) > 0 /\ Last(x).active)
  BY <1>0, AttemptsAre, RestingIsInactive DEF Last
<1>1. CASE Retry(x) /\ exec[x].session # None
  <2>1. PICK e : e = [exec[x] EXCEPT !.status = "QUEUED"]
    OBVIOUS
  <2>2. /\ e \in Exec /\ e.status = "QUEUED" /\ e.retained = exec[x].retained
        /\ e.cleanup = exec[x].cleanup /\ e.session = exec[x].session
        /\ e.target = exec[x].target /\ e.gaveUp = exec[x].gaveUp
    BY <1>0, <2>1 DEF Exec
  <2>3. exec' = [exec EXCEPT ![x] = e]
    BY <1>0, <1>1, <2>1 DEF Retry, TypeOK
  <2>4. exec[x].status = "FAILED" /\ claim[x].pc = "idle"
    BY <1>0, <1>1 DEF Retry, ClaimIsGood, ClaimRow
  <2>5. RowCounts(e) => Reserves(x, exec[x].target)
    BY <2>2, <2>4 DEF Reserves, RowCounts
  <2>6. /\ e.session # None => e.session = exec[x].session /\ e.cleanup # "SUCCEEDED"
        /\ e.retained # "none" => Len(attempts[x]) > 0
        /\ e.retained = "lapsed" => e.gaveUp
    BY <1>0, <2>2 DEF ExecIsGood
  <2>7. UNCHANGED claim /\ ClaimFits(x, e)
    BY <1>0, <2>4 DEF ClaimFits
  <2> QED
    BY <1>0, <1>a, <2>2, <2>3, <2>4, <2>5, <2>6, <2>7, EndKeeps
<1>2. CASE Retry(x) /\ exec[x].session = None
  <2>1. PICK e : e = [exec[x] EXCEPT !.status = "QUEUED", !.target = None,
                                     !.retained = "none", !.cleanup = "NOT_REQUIRED"]
    OBVIOUS
  <2>2. /\ e \in Exec /\ e.status = "QUEUED" /\ e.retained = "none"
        /\ e.session = None /\ e.gaveUp = exec[x].gaveUp
    BY <1>0, <1>2, <2>1 DEF Exec, Cleanups
  <2>3. exec' = [exec EXCEPT ![x] = e]
    BY <1>0, <1>2, <2>1 DEF Retry, TypeOK
  <2>4. exec[x].status = "FAILED" /\ claim[x].pc = "idle"
    BY <1>0, <1>2 DEF Retry, ClaimIsGood, ClaimRow
  <2>5. ~RowCounts(e)
    BY <2>2 DEF RowCounts
  <2>7. UNCHANGED claim /\ ClaimFits(x, e)
    BY <1>0, <2>4 DEF ClaimFits
  <2> QED
    BY <1>0, <1>2, <1>a, <2>2, <2>3, <2>5, <2>7, EndKeeps
<1>3. CASE RetentionEnds(x)
  <2>1. PICK e : e = [exec[x] EXCEPT !.retained = "lapsed", !.gaveUp = TRUE]
    OBVIOUS
  <2>2. /\ e \in Exec /\ e.status = exec[x].status /\ e.retained = "lapsed"
        /\ e.cleanup = exec[x].cleanup /\ e.session = exec[x].session
        /\ e.target = exec[x].target /\ e.gaveUp
    BY <1>0, <2>1 DEF Exec
  <2>3. exec' = [exec EXCEPT ![x] = e]
    BY <1>0, <1>3, <2>1 DEF RetentionEnds, TypeOK
  <2>4. exec[x].status \in {"FAILED", "QUEUED"} /\ exec[x].retained = "open"
    BY <1>3 DEF RetentionEnds
  <2>5. /\ e.session # None => e.session = exec[x].session /\ e.cleanup # "SUCCEEDED"
        /\ Len(attempts[x]) > 0
    BY <1>0, <2>2, <2>4 DEF ExecIsGood
  <2>6. UNCHANGED claim /\ ClaimFits(x, e)
    BY <1>0, <2>2, <2>4 DEF ClaimFits, ClaimIsGood
  <2>7. ~RowCounts(e)
    BY <2>2 DEF RowCounts
  <2> QED
    BY <1>0, <1>a, <2>2, <2>3, <2>4, <2>5, <2>6, <2>7, EndKeeps
<1> QED
  BY <1>1, <1>2, <1>3

\* A cancellation is requested: a queued retry gives up its slot, a run keeps it.
LEMMA Cancels ==
    ASSUME Inv, NEW x \in Executions, Cancel(x)
    PROVE  Inv' /\ NoneIsAdded
<1>0. /\ TypeOK /\ ExecIsGood(x) /\ ClaimIsGood(x) /\ exec[x] \in Exec
      /\ exec[x].status \in {"QUEUED", "RUNNING"} /\ claim[x].pc \in {"idle", "started"}
      /\ UNCHANGED <<attempts, claim, row, probe, kernels, stray>>
  BY DEF Inv, WorkIsGood, TypeOK, Cancel, fleet
<1>1. PICK g \in BOOLEAN :
        /\ g = (exec[x].gaveUp \/ (exec[x].status = "QUEUED" /\ exec[x].session # None))
        /\ exec[x].gaveUp => g
        /\ exec[x].session # None => g \/ exec[x].status = "RUNNING"
  BY <1>0 DEF Exec
<1>2. PICK e : e = [exec[x] EXCEPT !.status = "CANCEL_REQUESTED", !.gaveUp = g]
  OBVIOUS
<1>3. /\ e \in Exec /\ e.status = "CANCEL_REQUESTED" /\ e.retained = exec[x].retained
      /\ e.cleanup = exec[x].cleanup /\ e.session = exec[x].session
      /\ e.target = exec[x].target /\ e.gaveUp = g
  BY <1>0, <1>2 DEF Exec
<1>4. exec' = [exec EXCEPT ![x] = e]
  BY <1>0, <1>1, <1>2 DEF Cancel, TypeOK
<1>5. e.session # None => e.gaveUp \/ LastRuns(x)
  BY <1>0, <1>1, <1>3 DEF ExecIsGood
<1>6. /\ e.session # None => e.session = exec[x].session /\ e.cleanup # "SUCCEEDED"
      /\ e.retained # "none" => Len(attempts[x]) > 0
      /\ e.retained = "lapsed" => e.gaveUp
  BY <1>0, <1>1, <1>3 DEF ExecIsGood
<1>7. RowCounts(e) => Reserves(x, exec[x].target)
  BY <1>3 DEF RowCounts, Reserves
<1>8. UNCHANGED claim /\ ClaimFits(x, e)
  BY <1>0, <1>3 DEF ClaimFits, ClaimIsGood
<1> QED
  BY <1>0, <1>1, <1>3, <1>4, <1>5, <1>6, <1>7, <1>8, EndKeeps

\* The cleanup of an expired session is reserved.
LEMMA CleanupIsDue ==
    ASSUME Inv, NEW x \in Executions, CleanupExpired(x)
    PROVE  Inv' /\ NoneIsAdded
<1>0. /\ TypeOK /\ ExecIsGood(x) /\ exec[x] \in Exec /\ claim[x].pc = "idle"
      /\ exec[x].retained = "lapsed" /\ exec[x].status \in {"FAILED", "QUEUED"}
      /\ UNCHANGED <<claim, row, probe, kernels, stray>>
  BY DEF Inv, WorkIsGood, TypeOK, CleanupExpired, fleet
<1>1. Len(attempts[x]) > 0 /\ Last(x) \in Attempt /\ exec[x].gaveUp
  BY <1>0, AttemptsAre DEF ExecIsGood
<1>a. ~Last(x).active
  BY <1>0, <1>1, AttemptsAre, RestingIsInactive DEF Last
<1>2. PICK e : e = [exec[x] EXCEPT !.status = "FAILED", !.retained = "none",
                                   !.cleanup = "PENDING"]
  OBVIOUS
<1>3. /\ e \in Exec /\ e.status = "FAILED" /\ e.retained = "none"
      /\ e.cleanup = "PENDING" /\ e.session = exec[x].session
      /\ e.target = exec[x].target /\ e.gaveUp = exec[x].gaveUp
  BY <1>0, <1>2 DEF Exec, Cleanups
<1>4. exec' = [exec EXCEPT ![x] = e]
  BY <1>0, <1>2 DEF CleanupExpired, TypeOK
<1>5. PICK a : a = [Last(x) EXCEPT !.cleanup = "PENDING"]
  OBVIOUS
<1>6. /\ a \in Attempt /\ a.session = Last(x).session /\ a.target = Last(x).target
      /\ a.active = Last(x).active
  BY <1>1, <1>5 DEF Attempt, Cleanups
<1>7. SetLast(x, a)
  BY <1>5 DEF CleanupExpired
<1>8. UNCHANGED claim /\ ClaimFits(x, e) /\ ~RowCounts(e)
  BY <1>0, <1>1, <1>3 DEF ClaimFits, RowCounts
<1> QED
  BY <1>0, <1>1, <1>a, <1>3, <1>4, <1>6, <1>7, <1>8, EndKeeps

\* A cleanup pass deletes the session, or fails.
LEMMA CleanupRuns ==
    ASSUME Inv, NEW x \in Executions, Cleanup(x)
    PROVE  Inv' /\ NoneIsAdded
<1>0. /\ TypeOK /\ ExecIsGood(x) /\ ClaimIsGood(x) /\ exec[x] \in Exec
      /\ exec[x].status \in {"FAILED", "ENDED"} /\ exec[x].session # None
      /\ exec[x].cleanup \in {"PENDING", "FAILED"} /\ UNCHANGED <<claim, row, probe, stray>>
  BY DEF Inv, WorkIsGood, TypeOK, Cleanup, fleet
<1>1. Len(attempts[x]) > 0 /\ Last(x) \in Attempt /\ claim[x].pc = "idle"
  <2>1. claim[x] \in ClaimRow
    BY <1>0 DEF TypeOK, ClaimRow
  <2> QED
    BY <1>0, <2>1, AttemptsAre, SessionHasAttempt DEF ClaimIsGood, ClaimRow
<1>a. ~Last(x).active
  BY <1>0, <1>1, AttemptsAre, RestingIsInactive DEF Last
<1>2. PICK done \in BOOLEAN : done = (Live(exec[x].target) /\ Server(x) \in up)
  OBVIOUS
<1>3. PICK cleanup \in Cleanups : /\ cleanup = IF done THEN "SUCCEEDED" ELSE "FAILED"
                                  /\ ~done => cleanup = "FAILED"
  BY DEF Cleanups
<1>4. PICK n \in Sessions : /\ n = IF done THEN None ELSE exec[x].session
                            /\ n # None => n = exec[x].session /\ ~done
                            /\ n = exec[x].session \/ done
  BY <1>0 DEF Exec, Sessions
<1>5. PICK e : e = [exec[x] EXCEPT !.cleanup = cleanup, !.session = n]
  OBVIOUS
<1>6. /\ e \in Exec /\ e.status = exec[x].status /\ e.retained = exec[x].retained
      /\ e.cleanup = cleanup /\ e.session = n
      /\ e.target = exec[x].target /\ e.gaveUp = exec[x].gaveUp
  BY <1>0, <1>5 DEF Exec
<1>7. exec' = [exec EXCEPT ![x] = e]
  BY <1>0, <1>2, <1>3, <1>4, <1>5 DEF Cleanup, TypeOK
<1>8. PICK a : a = [Last(x) EXCEPT !.cleanup = cleanup]
  OBVIOUS
<1>9. /\ a \in Attempt /\ a.session = Last(x).session /\ a.target = Last(x).target
      /\ a.active = Last(x).active
  BY <1>1, <1>8 DEF Attempt
<1>10. SetLast(x, a)
  BY <1>2, <1>3, <1>8 DEF Cleanup
<1>11. kernels' \subseteq kernels /\ (done => Kernel(x) \notin kernels')
  BY <1>2 DEF Cleanup
<1>12. Reserves(x, exec[x].target)
  BY <1>0 DEF Reserves
<1>13. /\ e.retained # "none" => Len(attempts[x]) > 0
       /\ e.retained = "lapsed" => e.gaveUp
  BY <1>0, <1>6 DEF ExecIsGood
<1>14. /\ e.session # None => e.session = exec[x].session /\ e.cleanup # "SUCCEEDED"
       /\ e.session = exec[x].session \/ Kernel(x) \notin kernels'
  BY <1>3, <1>4, <1>6, <1>11
<1>15. UNCHANGED claim /\ ClaimFits(x, e)
  BY <1>0, <1>1 DEF ClaimFits
<1> QED
  BY <1>0, <1>1, <1>a, <1>6, <1>7, <1>9, <1>10, <1>11, <1>12, <1>13, <1>14, <1>15, EndKeeps

----------------------------------------------------------------------------
(* The steps of the operator, of the probes and of the servers.            *)

\* One row is written: what names a session stays on a live Target, and a
\* Target that moves leaves its kernels behind.
LEMMA FleetKeeps ==
    ASSUME Inv, NEW t \in Targets, NEW r \in Row, row' = [row EXCEPT ![t] = r],
           probe' \in [Probers -> Probe], UNCHANGED <<exec, attempts, claim, kernels>>,
           stray \subseteq stray',
           r.status = "ACTIVE" => r.verified = r.endpoint,
           \A x \in Executions :
              /\ Live(t) /\ exec[x].target = t
              /\ exec[x].session # None \/ exec[x].status = "RUNNING"
              => r.state = "live",
           \/ ~Live(t) \/ r.endpoint = row[t].endpoint
           \/ \A k \in On(row[t].endpoint) : k.id \in stray'
    PROVE  Inv' /\ NoneIsAdded
<1>0. TypeOK /\ ActiveIsVerified /\ WorkIsGood
  BY DEF Inv
<1>1. row' \in [Targets -> Row] /\ row'[t] = r /\ \A u \in Targets \ {t} : row'[u] = row[u]
  BY <1>0 DEF TypeOK
<1>2. TypeOK'
  BY <1>0, <1>1 DEF TypeOK
<1>3. ActiveIsVerified'
  BY <1>0, <1>1 DEF ActiveIsVerified
<1>4. WorkIsGood'
  <2> SUFFICES ASSUME NEW x \in Executions
               PROVE  ExecIsGood(x)' /\ ClaimIsGood(x)' /\ AttemptsAreGood(x)' /\ KernelsAreKnown(x)'
    BY DEF WorkIsGood
  <2>1. ExecIsGood(x) /\ ClaimIsGood(x) /\ AttemptsAreGood(x) /\ KernelsAreKnown(x)
    BY <1>0 DEF WorkIsGood
  <2>2. /\ exec[x].session # None \/ exec[x].status = "RUNNING"
        => Live(exec[x].target) /\ exec[x].target \in Targets
    BY <2>1 DEF ExecIsGood
  <2>3. /\ exec[x].session # None \/ exec[x].status = "RUNNING"
        => row'[exec[x].target].state = "live"
    BY <1>1, <2>2 DEF Live
  <2>4. ExecIsGood(x)'
    BY <2>1, <2>3 DEF ExecIsGood, Recorded, LastRuns, Live, Last
  <2>5. ClaimIsGood(x)' /\ AttemptsAreGood(x)'
    BY <2>1 DEF ClaimIsGood, AttemptsAreGood
  <2>6. KernelsAreKnown(x)'
    <3>1. \A id : Recorded(x, id)' <=> Recorded(x, id)
      BY DEF Recorded
    <3>2. NewSession(x)' = NewSession(x)
      BY DEF NewSession
    <3>3. ASSUME NEW k \in kernels, k.id \notin stray', Server(x) = k.at,
                 exec[x].session # None \/ exec[x].status = "RUNNING"
          PROVE  Server(x)' = k.at
      <4>1. CASE exec[x].target # t
        BY <1>1, <2>2, <3>3, <4>1 DEF Server
      <4>2. CASE exec[x].target = t
        <5>1. k \in On(row[t].endpoint)
          BY <3>3, <4>2 DEF On, Server
        <5>2. r.endpoint = row[t].endpoint
          BY <2>2, <3>3, <4>2, <5>1
        <5> QED
          BY <1>1, <3>3, <4>2, <5>2 DEF Server
      <4> QED
        BY <4>1, <4>2
    <3> SUFFICES ASSUME NEW k \in kernels
                 PROVE  /\ k.id \notin stray' /\ Recorded(x, k.id) =>
                             exec[x].session = k.id /\ Server(x)' = k.at
                        /\ \A j \in Nat : k.id = <<x, j>> => j <= Len(attempts[x])
                        /\ /\ exec[x].status = "RUNNING" /\ exec[x].session = None
                           /\ k.id = NewSession(x)
                           => claim[x].pc = "started" /\ (k.id \in stray' \/ Server(x)' = k.at)
      BY <3>1, <3>2 DEF KernelsAreKnown
    <3>4. /\ k.id \notin stray /\ Recorded(x, k.id) =>
               exec[x].session = k.id /\ Server(x) = k.at
          /\ \A j \in Nat : k.id = <<x, j>> => j <= Len(attempts[x])
          /\ /\ exec[x].status = "RUNNING" /\ exec[x].session = None
             /\ k.id = NewSession(x)
             => claim[x].pc = "started" /\ (k.id \in stray \/ Server(x) = k.at)
      BY <2>1 DEF KernelsAreKnown
    <3>5. k.id # None
      BY <1>0, NoneAssumption DEF TypeOK
    <3> QED
      BY <3>3, <3>4, <3>5
  <2> QED
    BY <2>4, <2>5, <2>6
<1>6. NoneIsAdded
  BY DEF NoneIsAdded, Holders, Reservations, Reserves
<1> QED
  BY <1>2, <1>3, <1>4, <1>6 DEF Inv

\* The rows are left alone.
LEMMA NoRowKeeps ==
    ASSUME Inv, UNCHANGED <<row, exec, attempts, claim, stray>>,
           probe' \in [Probers -> Probe], kernels' \subseteq kernels
    PROVE  Inv' /\ NoneIsAdded
<1>0. TypeOK /\ ActiveIsVerified /\ WorkIsGood
  BY DEF Inv
<1>1. TypeOK'
  BY <1>0 DEF TypeOK
<1>2. ActiveIsVerified'
  BY <1>0 DEF ActiveIsVerified
<1>3. WorkIsGood'
  <2> SUFFICES ASSUME NEW x \in Executions
               PROVE  ExecIsGood(x)' /\ ClaimIsGood(x)' /\ AttemptsAreGood(x)' /\ KernelsAreKnown(x)'
    BY DEF WorkIsGood
  <2>1. ExecIsGood(x) /\ ClaimIsGood(x) /\ AttemptsAreGood(x) /\ KernelsAreKnown(x)
    BY <1>0 DEF WorkIsGood
  <2>2. ExecIsGood(x)'
    BY <2>1 DEF ExecIsGood, Recorded, LastRuns, Live, Last
  <2>3. ClaimIsGood(x)' /\ AttemptsAreGood(x)'
    BY <2>1 DEF ClaimIsGood, AttemptsAreGood
  <2>4. KernelsAreKnown(x)'
    <3>1. /\ Server(x)' = Server(x) /\ NewSession(x)' = NewSession(x)
          /\ \A id : Recorded(x, id)' <=> Recorded(x, id)
      BY DEF Server, NewSession, Recorded
    <3> QED
      BY <2>1, <3>1 DEF KernelsAreKnown
  <2> QED
    BY <2>2, <2>3, <2>4
<1>5. NoneIsAdded
  BY DEF NoneIsAdded, Holders, Reservations, Reserves
<1> QED
  BY <1>1, <1>2, <1>3, <1>5 DEF Inv

\* Registration: the id is new, and nothing is observed yet.
LEMMA Registers ==
    ASSUME Inv, NEW k \in Keys, NEW n \in Names, NEW e \in Endpoints, NEW p \in Pools,
           NEW m \in Capacities, Register(k, n, e, p, m)
    PROVE  Inv' /\ NoneIsAdded
<1>1. PICK t \in Targets :
        /\ row[t].state = "absent"
        /\ row' = [row EXCEPT ![t] =
              [Unregistered EXCEPT !.state = "live", !.name = n, !.endpoint = e,
                                   !.pool = p, !.credential = k, !.enabled = TRUE,
                                   !.max = m]]
  BY DEF Register
<1>2. PICK r : r = [Unregistered EXCEPT !.state = "live", !.name = n, !.endpoint = e,
                                        !.pool = p, !.credential = k, !.enabled = TRUE,
                                        !.max = m]
  OBVIOUS
<1>3. r = [state |-> "live", name |-> n, endpoint |-> e, pool |-> p, credential |-> k,
           status |-> "OFFLINE", enabled |-> TRUE, max |-> m, verified |-> None]
  BY <1>2 DEF Unregistered
<1>4. m \in Nat
  BY CapacityAssumption
<1>5. r \in Row /\ r.status = "OFFLINE" /\ r.state = "live"
  BY <1>3, <1>4 DEF Row
<1>6. ~Live(t)
  BY <1>1 DEF Live
<1>7. probe' \in [Probers -> Probe] /\ UNCHANGED <<exec, attempts, claim, kernels, stray>>
  BY DEF Inv, TypeOK, Register, work
<1> QED
  BY <1>1, <1>2, <1>5, <1>6, <1>7, FleetKeeps

\* An update, which may move the Target.
LEMMA Updates ==
    ASSUME Inv, NEW k \in Keys, NEW t \in Targets, NEW e \in Endpoints, NEW p \in Pools,
           NEW m \in Capacities, NEW c \in BOOLEAN, Update(k, t, e, p, m, c)
    PROVE  Inv' /\ NoneIsAdded
<1>0. /\ TypeOK /\ row[t] \in Row /\ Live(t) /\ row[t].state = "live"
      /\ row[t].status = "ACTIVE" => row[t].verified = row[t].endpoint
      /\ probe' \in [Probers -> Probe] /\ UNCHANGED <<exec, attempts, claim, kernels>>
  BY DEF Inv, TypeOK, ActiveIsVerified, Update, work, Live
<1>1. PICK s \in {"ACTIVE", "OFFLINE", "DRAINING"} :
        /\ s = IF row[t].status = "DRAINING" THEN row[t].status ELSE "OFFLINE"
        /\ s # "ACTIVE"
  BY <1>0
<1>2. PICK r1 : r1 = Moved(row[t], e, p)
  OBVIOUS
<1>3. /\ r1 \in Row /\ r1.state = "live"
      /\ r1.status = "ACTIVE" => r1.verified = r1.endpoint
      /\ r1.endpoint = e
  <2>1. CASE <<e, p>> = <<row[t].endpoint, row[t].pool>>
    BY <1>0, <1>2, <2>1 DEF Moved
  <2>2. CASE <<e, p>> # <<row[t].endpoint, row[t].pool>>
    <3>1. r1 = [row[t] EXCEPT !.endpoint = e, !.pool = p, !.verified = None, !.status = s]
      BY <1>0, <1>1, <1>2, <2>2 DEF Moved, Row
    <3>2. r1 \in Row /\ r1.state = "live" /\ r1.status = s /\ r1.endpoint = e
      BY <1>0, <3>1 DEF Row
    <3> QED
      BY <1>1, <2>2, <3>2
  <2> QED
    BY <2>1, <2>2
<1>4. PICK d \in Keys \cup {None} : d = IF c THEN k ELSE r1.credential
  BY <1>3 DEF Row
<1>5. PICK r : r = [r1 EXCEPT !.enabled = TRUE, !.max = m, !.credential = d]
  OBVIOUS
<1>6. m \in Nat
  BY CapacityAssumption
<1>7. /\ r \in Row /\ r.state = "live" /\ r.endpoint = r1.endpoint
      /\ r.status = r1.status /\ r.verified = r1.verified
  BY <1>3, <1>5, <1>6 DEF Row
<1>8. row' = [row EXCEPT ![t] = r]
  BY <1>2, <1>3, <1>4, <1>5 DEF Update, Row
<1>9. stray \subseteq stray'
  BY DEF Update
<1>10. r.endpoint = row[t].endpoint \/ \A k2 \in On(row[t].endpoint) : k2.id \in stray'
  <2>1. CASE e = row[t].endpoint
    BY <1>3, <1>7, <2>1
  <2>2. CASE e # row[t].endpoint
    <3>1. stray' = stray \cup {k2.id : k2 \in On(row[t].endpoint)}
      BY <2>2 DEF Update
    <3> QED
      BY <3>1
  <2> QED
    BY <2>1, <2>2
<1> QED
  BY <1>0, <1>3, <1>7, <1>8, <1>9, <1>10, FleetKeeps

\* Disablement, drain and activation.
LEMMA StateIsSet ==
    ASSUME Inv, NEW k \in Keys, NEW t \in Targets, NEW desired \in {"ACTIVE", "DRAINING"},
           Disable(k, t) \/ SetState(k, t, desired)
    PROVE  Inv' /\ NoneIsAdded
<1>0. /\ TypeOK /\ row \in [Targets -> Row] /\ row[t] \in Row /\ row[t].state = "live"
      /\ probe' \in [Probers -> Probe] /\ UNCHANGED <<exec, attempts, claim, kernels, stray>>
  BY DEF Inv, TypeOK, Disable, SetState, work, Live
<1>1. PICK b \in BOOLEAN, s \in {"OFFLINE", "DRAINING"} :
        row' = [row EXCEPT ![t] = [row[t] EXCEPT !.enabled = b, !.status = s]]
  <2>1. CASE Disable(k, t)
    BY <1>0, <2>1 DEF Disable
  <2>2. CASE SetState(k, t, desired)
    <3>1. PICK s \in {"OFFLINE", "DRAINING"} :
            s = IF desired = "ACTIVE" THEN "OFFLINE" ELSE "DRAINING"
      OBVIOUS
    <3>2. row' = [row EXCEPT ![t] = [row[t] EXCEPT !.enabled = TRUE, !.status = s]]
      BY <1>0, <2>2, <3>1 DEF SetState
    <3> QED
      BY <3>2
  <2> QED
    BY <2>1, <2>2
<1>2. PICK r : r = [row[t] EXCEPT !.enabled = b, !.status = s]
  OBVIOUS
<1>3. r \in Row /\ r.status # "ACTIVE" /\ r.state = "live" /\ r.endpoint = row[t].endpoint
  BY <1>0, <1>2 DEF Row
<1> QED
  BY <1>0, <1>1, <1>2, <1>3, FleetKeeps

\* A purge: no row names a session on the Target.
LEMMA Purges ==
    ASSUME Inv, NEW t \in Targets, Purge(t)
    PROVE  Inv' /\ NoneIsAdded
<1>0. /\ TypeOK /\ row \in [Targets -> Row] /\ row[t] \in Row /\ row[t].status = "OFFLINE"
      /\ probe' \in [Probers -> Probe] /\ UNCHANGED <<exec, attempts, claim, kernels, stray>>
  BY DEF Inv, TypeOK, Purge, Purgeable, work, Live
<1>1. PICK r : r = [row[t] EXCEPT !.state = "purged"]
  OBVIOUS
<1>2. r \in Row /\ r.status = "OFFLINE" /\ r.endpoint = row[t].endpoint
  BY <1>0, <1>1 DEF Row
<1>3. row' = [row EXCEPT ![t] = r]
  BY <1>0, <1>1 DEF Purge
<1>4. ASSUME NEW x \in Executions, exec[x].target = t
      PROVE  exec[x].session = None /\ exec[x].status # "RUNNING"
  <2>1. ~PendingExecution(x, t)
    BY DEF Purge, Purgeable
  <2>2. ExecIsGood(x)
    BY DEF Inv, WorkIsGood
  <2> QED
    BY <1>4, <2>1, <2>2 DEF PendingExecution, Terminal, ExecIsGood
<1>5. \A x \in Executions :
        /\ Live(t) /\ exec[x].target = t
        /\ exec[x].session # None \/ exec[x].status = "RUNNING"
        => r.state = "live"
  BY <1>4
<1>6. r.status = "ACTIVE" => r.verified = r.endpoint
  BY <1>2
<1> QED
  BY <1>0, <1>2, <1>3, <1>5, <1>6, FleetKeeps

\* A probe reads, and one ends.
LEMMA ProbeMoves ==
    ASSUME Inv, NEW p \in Probers, ProbeDies(p) \/ \E t \in Targets : ProbeRead(p, t)
    PROVE  Inv' /\ NoneIsAdded
<1>0. TypeOK /\ UNCHANGED <<row, exec, attempts, claim, kernels, stray>>
  BY DEF Inv, ProbeDies, ProbeRead, work
<1>1. probe' \in [Probers -> Probe]
  <2>1. CASE ProbeDies(p)
    <3>1. NoProbe \in Probe
      BY DEF NoProbe, Probe
    <3> QED
      BY <1>0, <2>1, <3>1 DEF ProbeDies, TypeOK
  <2>2. CASE \E t \in Targets : ProbeRead(p, t)
    <3>1. PICK t \in Targets : ProbeRead(p, t)
      BY <2>2
    <3>2. PICK q : q = [pc |-> "read", target |-> t, endpoint |-> row[t].endpoint,
                        pool |-> row[t].pool, credential |-> row[t].credential,
                        healthy |-> row[t].endpoint \in up]
      OBVIOUS
    <3>3. q \in Probe
      BY <1>0, <3>2 DEF Probe, TypeOK, Row
    <3>4. probe' = [probe EXCEPT ![p] = q]
      BY <3>1, <3>2 DEF ProbeRead
    <3> QED
      BY <1>0, <3>3, <3>4 DEF TypeOK
  <2> QED
    BY <2>1, <2>2
<1> QED
  BY <1>0, <1>1, NoRowKeeps

\* The answer of a probe: it counts only where it was asked.
LEMMA ProbeApplies ==
    ASSUME Inv, NEW p \in Probers, ProbeApply(p)
    PROVE  Inv' /\ NoneIsAdded
<1>0. TypeOK /\ UNCHANGED <<exec, attempts, claim, kernels, stray>>
  BY DEF Inv, ProbeApply, work
<1>1. probe' \in [Probers -> Probe]
  <2>1. NoProbe \in Probe
    BY DEF NoProbe, Probe
  <2> QED
    BY <1>0, <2>1 DEF ProbeApply, TypeOK
<1>2. PICK t : t = probe[p].target
  OBVIOUS
<1>3. CASE row' = row
  BY <1>0, <1>1, <1>3, NoRowKeeps
<1>4. CASE t \in Targets /\ Live(t)
  <2>0. /\ row[t] \in Row /\ probe[p] \in Probe /\ row[t].state = "live"
        /\ row[t].status = "ACTIVE" => row[t].verified = row[t].endpoint
    BY <1>0, <1>4 DEF TypeOK, Inv, ActiveIsVerified, Live
  <2>1. PICK r : r = Probed(probe[p], row[t])
    OBVIOUS
  <2>2. row' = [row EXCEPT ![t] = r]
    BY <1>2, <1>4, <2>1 DEF ProbeApply
  <2>3. /\ r \in Row /\ r.state = "live" /\ r.endpoint = row[t].endpoint
        /\ r.status = "ACTIVE" => r.verified = r.endpoint
    <3>1. CASE ~SameIdentity(probe[p], row[t]) \/ ~row[t].enabled
      BY <2>0, <2>1, <3>1 DEF Probed
    <3>2. CASE SameIdentity(probe[p], row[t]) /\ row[t].enabled
      <4>1. PICK v \in Endpoints \cup {None} :
              /\ v = IF probe[p].healthy THEN probe[p].endpoint ELSE row[t].verified
              /\ probe[p].healthy => v = row[t].endpoint
        BY <2>0, <3>2 DEF Probe, Row, SameIdentity
      <4>2. PICK s \in {"ACTIVE", "OFFLINE", "DRAINING"} :
              /\ s = IF row[t].status = "DRAINING" THEN row[t].status
                     ELSE IF probe[p].healthy THEN "ACTIVE" ELSE "OFFLINE"
              /\ s = "ACTIVE" => probe[p].healthy
        BY <2>0
      <4>3. r = [row[t] EXCEPT !.verified = v, !.status = s]
        BY <2>0, <2>1, <3>2, <4>1, <4>2 DEF Probed, Row
      <4>4. /\ r \in Row /\ r.state = "live" /\ r.endpoint = row[t].endpoint
            /\ r.status = s /\ r.verified = v
        BY <2>0, <4>3 DEF Row
      <4> QED
        BY <4>1, <4>2, <4>4
    <3> QED
      BY <3>1, <3>2
  <2> QED
    BY <1>0, <1>1, <1>4, <2>2, <2>3, FleetKeeps
<1>5. CASE t \notin Targets
  <2>1. row' = row
    BY <1>0, <1>2, <1>5 DEF ProbeApply, TypeOK
  <2> QED
    BY <1>3, <2>1
<1> QED
  BY <1>2, <1>3, <1>4, <1>5 DEF ProbeApply

\* A server stops answering or answers again, and a kernel dies.
LEMMA WorldMoves ==
    ASSUME Inv, (\E e \in Endpoints : ServerFlips(e)) \/ (\E k \in kernels : KernelDies(k))
    PROVE  Inv' /\ NoneIsAdded
<1>1. /\ UNCHANGED <<row, exec, attempts, claim, stray, probe>> /\ kernels' \subseteq kernels
  BY DEF ServerFlips, KernelDies, fleet, work
<1>2. probe' \in [Probers -> Probe]
  BY <1>1 DEF Inv, TypeOK
<1> QED
  BY <1>1, <1>2, NoRowKeeps

----------------------------------------------------------------------------
(* The invariant holds, and a slot is given only where there is one.       *)

\* What adds an Execution to a Target.
Adds ==
    \E x \in Executions, t \in Targets :
        /\ Cardinality(Reservations(t)) < row[t].max /\ Only(x)
        /\ UNCHANGED row /\ \A u \in Targets : Reserves(x, u)' => u = t

\* Initially.
LEMMA InvInit ==
    Init => Inv
<1> SUFFICES ASSUME Init PROVE Inv
  OBVIOUS
<1>1. Unregistered \in Row /\ NoProbe \in Probe /\ Idle \in ClaimRow
  BY DEF Unregistered, Row, NoProbe, Probe, Idle, ClaimRow
<1>2. ASSUME NEW x \in Executions
      PROVE  /\ exec[x] \in Exec /\ exec[x].status = "QUEUED" /\ exec[x].session = None
             /\ exec[x].retained = "none"
  <2>2. exec[x] = [status |-> "QUEUED", target |-> None, session |-> None,
                   cleanup |-> "NOT_REQUIRED", retained |-> "none", gaveUp |-> FALSE]
    BY DEF Init, Fresh
  <2> QED
    BY <2>2 DEF Exec, Sessions, Cleanups
<1>3. exec \in [Executions -> Exec]
  BY <1>2 DEF Init
<1>4. <<>> \in Seq(Attempt) /\ Len(<<>>) = 0
  OBVIOUS
<1>5. TypeOK
  BY <1>1, <1>3, <1>4 DEF Init, TypeOK, ClaimRow
<1>6. ActiveIsVerified
  BY DEF Init, ActiveIsVerified, Unregistered
<1>7. WorkIsGood
  BY <1>2, <1>4 DEF Init, WorkIsGood, ExecIsGood, ClaimIsGood, AttemptsAreGood,
                    KernelsAreKnown, Idle
<1> QED
  BY <1>5, <1>6, <1>7 DEF Inv

\* Every step keeps the invariant, and adds nobody to a Target or one who fits.
LEMMA InvStep ==
    Inv /\ Next => Inv' /\ (NoneIsAdded \/ Adds)
<1> SUFFICES ASSUME Inv, Next PROVE Inv' /\ (NoneIsAdded \/ Adds)
  OBVIOUS
<1>1. CASE \E k \in Keys : Command(k)
  <2>1. PICK k \in Keys : Command(k)
    BY <1>1
  <2>2. CASE \E n \in Names, e \in Endpoints, p \in Pools, m \in Capacities :
               Register(k, n, e, p, m)
    BY <2>2, Registers
  <2>3. CASE \E t \in Targets, e \in Endpoints, p \in Pools, m \in Capacities, c \in BOOLEAN :
               Update(k, t, e, p, m, c)
    BY <2>3, Updates
  <2>4. CASE \E t \in Targets : Disable(k, t) \/ \E d \in {"ACTIVE", "DRAINING"} : SetState(k, t, d)
    BY <2>4, StateIsSet
  <2> QED
    BY <2>1, <2>2, <2>3, <2>4 DEF Command
<1>2. CASE \E t \in Targets : Purge(t)
  BY <1>2, Purges
<1>3. CASE \E p \in Probers : Monitor(p) \/ ProbeDies(p)
  <2>1. PICK p \in Probers : Monitor(p) \/ ProbeDies(p)
    BY <1>3
  <2>2. CASE ProbeApply(p)
    BY <2>2, ProbeApplies
  <2>3. CASE ProbeDies(p) \/ \E t \in Targets : ProbeRead(p, t)
    BY <2>3, ProbeMoves
  <2> QED
    BY <2>1, <2>2, <2>3 DEF Monitor
<1>4. CASE \E x \in Executions : Claim(x)
  <2>1. PICK x \in Executions : Claim(x)
    BY <1>4
  <2>2. CASE ClaimSelect(x) \/ ResumeBegin(x)
    BY <2>2, ClaimBegins
  <2>3. CASE ClaimCommit(x)
    <3>1. UNCHANGED row
      BY <2>3 DEF ClaimCommit, fleet
    <3> QED
      BY <2>3, <3>1, ClaimCommits DEF Adds
  <2>4. CASE ResumeCommit(x)
    BY <2>4, ResumeCommits
  <2> QED
    BY <2>1, <2>2, <2>3, <2>4 DEF Claim
<1>5. CASE \E x \in Executions : RunStep(x)
  <2>1. PICK x \in Executions : RunStep(x)
    BY <1>5
  <2>2. CASE StartSession(x)
    BY <2>2, SessionStarts
  <2>a. CASE RecordSession(x)
    BY <2>a, SessionIsRecorded
  <2>b. CASE Cancel(x)
    BY <2>b, Cancels
  <2>3. CASE ResumeSession(x)
    BY <2>3, SessionResumes
  <2>4. CASE EndRetained(x)
    BY <2>4, RunIsRetained
  <2>5. CASE Retry(x) \/ RetentionEnds(x)
    BY <2>5, RowIsQueued
  <2>6. CASE \/ EndWithoutSession(x) \/ CancelStopped(x) \/ CancelUnstopped(x)
             \/ \E s \in {"FAILED", "ENDED"} : EndStopped(x, s)
             \/ \E s \in {"FAILED", "ENDED"}, c \in {"PENDING", "FAILED"} :
                  EndUnstopped(x, s, c)
    BY <2>6, RunEnds
  <2> QED
    BY <2>1, <2>2, <2>a, <2>b, <2>3, <2>4, <2>5, <2>6 DEF RunStep
<1>6. CASE \E x \in Executions : Passes(x)
  BY <1>6, CleanupIsDue, CleanupRuns DEF Passes
<1>7. CASE (\E e \in Endpoints : ServerFlips(e)) \/ (\E k \in kernels : KernelDies(k))
  BY <1>7, WorldMoves
<1> QED
  BY <1>1, <1>2, <1>3, <1>4, <1>5, <1>6, <1>7 DEF Next

\* The invariant of every reachable state.
LEMMA Invariance ==
    Spec => []Inv
<1>1. Inv /\ UNCHANGED vars => Inv'
  <2> SUFFICES ASSUME Inv, UNCHANGED vars PROVE Inv'
    OBVIOUS
  <2>1. UNCHANGED <<row, exec, attempts, claim, stray, probe, kernels>>
    BY DEF vars
  <2>2. probe' \in [Probers -> Probe]
    BY <2>1 DEF Inv, TypeOK
  <2> QED
    BY <2>1, <2>2, NoRowKeeps
<1> QED
  BY <1>1, InvInit, InvStep, PTL DEF Spec

\* The rows, probes, claims and kernels have their types in every reachable
\* state, whatever the operator, the probes and the claims do in between.
THEOREM TypeCorrect ==
    Spec => []TypeOK
<1>1. Inv => TypeOK
  BY DEF Inv
<1> QED
  BY <1>1, Invariance, PTL

\* For any number of Targets, Executions, commands and probes: a purge leaves
\* no kernel behind that an Attempt on the Target recorded, on a server the
\* Target still points to (purge_target and its cleanup checks).  Kernels that a
\* Worker started and never recorded are outside, and so are those an upsert
\* left on an earlier endpoint.
THEOREM PurgeIsSafe ==
    Spec => []PurgedLeavesNoKernel
<1>1. Inv => PurgedLeavesNoKernel
  <2> SUFFICES ASSUME Inv, NEW x \in Executions, NEW i \in DOMAIN attempts[x],
                      row[attempts[x][i].target].state = "purged",
                      NEW k \in kernels, k.id = attempts[x][i].session, k.id \notin stray
               PROVE  FALSE
    BY DEF PurgedLeavesNoKernel
  <2>0. TypeOK /\ ExecIsGood(x) /\ AttemptsAreGood(x) /\ KernelsAreKnown(x)
    BY DEF Inv, WorkIsGood
  <2>1. i \in 1 .. Len(attempts[x])
    BY <2>0, AttemptsAre
  <2>2. k.id # None
    BY <2>0, NoneAssumption DEF TypeOK
  <2>3. exec[x].session = k.id
    BY <2>0, <2>1 DEF KernelsAreKnown, Recorded
  <2>4. attempts[x][i].target = exec[x].target
    BY <2>0, <2>1, <2>2, <2>3 DEF AttemptsAreGood
  <2>5. Live(exec[x].target)
    BY <2>0, <2>2, <2>3 DEF ExecIsGood
  <2> QED
    BY <2>4, <2>5 DEF Live
<1> QED
  BY <1>1, Invariance, PTL

\* For any number of claims, cancellations and retries in any order: a step that
\* gives an Execution a slot leaves no more reservations on the Target than it
\* has slots, so the slot that two claims chose from the same unlocked read is
\* given to one of them; and an ACTIVE Target was found healthy where it is now
\* (RuntimeTargetSelector and its second check).
THEOREM SlotsAreGivenOnce ==
    Spec => SlotsAreRespected
<1>1. ASSUME Inv, [Next]_vars, NEW t \in Targets, ~(Holders(t)' \subseteq Holders(t))
      PROVE  /\ Cardinality(Reservations(t)') <= row'[t].max
             /\ row[t].status = "ACTIVE" => row[t].verified = row[t].endpoint
  <2>1. ~UNCHANGED vars
    BY <1>1 DEF vars, Holders, Reservations, Reserves
  <2>2. Adds
    BY <1>1, <2>1, InvStep DEF NoneIsAdded
  <2>3. PICK x \in Executions, u \in Targets :
          /\ Cardinality(Reservations(u)) < row[u].max /\ Only(x)
          /\ UNCHANGED row /\ \A v \in Targets : Reserves(x, v)' => v = u
    BY <2>2 DEF Adds
  <2>4. ASSUME NEW y \in Executions, y # x
        PROVE  (Reserves(y, t)' <=> Reserves(y, t)) /\ exec'[y] = exec[y]
    <3>1. exec'[y] = exec[y] /\ attempts'[y] = attempts[y]
      BY <2>3, <2>4 DEF Only
    <3> QED
      BY <3>1 DEF Reserves
  <2>5. t = u
    BY <1>1, <2>3, <2>4 DEF Holders, Reservations
  <2>6. Reservations(t)' \subseteq Reservations(t) \cup {x}
    BY <2>4 DEF Reservations
  <2>7. IsFiniteSet(Reservations(t))
    BY ExecutionsAssumption, FS_Subset DEF Reservations
  <2>8. PICK c \in Nat : c = Cardinality(Reservations(t))
    BY <2>7, FS_CardinalityType
  <2>9. /\ IsFiniteSet(Reservations(t) \cup {x})
        /\ Cardinality(Reservations(t) \cup {x}) \in Nat
        /\ Cardinality(Reservations(t) \cup {x}) <= c + 1
    <3>1. /\ IsFiniteSet(Reservations(t) \cup {x})
          /\ \/ Cardinality(Reservations(t) \cup {x}) = c
             \/ Cardinality(Reservations(t) \cup {x}) = c + 1
      BY <2>7, <2>8, FS_AddElement
    <3> QED
      BY <2>8, <3>1
  <2>10. PICK h : h = Reservations(t)'
    OBVIOUS
  <2>11. Cardinality(h) \in Nat /\ Cardinality(h) <= Cardinality(Reservations(t) \cup {x})
    BY <2>6, <2>9, <2>10, FS_Subset, FS_CardinalityType
  <2>12. row[t].max \in Nat /\ c < row[t].max /\ row'[t].max = row[t].max
    BY <1>1, <2>3, <2>5, <2>8 DEF Inv, TypeOK, Row
  <2>13. Cardinality(h) <= row'[t].max
    BY <2>8, <2>9, <2>11, <2>12
  <2>14. row[t].status = "ACTIVE" => row[t].verified = row[t].endpoint
    BY <1>1 DEF Inv, ActiveIsVerified
  <2> QED
    BY <2>10, <2>13, <2>14
<1>2. Inv /\ [Next]_vars =>
        [\A t \in Targets :
           Live(t)' /\ ~(Holders(t)' \subseteq Holders(t)) =>
             /\ Cardinality(Reservations(t)') <= row'[t].max
             /\ row[t].status = "ACTIVE" => row[t].verified = row[t].endpoint]_vars
  BY <1>1
<1> QED
  BY <1>2, Invariance, PTL DEF Spec, SlotsAreRespected

=============================================================================
