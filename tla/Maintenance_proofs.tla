------------------------- MODULE Maintenance_proofs -------------------------
(***************************************************************************)
(* Proofs about Maintenance, for every set of Executions, Workers, keys    *)
(* and Runs and every number of retries and faults.  Both theorems rest on *)
(* one argument: while the service drains nobody holds the share lock on   *)
(* admission, and an Execution that is quiet can then only stay quiet.     *)
(***************************************************************************)
EXTENDS Maintenance, TLAPS

ExecStatus ==
    {"QUEUED", "RUNNING", "WAITING", "FINALIZING", "CANCEL_REQUESTED", "FAILED",
     "ENDED"}

Exec == [status : ExecStatus, session : BOOLEAN, unresolved : BOOLEAN]

RunRow ==
    [status : {"none", "REQUESTED", "RUNNING", "SUCCEEDED"},
     owner : Workers \cup {None, "gone"},
     lease : {"none", "live", "expired"}, token : Nat]

TargetStatus == {"none", "PENDING", "STOP_REQUESTED", "STOPPED"}

Reconciliation ==
    [pc : {"idle", "list", "next", "cancel", "mark"}, run : Runs \cup {None},
     token : Nat, todo : SUBSET Executions, at : Executions \cup {None}]

\* Every table and every local state of a Worker keeps its shape.
TypeOK ==
    /\ admission \in {"ACTIVE", "DRAINING"}
    /\ run \in [Runs -> RunRow]
    /\ target \in [Runs -> [Executions -> TargetStatus]]
    /\ rec \in [Workers -> Reconciliation]
    /\ exec \in [Executions -> Exec]
    /\ view \in 0 .. 5

\* What makes a drained service stay drained.
Drained ==
    /\ admission = "DRAINING" => claiming = {}
    /\ \A r \in Runs : r \notin undrained => admission = "DRAINING"
    /\ view # 0 => admission = "DRAINING"

\* A reconciliation under way names a Run, and an Execution it deals with.
Reconciling ==
    \A w \in Workers :
        /\ rec[w].pc # "idle" => rec[w].run \in Runs
        /\ rec[w].pc \in {"cancel", "mark"} => rec[w].at \in Executions

\* A cleanup is unresolved only while the row names a session.
UnresolvedHasSession == \A x \in Executions : Unresolved(x) => exec[x].session

\* What a Run did not have to stop, or has stopped, is quiet; and a Run that
\* succeeded has nothing left to stop.
Stopped ==
    \A r \in Runs :
        /\ run[r].status = "SUCCEEDED" =>
             \A x \in Executions : target[r][x] \in {"none", "STOPPED"}
        /\ r \notin undrained =>
             \A x \in Executions :
                 target[r][x] \in {"none", "STOPPED"} => Quiet(x)

\* What the counts of a report have established so far: after the first,
\* nothing runs without a session; after the last there is no session.
Counts ==
    /\ view >= 2 => \A x \in Executions : Active(x) => exec[x].session
    /\ view = 5 => \A x \in Executions : ~exec[x].session

IInv ==
    /\ TypeOK /\ Drained /\ Reconciling /\ UnresolvedHasSession /\ Stopped
    /\ Counts

----------------------------------------------------------------------------
(* How one step changes the Executions. *)

\* The row e may follow that of x: an unresolved cleanup has its session, and
\* while the service drains x neither runs without a session nor gets one
\* unless it already ran without.
MayFollow(x, e) ==
    /\ e \in Exec
    /\ e.unresolved => e.session
    /\ admission = "DRAINING" /\ (Active(x) => exec[x].session) =>
         /\ e.status \in {"RUNNING", "WAITING", "FINALIZING"} => e.session
         /\ ~exec[x].session => ~e.session

ExecsMove ==
    /\ exec' \in [Executions -> Exec]
    /\ \A x \in Executions : MayFollow(x, exec'[x])

\* A row may stay as it is, and what is left of an Execution that ends may
\* follow it.
LEMMA RowsMayFollow ==
    ASSUME TypeOK, UnresolvedHasSession, NEW x \in Executions
    PROVE  /\ MayFollow(x, exec[x])
           /\ \A e \in EndedWith(x, "FAILED") \cup EndedWith(x, "ENDED") :
                MayFollow(x, e)
<1>1. exec[x] \in Exec /\ (exec[x].unresolved => exec[x].session)
  BY DEF TypeOK, UnresolvedHasSession, Unresolved
<1>2. MayFollow(x, exec[x])
  BY <1>1 DEF MayFollow, Active
<1>3. ASSUME NEW s \in {"FAILED", "ENDED"}, NEW e \in EndedWith(x, s)
      PROVE  MayFollow(x, e)
  <2>1. \/ e = [status |-> s, session |-> FALSE, unresolved |-> FALSE]
        \/ exec[x].session /\ e = [exec[x] EXCEPT !.status = s, !.unresolved = TRUE]
    BY <1>3 DEF EndedWith
  <2>2. CASE e = [status |-> s, session |-> FALSE, unresolved |-> FALSE]
    BY <2>2, <1>3 DEF MayFollow, Exec, ExecStatus
  <2>3. CASE /\ exec[x].session
             /\ e = [exec[x] EXCEPT !.status = s, !.unresolved = TRUE]
    <3>1. e.session = exec[x].session /\ e.status = s /\ e \in Exec
      BY <2>3, <1>1, <1>3 DEF Exec, ExecStatus
    <3> QED
      BY <3>1, <2>3, <1>3 DEF MayFollow
  <2> QED
    BY <2>1, <2>2, <2>3
<1> QED
  BY <1>2, <1>3

\* A step that changes the row of one Execution, or of none.
LEMMA OneExecMoves ==
    ASSUME TypeOK, UnresolvedHasSession, NEW x \in Executions, NEW e,
           MayFollow(x, e), exec' = [exec EXCEPT ![x] = e]
    PROVE  ExecsMove
<1>1. \A y \in Executions : exec'[y] = IF y = x THEN e ELSE exec[y]
  BY DEF TypeOK
<1>2. exec' \in [Executions -> Exec]
  BY DEF TypeOK, MayFollow
<1> QED
  BY <1>1, <1>2, RowsMayFollow DEF ExecsMove

\* A step that leaves the Executions alone.
LEMMA NoExecMoves ==
    ASSUME TypeOK, UnresolvedHasSession, exec' = exec
    PROVE  ExecsMove
BY RowsMayFollow DEF ExecsMove, TypeOK

\* Claims, runs, commands, deadlines and passes move Executions as MayFollow
\* says: the one way to run without a session is the commit of a claim that
\* holds the share lock, and nobody holds it while the service drains.
LEMMA ExecutionStepMoves ==
    ASSUME TypeOK, UnresolvedHasSession, Drained, NEW x \in Executions,
           Works(x) \/ Ends(x)
    PROVE  ExecsMove
<1>1. /\ exec[x] \in Exec /\ exec \in [Executions -> Exec]
      /\ exec[x].unresolved => exec[x].session
  BY DEF TypeOK, UnresolvedHasSession, Unresolved
<1>2. ASSUME NEW e, Becomes(x, e), MayFollow(x, e)
      PROVE  ExecsMove
  BY <1>2, OneExecMoves DEF Becomes
<1>3. CASE ClaimBegin(x)
  BY <1>3, NoExecMoves DEF ClaimBegin
<1>4. CASE ClaimCommit(x)
  <2>1. CASE exec' = [exec EXCEPT ![x].status = "RUNNING"]
    <3>1. admission # "DRAINING"
      BY <1>4 DEF ClaimCommit, Drained
    <3>2. MayFollow(x, [exec[x] EXCEPT !.status = "RUNNING"])
      BY <3>1, <1>1 DEF MayFollow, Exec, ExecStatus
    <3>3. exec' = [exec EXCEPT ![x] = [exec[x] EXCEPT !.status = "RUNNING"]]
      BY <2>1, <1>1
    <3> QED
      BY <3>2, <3>3, OneExecMoves
  <2> QED
    BY <2>1, <1>4, NoExecMoves DEF ClaimCommit
<1>5. CASE ClaimOwned(x)
  <2>1. MayFollow(x, [exec[x] EXCEPT !.status = "RUNNING"])
    BY <1>5, <1>1 DEF ClaimOwned, MayFollow, Exec, ExecStatus
  <2> QED
    BY <2>1, <1>2, <1>5 DEF ClaimOwned
<1>6. CASE StartSession(x)
  <2>1. MayFollow(x, [exec[x] EXCEPT !.session = TRUE])
    BY <1>6, <1>1 DEF StartSession, MayFollow, Exec, Active
  <2> QED
    BY <2>1, <1>2, <1>6 DEF StartSession
<1>7. CASE RunPauses(x)
  <2>1. PICK s \in {"FAILED", "WAITING"} : Becomes(x, [exec[x] EXCEPT !.status = s])
    BY <1>7 DEF RunPauses
  <2>2. MayFollow(x, [exec[x] EXCEPT !.status = s])
    BY <1>7, <1>1 DEF RunPauses, MayFollow, Exec, ExecStatus, Active
  <2> QED
    BY <2>1, <2>2, <1>2
<1>8. CASE RequestOperation(x)
  <2>1. PICK s \in {"QUEUED", "FINALIZING"} :
               Becomes(x, [exec[x] EXCEPT !.status = s])
    BY <1>8 DEF RequestOperation
  <2>2. MayFollow(x, [exec[x] EXCEPT !.status = s])
    BY <1>8, <1>1 DEF RequestOperation, MayFollow, Exec, ExecStatus, Active
  <2> QED
    BY <2>1, <2>2, <1>2
<1>9. CASE Retry(x)
  <2>1. MayFollow(x, [exec[x] EXCEPT !.status = "QUEUED"])
    BY <1>9, <1>1 DEF Retry, MayFollow, Exec, ExecStatus
  <2>2. exec' = [exec EXCEPT ![x] = [exec[x] EXCEPT !.status = "QUEUED"]]
    BY <1>9, <1>1 DEF Retry
  <2> QED
    BY <2>1, <2>2, OneExecMoves
<1>10. CASE CallerCancels(x)
  <2>1. MayFollow(x, Cancelled(x))
    BY <1>1 DEF Cancelled, MayFollow, Exec, ExecStatus
  <2> QED
    BY <2>1, <1>2, <1>10 DEF CallerCancels
<1>11. CASE RunEnds(x) \/ DeadlinePasses(x) \/ CancellationEnds(x)
  BY <1>11, <1>2, RowsMayFollow DEF RunEnds, DeadlinePasses, CancellationEnds
<1>12. CASE Cleanup(x)
  <2>1. MayFollow(x, [exec[x] EXCEPT !.session = FALSE, !.unresolved = FALSE])
    BY <1>12, <1>1 DEF Cleanup, Terminal, MayFollow, Exec
  <2> QED
    BY <2>1, <1>2, <1>12 DEF Cleanup
<1> QED
  BY <1>3, <1>4, <1>5, <1>6, <1>7, <1>8, <1>9, <1>10, <1>11, <1>12
     DEF Works, Ends

\* No step of a reconciler, of an operator or of a report moves an Execution
\* otherwise.
LEMMA StepMoves ==
    ASSUME TypeOK, UnresolvedHasSession, Drained, Reconciling, [Next]_vars
    PROVE  ExecsMove
<1>1. CASE \E x \in Executions : Works(x) \/ Ends(x)
  BY <1>1, ExecutionStepMoves
<1>2. ASSUME NEW w \in Workers, CancelTarget(w)
      PROVE  ExecsMove
  <2>1. rec[w].at \in Executions
    BY <1>2 DEF CancelTarget, Reconciling
  <2>2. MayFollow(rec[w].at, Cancelled(rec[w].at))
    BY <2>1 DEF TypeOK, UnresolvedHasSession, Unresolved, Cancelled, MayFollow,
                Exec, ExecStatus
  <2> QED
    BY <2>1, <2>2, <1>2, OneExecMoves, NoExecMoves DEF CancelTarget
<1>3. CASE \/ \E k \in Keys, desired \in {"ACTIVE", "DRAINING"} :
                SetState(k, desired)
           \/ \E r \in Runs : CreateRun(r) \/ LeaseExpires(r)
           \/ \E w \in Workers :
                \/ \E r \in Runs : ClaimRun(w, r)
                \/ PendingTargetIds(w) \/ Renew(w) \/ MarkStopRequested(w)
                \/ RefreshAndFinalize(w) \/ CancelFails(w) \/ WorkerDies(w)
           \/ ViewBegin \/ ViewCount \/ ViewEnd \/ UNCHANGED vars
  <2>1. exec' = exec
    BY <1>3 DEF SetState, CreateRun, LeaseExpires, ClaimRun, PendingTargetIds,
                Renew, MarkStopRequested, RefreshAndFinalize, CancelFails,
                WorkerDies, ViewBegin, ViewCount, ViewEnd, vars
  <2> QED
    BY <2>1, NoExecMoves
<1> QED
  BY <1>1, <1>2, <1>3 DEF Next, Reconcile

\* While the service drains, an Execution that is quiet stays quiet.
LEMMA QuietStays ==
    ASSUME ExecsMove, admission = "DRAINING", NEW x \in Executions, Quiet(x)
    PROVE  Quiet(x)'
BY DEF ExecsMove, MayFollow, Quiet, Active, Unresolved

----------------------------------------------------------------------------
(* Types. *)

\* A Worker's reconciliation goes on.
LEMMA ReconciliationType ==
    ASSUME TypeOK, Reconciling, NEW w \in Workers, NEW n \in Reconciliation,
           n.pc # "idle" => n.run \in Runs,
           n.pc \in {"cancel", "mark"} => n.at \in Executions,
           rec' = [rec EXCEPT ![w] = n]
    PROVE  rec' \in [Workers -> Reconciliation] /\ Reconciling'
<1>1. \A v \in Workers : rec'[v] = IF v = w THEN n ELSE rec[v]
  BY DEF TypeOK
<1> QED
  BY <1>1 DEF TypeOK, Reconciling

\* Types, and that only a Run with a lease is being reconciled.
LEMMA TypeStep ==
    ASSUME TypeOK, Reconciling, ExecsMove, [Next]_vars
    PROVE  TypeOK' /\ Reconciling'
<1>e. exec' \in [Executions -> Exec]
  BY DEF ExecsMove
<1>i. Idle \in Reconciliation /\ Idle.pc = "idle"
  BY DEF Idle, Reconciliation
<1>1. CASE \/ \E x \in Executions : Works(x) \/ Ends(x)
           \/ \E k \in Keys, desired \in {"ACTIVE", "DRAINING"} :
                SetState(k, desired)
           \/ ViewBegin \/ ViewCount \/ ViewEnd \/ UNCHANGED vars
  <2>1. run' = run /\ target' = target /\ rec' = rec
    BY <1>1 DEF Works, Ends, ClaimBegin, ClaimCommit, ClaimOwned, StartSession,
                RunPauses, RequestOperation, Retry, CallerCancels, RunEnds,
                DeadlinePasses, CancellationEnds, Cleanup, Becomes, SetState,
                ViewBegin, ViewCount, ViewEnd, vars
  <2>2. admission' \in {"ACTIVE", "DRAINING"} /\ view' \in 0 .. 5
    <3>1. CASE UNCHANGED vars \/ \E x \in Executions : Works(x) \/ Ends(x)
      <4>1. admission' = admission /\ view' = view
        BY <3>1
           DEF Works, Ends, ClaimBegin, ClaimCommit, ClaimOwned, StartSession,
               RunPauses, RequestOperation, Retry, CallerCancels, RunEnds,
               DeadlinePasses, CancellationEnds, Cleanup, Becomes, vars, control
      <4> QED
        BY <4>1 DEF TypeOK
    <3>2. ASSUME NEW k \in Keys, NEW desired \in {"ACTIVE", "DRAINING"},
                 SetState(k, desired)
          PROVE  admission' \in {"ACTIVE", "DRAINING"} /\ view' \in 0 .. 5
      BY <3>2 DEF SetState, TypeOK
    <3>3. CASE ViewBegin \/ ViewCount \/ ViewEnd
      BY <3>3 DEF ViewBegin, ViewCount, ViewEnd, control, TypeOK
    <3> QED
      BY <1>1, <3>1, <3>2, <3>3
  <2> QED
    BY <2>1, <2>2, <1>e DEF TypeOK, Reconciling
<1>2. ASSUME NEW r \in Runs, CreateRun(r)
      PROVE  TypeOK' /\ Reconciling'
  <2> DEFINE s == IF {x \in Executions : Selected(x)} = {} THEN "SUCCEEDED"
                  ELSE "REQUESTED"
  <2>1. s \in {"SUCCEEDED", "REQUESTED"} /\ run' = [run EXCEPT ![r].status = s]
    BY <1>2 DEF CreateRun
  <2> HIDE DEF s
  <2>2. run' \in [Runs -> RunRow]
    BY <2>1 DEF TypeOK, RunRow
  <2>3. target' \in [Runs -> [Executions -> TargetStatus]]
    BY <1>2 DEF CreateRun, TypeOK, TargetStatus
  <2> QED
    BY <2>2, <2>3, <1>2, <1>e DEF CreateRun, TypeOK, Reconciling
<1>3. ASSUME NEW r \in Runs, LeaseExpires(r)
      PROVE  TypeOK' /\ Reconciling'
  BY <1>3, <1>e DEF LeaseExpires, control, TypeOK, Reconciling, RunRow
<1>4. ASSUME NEW w \in Workers, NEW r \in Runs, ClaimRun(w, r)
      PROVE  TypeOK' /\ Reconciling'
  <2> DEFINE token == IF run[r].lease = "live" THEN run[r].token
                      ELSE run[r].token + 1
             n == [Idle EXCEPT !.pc = "list", !.run = r, !.token = token]
  <2>1. token \in Nat
    BY DEF TypeOK, RunRow
  <2>2. run' \in [Runs -> RunRow]
    BY <1>4, <2>1 DEF ClaimRun, TypeOK, RunRow
  <2>3. n \in Reconciliation /\ n.run = r /\ n.pc = "list"
    BY <2>1 DEF Idle, Reconciliation
  <2>4. rec' = [rec EXCEPT ![w] = n]
    BY <1>4 DEF ClaimRun
  <2>5. rec' \in [Workers -> Reconciliation] /\ Reconciling'
    BY <2>3, <2>4, ReconciliationType
  <2> QED
    BY <1>4, <1>e, <2>2, <2>5 DEF ClaimRun, control, TypeOK
<1>5. ASSUME NEW w \in Workers,
             \/ PendingTargetIds(w) \/ Renew(w) \/ CancelTarget(w)
             \/ CancelFails(w)
      PROVE  TypeOK' /\ Reconciling'
  <2>1. rec' \in [Workers -> Reconciliation] /\ Reconciling'
    <3>1. CASE PendingTargetIds(w)
      <4> DEFINE n == [rec[w] EXCEPT !.pc = "next", !.todo =
                         {x \in Executions : target[rec[w].run][x] = "PENDING"}]
      <4>1. rec[w] \in Reconciliation /\ rec[w].run \in Runs
        BY <3>1 DEF PendingTargetIds, TypeOK, Reconciling
      <4>2. n \in Reconciliation /\ n.pc = "next" /\ n.run = rec[w].run
        BY <4>1 DEF Reconciliation
      <4>3. rec' = [rec EXCEPT ![w] = n]
        BY <3>1 DEF PendingTargetIds, TypeOK
      <4> QED
        BY <4>1, <4>2, <4>3, ReconciliationType
    <3>2. CASE Renew(w)
      <4>1. rec[w] \in Reconciliation /\ rec[w].run \in Runs
        BY <3>2 DEF Renew, TypeOK, Reconciling
      <4>2. CASE rec' = [rec EXCEPT ![w] = Idle]
        BY <4>2, <1>i, ReconciliationType
      <4>3. ASSUME NEW x \in rec[w].todo,
                   rec' = [rec EXCEPT ![w].pc = "cancel", ![w].todo = @ \ {x},
                                      ![w].at = x]
            PROVE  rec' \in [Workers -> Reconciliation] /\ Reconciling'
        <5> DEFINE n == [rec[w] EXCEPT !.pc = "cancel", !.todo = @ \ {x}, !.at = x]
        <5>1. /\ n \in Reconciliation /\ n.pc = "cancel" /\ n.run = rec[w].run
              /\ n.at \in Executions
          BY <4>1 DEF Reconciliation
        <5>2. rec' = [rec EXCEPT ![w] = n]
          BY <4>3 DEF TypeOK
        <5> QED
          BY <4>1, <5>1, <5>2, ReconciliationType
      <4> QED
        BY <3>2, <4>2, <4>3 DEF Renew
    <3>3. CASE CancelTarget(w)
      BY <3>3 DEF CancelTarget, TypeOK, Reconciling, Reconciliation
    <3>4. CASE CancelFails(w)
      BY <3>4 DEF CancelFails, TypeOK, Reconciling, Reconciliation
    <3> QED
      BY <1>5, <3>1, <3>2, <3>3, <3>4
  <2>2. run' = run /\ target' = target /\ admission' = admission /\ view' = view
    BY <1>5 DEF PendingTargetIds, Renew, CancelTarget, CancelFails, control
  <2> QED
    BY <2>1, <2>2, <1>e DEF TypeOK
<1>6. ASSUME NEW w \in Workers, MarkStopRequested(w)
      PROVE  TypeOK' /\ Reconciling'
  <2>1. rec' \in [Workers -> Reconciliation] /\ Reconciling'
    BY <1>6 DEF MarkStopRequested, TypeOK, Reconciling, Reconciliation
  <2>2. rec[w].run \in Runs /\ rec[w].at \in Executions
    BY <1>6 DEF MarkStopRequested, Reconciling
  <2>3. target' \in [Runs -> [Executions -> TargetStatus]]
    BY <1>6, <2>2 DEF MarkStopRequested, TypeOK, TargetStatus
  <2> QED
    BY <1>6, <2>1, <2>3, <1>e DEF MarkStopRequested, TypeOK, control
<1>7. ASSUME NEW w \in Workers, RefreshAndFinalize(w)
      PROVE  TypeOK' /\ Reconciling'
  <2>1. rec' \in [Workers -> Reconciliation] /\ Reconciling'
    BY <1>7, <1>i DEF RefreshAndFinalize, TypeOK, Reconciling
  <2>2. rec[w].run \in Runs
    BY <1>7 DEF RefreshAndFinalize, Reconciling
  <2>3. \A r \in Runs, x \in Executions : Refreshed(r, x) \in TargetStatus
    BY DEF Refreshed, TypeOK, TargetStatus
  <2>4. target' \in [Runs -> [Executions -> TargetStatus]]
    BY <1>7, <2>2, <2>3 DEF RefreshAndFinalize, TypeOK
  <2>5. run' \in [Runs -> RunRow]
    <3>1. \/ run' = run
          \/ run' = [run EXCEPT ![rec[w].run] =
                       [run[rec[w].run] EXCEPT !.status = "SUCCEEDED",
                                               !.owner = None, !.lease = "none"]]
      BY <1>7, <2>2 DEF RefreshAndFinalize, TypeOK
    <3>2. [run[rec[w].run] EXCEPT !.status = "SUCCEEDED", !.owner = None,
                                  !.lease = "none"] \in RunRow
      BY <2>2 DEF TypeOK, RunRow
    <3> QED
      BY <3>1, <3>2, <2>2 DEF TypeOK
  <2> QED
    BY <1>7, <2>1, <2>4, <2>5, <1>e DEF RefreshAndFinalize, TypeOK, control
<1>8. ASSUME NEW w \in Workers, WorkerDies(w)
      PROVE  TypeOK' /\ Reconciling'
  <2>1. rec' \in [Workers -> Reconciliation] /\ Reconciling'
    BY <1>8, <1>i DEF WorkerDies, TypeOK, Reconciling
  <2>2. run' \in [Runs -> RunRow]
    BY <1>8 DEF WorkerDies, TypeOK, RunRow
  <2> QED
    BY <1>8, <2>1, <2>2, <1>e DEF WorkerDies, TypeOK, control
<1> QED
  BY <1>1, <1>2, <1>3, <1>4, <1>5, <1>6, <1>7, <1>8 DEF Next, Reconcile

----------------------------------------------------------------------------
(* Admission. *)

\* Admission becomes ACTIVE only where undrained takes in every Run and the
\* report starts again; it becomes DRAINING only when no claim holds the lock.
LEMMA DrainedStep ==
    ASSUME TypeOK, Drained, [Next]_vars
    PROVE  Drained'
<1>1. CASE \E x \in Executions : Works(x) \/ Ends(x)
  <2>1. /\ admission' = admission /\ undrained' = undrained /\ view' = view
        /\ claiming' = {} \/ admission = "ACTIVE" \/ claiming' \subseteq claiming
    BY <1>1 DEF Works, Ends, ClaimBegin, ClaimCommit, ClaimOwned, StartSession,
                RunPauses, RequestOperation, Retry, CallerCancels, RunEnds,
                DeadlinePasses, CancellationEnds, Cleanup, Becomes, control,
                AdmissionIsActive
  <2> QED
    BY <2>1 DEF Drained
<1>2. ASSUME NEW k \in Keys, NEW desired \in {"ACTIVE", "DRAINING"},
             SetState(k, desired)
      PROVE  Drained'
  BY <1>2 DEF SetState, AdmissionUnlocked, Drained
<1>3. ASSUME NEW r \in Runs, CreateRun(r)
      PROVE  Drained'
  BY <1>3 DEF CreateRun, AdmissionUnlocked, Drained
<1>4. CASE ViewBegin \/ ViewCount \/ ViewEnd
  BY <1>4 DEF ViewBegin, ViewCount, ViewEnd, control, Drained
<1>5. CASE \/ \E r \in Runs : LeaseExpires(r)
           \/ \E w \in Workers : Reconcile(w) \/ CancelFails(w) \/ WorkerDies(w)
           \/ UNCHANGED vars
  <2>1. UNCHANGED <<admission, undrained, view, claiming>>
    BY <1>5 DEF LeaseExpires, Reconcile, ClaimRun, PendingTargetIds, Renew,
                CancelTarget, MarkStopRequested, RefreshAndFinalize,
                CancelFails, WorkerDies, control, vars
  <2> QED
    BY <2>1 DEF Drained
<1> QED
  BY <1>1, <1>2, <1>3, <1>4, <1>5 DEF Next

----------------------------------------------------------------------------
(* Runs and reports. *)

\* Once a Run has drained, nothing starts behind it and what it waits for stops.
LEMMA StoppedStep ==
    ASSUME TypeOK, Reconciling, UnresolvedHasSession, Drained, Stopped,
           ExecsMove, [Next]_vars
    PROVE  Stopped'
<1>q. \A r \in Runs : r \notin undrained =>
        \A x \in Executions :
            target[r][x] \in {"none", "STOPPED"} => Quiet(x) /\ Quiet(x)'
  BY QuietStays DEF Stopped, Drained
<1>1. ASSUME run' = run, target' = target, undrained \subseteq undrained'
      PROVE  Stopped'
  BY <1>1, <1>q DEF Stopped
<1>2. CASE \/ \E x \in Executions : Works(x) \/ Ends(x)
           \/ \E k \in Keys, desired \in {"ACTIVE", "DRAINING"} :
                SetState(k, desired)
           \/ \E w \in Workers :
                \/ PendingTargetIds(w) \/ Renew(w) \/ CancelTarget(w)
                \/ CancelFails(w)
           \/ ViewBegin \/ ViewCount \/ ViewEnd \/ UNCHANGED vars
  <2>1. run' = run /\ target' = target /\ undrained \subseteq undrained'
    BY <1>2 DEF Works, Ends, ClaimBegin, ClaimCommit, ClaimOwned, StartSession,
                RunPauses, RequestOperation, Retry, CallerCancels, RunEnds,
                DeadlinePasses, CancellationEnds, Cleanup, Becomes, SetState,
                PendingTargetIds, Renew, CancelTarget, CancelFails, ViewBegin,
                ViewCount, ViewEnd, vars, control
  <2> QED
    BY <2>1, <1>1
<1>3. ASSUME NEW r \in Runs, CreateRun(r)
      PROVE  Stopped'
  <2>1. /\ exec' = exec /\ undrained' = undrained \ {r}
        /\ \A q \in Runs : q # r => run'[q] = run[q] /\ target'[q] = target[q]
        /\ \A x \in Executions :
             target'[r][x] = IF Selected(x) THEN "PENDING" ELSE "none"
        /\ run'[r].status = "SUCCEEDED" => ~\E x \in Executions : Selected(x)
    BY <1>3 DEF CreateRun, TypeOK, RunRow
  <2>2. \A x \in Executions : ~Selected(x) => Quiet(x)'
    BY <2>1 DEF Selected, Quiet, Active, Unresolved, UnresolvedHasSession
  <2> QED
    BY <2>1, <2>2, <1>q DEF Stopped
<1>4. ASSUME NEW r \in Runs,
             LeaseExpires(r) \/ \E w \in Workers : ClaimRun(w, r)
      PROVE  Stopped'
  <2>1. \E n : run' = [run EXCEPT ![r] = n] /\ n.status \in {"RUNNING", run[r].status}
    <3>1. CASE LeaseExpires(r)
      <4>1. /\ run' = [run EXCEPT ![r] = [run[r] EXCEPT !.lease = "expired"]]
            /\ [run[r] EXCEPT !.lease = "expired"].status = run[r].status
        BY <3>1 DEF LeaseExpires, TypeOK, RunRow
      <4> QED
        BY <4>1
    <3>2. ASSUME NEW w \in Workers, ClaimRun(w, r)
          PROVE  \E n : run' = [run EXCEPT ![r] = n] /\ n.status = "RUNNING"
      <4> DEFINE n == [status |-> "RUNNING", owner |-> w, lease |-> "live",
                       token |-> IF run[r].lease = "live" THEN run[r].token
                                 ELSE run[r].token + 1]
      <4>1. run' = [run EXCEPT ![r] = n] /\ n.status = "RUNNING"
        BY <3>2 DEF ClaimRun
      <4> QED
        BY <4>1
    <3> QED
      BY <1>4, <3>1, <3>2
  <2>2. target' = target /\ undrained' = undrained
    BY <1>4 DEF LeaseExpires, ClaimRun, control
  <2>3. \A q \in Runs : run'[q].status = "SUCCEEDED" => run[q].status = "SUCCEEDED"
    BY <2>1 DEF TypeOK
  <2> QED
    BY <2>2, <2>3, <1>q DEF Stopped
<1>5. ASSUME NEW w \in Workers, WorkerDies(w)
      PROVE  Stopped'
  <2>1. /\ target' = target /\ undrained' = undrained
        /\ \A q \in Runs : run'[q].status = "SUCCEEDED" => run[q].status = "SUCCEEDED"
    BY <1>5 DEF WorkerDies, control, TypeOK, RunRow
  <2> QED
    BY <2>1, <1>q DEF Stopped
<1>6. ASSUME NEW w \in Workers, MarkStopRequested(w)
      PROVE  Stopped'
  <2>1. rec[w].run \in Runs /\ rec[w].at \in Executions
    BY <1>6 DEF MarkStopRequested, Reconciling
  <2>2. /\ run' = run /\ undrained' = undrained
        /\ \A q \in Runs, x \in Executions :
             \/ target'[q][x] = target[q][x]
             \/ target'[q][x] = "STOP_REQUESTED" /\ run[q].status = "RUNNING"
    BY <1>6, <2>1 DEF MarkStopRequested, Owned, control, TypeOK
  <2> QED
    BY <2>2, <1>q DEF Stopped
<1>7. ASSUME NEW w \in Workers, RefreshAndFinalize(w)
      PROVE  Stopped'
  <2> DEFINE r == rec[w].run
  <2>1. r \in Runs /\ undrained' = undrained /\ exec' = exec
    BY <1>7 DEF RefreshAndFinalize, Reconciling, control
  <2>2. CASE ~Owned(w)
    BY <2>2, <1>1, <1>7, <2>1 DEF RefreshAndFinalize
  <2>3. CASE Owned(w)
    <3>1. /\ \A q \in Runs : q # r => run'[q] = run[q] /\ target'[q] = target[q]
          /\ \A x \in Executions : target'[r][x] = Refreshed(r, x)
      <4>1. /\ target' = [target EXCEPT ![r] = [x \in Executions |-> Refreshed(r, x)]]
            /\ \/ run' = run
               \/ run' = [run EXCEPT ![r].status = "SUCCEEDED",
                                     ![r].owner = None, ![r].lease = "none"]
        BY <1>7, <2>3 DEF RefreshAndFinalize
      <4>2. \A q \in Runs : q # r => run'[q] = run[q]
        BY <4>1, <2>1 DEF TypeOK
      <4> QED
        BY <4>1, <4>2, <2>1 DEF TypeOK
    <3>2. run'[r].status = "SUCCEEDED" =>
            \A x \in Executions : Refreshed(r, x) \notin {"PENDING", "STOP_REQUESTED"}
      BY <1>7, <2>1, <2>3 DEF RefreshAndFinalize, TypeOK, Owned
    <3>3. \A x \in Executions : Refreshed(r, x) \in TargetStatus
      BY <2>1 DEF Refreshed, TypeOK, TargetStatus
    <3>4. \A x \in Executions : Refreshed(r, x) \in {"none", "STOPPED"} =>
            target[r][x] \in {"none", "STOPPED"} \/ IsStopped(x)
      BY <2>1 DEF Refreshed
    <3>5. \A x \in Executions : IsStopped(x) => Quiet(x)'
      BY <2>1 DEF IsStopped, Terminal, Quiet, Active, Unresolved
    <3>6. run'[r].status = "SUCCEEDED" =>
            \A x \in Executions : target'[r][x] \in {"none", "STOPPED"}
      BY <3>1, <3>2, <3>3 DEF TargetStatus
    <3>7. r \notin undrained =>
            \A x \in Executions : target'[r][x] \in {"none", "STOPPED"} => Quiet(x)'
      BY <3>1, <3>4, <3>5, <2>1, <1>q
    <3> QED
      BY <3>1, <3>6, <3>7, <2>1, <1>q DEF Stopped
  <2> QED
    BY <2>2, <2>3
<1> QED
  BY <1>2, <1>3, <1>4, <1>5, <1>6, <1>7 DEF Next, Reconcile

\* The numbers of a report stay true until the switch is opened again.
LEMMA CountsStep ==
    ASSUME TypeOK, UnresolvedHasSession, Drained, Counts, ExecsMove, [Next]_vars
    PROVE  Counts'
<1>m. ASSUME admission = "DRAINING", NEW x \in Executions,
             Active(x) => exec[x].session
      PROVE  /\ Active(x)' => exec'[x].session
             /\ ~exec[x].session => ~exec'[x].session
  BY <1>m DEF ExecsMove, MayFollow, Active
<1>1. ASSUME view' = view PROVE Counts'
  <2>1. view \in 0 .. 5
    BY DEF TypeOK
  <2>2. view >= 2 => admission = "DRAINING"
    BY <2>1 DEF Drained
  <2> QED
    BY <1>1, <1>m, <2>1, <2>2 DEF Counts
<1>2. ASSUME view' = 0 \/ view' = 1 PROVE Counts'
  BY <1>2 DEF Counts
<1>3. CASE ViewCount
  <2>1. exec' = exec /\ view \in 1 .. 4
    BY <1>3 DEF ViewCount
  <2>2. CASE \E x \in Executions : Counted(view, x)
    BY <2>2, <1>3, <1>2 DEF ViewCount
  <2>3. CASE ~\E x \in Executions : Counted(view, x)
    <3>1. view' = view + 1
      BY <2>3, <1>3 DEF ViewCount
    <3>2. CASE view = 1
      <4>1. \A x \in Executions : ~Active(x)
        BY <2>3, <3>2 DEF Counted
      <4> QED
        BY <3>1, <3>2, <4>1, <2>1 DEF Counts, Active
    <3>3. CASE view \in {2, 3}
      BY <3>1, <3>3, <2>1 DEF Counts, Active
    <3>4. CASE view = 4
      <4>1. \A x \in Executions : ~exec[x].session
        BY <2>3, <3>4 DEF Counted
      <4> QED
        BY <3>1, <3>4, <4>1, <2>1 DEF Counts, Active
    <3> QED
      BY <2>1, <3>2, <3>3, <3>4
  <2> QED
    BY <2>2, <2>3
<1>4. ASSUME NEW k \in Keys, NEW desired \in {"ACTIVE", "DRAINING"},
             SetState(k, desired)
      PROVE  Counts'
  BY <1>4, <1>1, <1>2 DEF SetState
<1>5. CASE ViewBegin \/ ViewEnd
  BY <1>5, <1>2 DEF ViewBegin, ViewEnd
<1>6. CASE \/ \E x \in Executions : Works(x) \/ Ends(x)
           \/ \E r \in Runs : CreateRun(r) \/ LeaseExpires(r)
           \/ \E w \in Workers : Reconcile(w) \/ CancelFails(w) \/ WorkerDies(w)
           \/ UNCHANGED vars
  <2>1. view' = view
    BY <1>6 DEF Works, Ends, ClaimBegin, ClaimCommit, ClaimOwned, StartSession,
                RunPauses, RequestOperation, Retry, CallerCancels, RunEnds,
                DeadlinePasses, CancellationEnds, Cleanup, Becomes, CreateRun,
                LeaseExpires, Reconcile, ClaimRun, PendingTargetIds, Renew,
                CancelTarget, MarkStopRequested, RefreshAndFinalize,
                CancelFails, WorkerDies, vars
  <2> QED
    BY <2>1, <1>1
<1> QED
  BY <1>3, <1>4, <1>5, <1>6 DEF Next

----------------------------------------------------------------------------
\* The invariant holds when the service starts.
LEMMA InvInit == Init => IInv
<1> SUFFICES ASSUME Init PROVE IInv
  OBVIOUS
<1>1. TypeOK
  <2>1. NoRun \in RunRow
    BY DEF NoRun, RunRow
  <2>2. Idle \in Reconciliation
    BY DEF Idle, Reconciliation
  <2> QED
    BY <2>1, <2>2 DEF Init, TypeOK, TargetStatus, Exec, ExecStatus
<1>2. Drained /\ UnresolvedHasSession /\ Counts
  BY DEF Init, Drained, UnresolvedHasSession, Unresolved, Counts
<1>3. Reconciling
  BY DEF Init, Idle, Reconciling
<1>4. Stopped
  BY DEF Init, NoRun, Stopped
<1> QED
  BY <1>1, <1>2, <1>3, <1>4 DEF IInv

\* No step of an API process, a Worker or a reconciler breaks it.
LEMMA InvStep == IInv /\ [Next]_vars => IInv'
<1> SUFFICES ASSUME IInv, [Next]_vars PROVE IInv'
  OBVIOUS
<1>1. ExecsMove
  BY StepMoves DEF IInv
<1>2. UnresolvedHasSession'
  BY <1>1 DEF ExecsMove, MayFollow, UnresolvedHasSession, Unresolved
<1>3. TypeOK' /\ Reconciling'
  BY <1>1, TypeStep DEF IInv
<1>4. Drained' /\ Stopped' /\ Counts'
  BY <1>1, DrainedStep, StoppedStep, CountsStep DEF IInv
<1> QED
  BY <1>2, <1>3, <1>4 DEF IInv

\* A Maintenance Run that succeeded has stopped everything, for good: unless
\* admission is activated again no Execution is active or owns a session,
\* whatever claims, retries and callers did while Workers reconciled the Run,
\* died or lost its lease (create, _refresh_and_finalize, claim's share lock).
THEOREM RunStopsEverything == Spec => []QuietWhenDone
<1>1. IInv => QuietWhenDone
  BY DEF IInv, Stopped, QuietWhenDone
<1> QED
  BY <1>1, InvInit, InvStep, PTL DEF Spec

\* A report that says safe_to_shutdown is true when it is made although its
\* four counts are separate statements between which work moves (_to_view).
THEOREM ReportIsTrue == Spec => []SafeReportIsTrue
<1>1. IInv => SafeReportIsTrue
  BY DEF IInv, TypeOK, Counts, UnresolvedHasSession, SafeReportIsTrue,
         SafeToShutdown, Quiet, Unresolved
<1> QED
  BY <1>1, InvInit, InvStep, PTL DEF Spec

=============================================================================
