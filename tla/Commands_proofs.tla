--------------------------- MODULE Commands_proofs ---------------------------
(***************************************************************************)
(* Proofs about Commands, for any set of handlers and of requests, any     *)
(* step limits and any number of Executions and versions.                  *)
(*                                                                         *)
(* The tables only grow: a row keeps its tenant, user, submit key,         *)
(* fingerprint, Operations, receipts and retry keys, and a cancellation    *)
(* key that was recorded.  So what a lookup has found, or a repeated       *)
(* request finds, cannot be taken away by whatever commits in between.     *)
(***************************************************************************)
EXTENDS Commands, SequenceTheorems, TLAPS

Key == STRING \ {"none"}

\* Only of requests that were admitted
Fingerprints == {Fingerprint(r) : r \in {q \in Requests : Admissible(q)}}

Status ==
    Terminal \cup {"QUEUED", "RUNNING", "WAITING_FOR_OPERATION", "FINALIZING",
                   "CANCEL_REQUESTED"}

OperationRow ==
    [key : Key, fp : Fingerprints, first : Nat, last : Nat, status : Status]

ReceiptRow ==
    [key : Key, type : CommandType, fp : Fingerprints, op : Nat, version : Nat]

ExecutionRow ==
    [tenant : STRING, user : STRING, key : Key, fp : Fingerprints,
     mode : {"SINGLE", "MULTI"}, status : Status, version : Nat, steps : Nat,
     ops : Seq(OperationRow), receipts : SUBSET ReceiptRow,
     retries : Seq(Key), retryCount : Nat, cancelKey : Key \cup {"none"},
     retryable : BOOLEAN, finReq : BOOLEAN]

Errors ==
    {"NOT_FOUND", "INVALID", "INVALID_STATE", "VERSION_CONFLICT",
     "IDEMPOTENCY_CONFLICT", "INTERNAL_ERROR"}

InFlight == {"lookup", "write", "resolve"}

CallRow ==
    [pc : InFlight \cup {"idle", "done"}, req : Requests \cup {NoRequest},
     repeat : BOOLEAN, answer : {"none", "OK"} \cup Errors, exec : Nat, op : Nat]

\* Every table and every handler keeps its shape.
TypeOK ==
    /\ execs \in Seq(ExecutionRow)
    /\ call \in [Calls -> CallRow]

----------------------------------------------------------------------------
(* What holds of the row of one Execution. *)

\* The first Operation is that of the submit request.
FirstOperationIsSubmitted(x) ==
    /\ Len(x.ops) > 0
    /\ x.ops[1].key = x.key /\ x.ops[1].fp = x.fp
    /\ x.fp.user = x.user

OperationKeysDiffer(x) ==
    \A m, n \in 1 .. Len(x.ops) : x.ops[m].key = x.ops[n].key => m = n

RetriesAreCounted(x) ==
    /\ x.retryCount = Len(x.retries)
    /\ \A m, n \in 1 .. Len(x.retries) : x.retries[m] = x.retries[n] => m = n

\* A receipt is of a version that was decided, it is the only one of its
\* version and of its key, and an Operation's names that Operation.
ReceiptsAgree(x) ==
    \A y \in x.receipts :
        /\ y.version < x.version
        /\ \A z \in x.receipts : y.version = z.version \/ y.key = z.key => y = z
        /\ y.fp.type = y.type /\ y.type \in {"operation", "finalize"}
        /\ y.type = "operation" =>
             /\ y.op \in 1 .. Len(x.ops)
             /\ x.ops[y.op].key = y.key /\ x.ops[y.op].fp = y.fp

\* After a finalization nothing is waited for any more.
FinalizedIsFinal(x) ==
    \A y \in x.receipts : y.type = "finalize" =>
        /\ x.mode = "MULTI" /\ x.finReq
        /\ x.status \notin {"QUEUED", "WAITING_FOR_OPERATION"}

\* A cancellation that has a key is the Execution's last command.
CancelledIsFinal(x) ==
    x.cancelKey # "none" =>
        \/ x.status \in {"CANCEL_REQUESTED", "CANCELLED"}
        \/ x.status = "FAILED" /\ ~x.retryable

RowOK(x) ==
    /\ FirstOperationIsSubmitted(x) /\ OperationKeysDiffer(x)
    /\ RetriesAreCounted(x) /\ ReceiptsAgree(x)
    /\ FinalizedIsFinal(x) /\ CancelledIsFinal(x)

\* What a later row y of the same Execution has kept of x.
Grows(x, y) ==
    /\ y.tenant = x.tenant /\ y.user = x.user /\ y.key = x.key /\ y.fp = x.fp
    /\ Len(x.ops) <= Len(y.ops)
    /\ \A n \in 1 .. Len(x.ops) :
         y.ops[n].key = x.ops[n].key /\ y.ops[n].fp = x.ops[n].fp
    /\ x.receipts \subseteq y.receipts
    /\ \A k : Contains(x.retries, k) => Contains(y.retries, k)
    /\ x.cancelKey # "none" => y.cancelKey = x.cancelKey

----------------------------------------------------------------------------
(* The inductive invariant. *)

SubmitKeysDiffer ==
    \A d, e \in 1 .. Len(execs) :
        execs[d].tenant = execs[e].tenant /\ execs[d].key = execs[e].key => d = e

\* A request in flight was admitted, and the effect of a repeated one is
\* still there when it is looked up.
CallOK(c) ==
    LET r == call[c].req
    IN  /\ call[c].pc \in InFlight =>
             r \in Requests /\ Authorized(r) /\ Admissible(r)
        /\ call[c].pc \notin InFlight => r = NoRequest
        /\ call[c].repeat => call[c].pc = "lookup" /\ Applied(r)

IInv ==
    /\ TypeOK
    /\ \A e \in 1 .. Len(execs) : RowOK(execs[e])
    /\ SubmitKeysDiffer
    /\ \A c \in Calls : CallOK(c)

----------------------------------------------------------------------------
(* Rows. *)

\* A fingerprint keeps everything but the key.
LEMMA FingerprintKeeps ==
    ASSUME NEW r \in Requests
    PROVE  /\ r \in Request
           /\ Admissible(r) => Fingerprint(r) \in Fingerprints
           /\ Fingerprint(r).type = r.type /\ Fingerprint(r).user = r.user
BY RequestsAssumption DEF Fingerprint, Fingerprints, Request

\* A row that no command touches grows trivially.
LEMMA GrowsReflexive == \A x : x \in ExecutionRow => Grows(x, x)
BY DEF Grows, ExecutionRow

\* What a step may do to the table: rows stay, grow and remain as they should.
TableGrows ==
    /\ execs' \in Seq(ExecutionRow)
    /\ Len(execs) <= Len(execs')
    /\ \A e \in 1 .. Len(execs') : RowOK(execs'[e])
    /\ \A e \in 1 .. Len(execs) : Grows(execs[e], execs'[e])
    /\ SubmitKeysDiffer'

\* A step that leaves the table alone keeps what holds of its rows.
LEMMA TableStays ==
    ASSUME IInv, execs' = execs
    PROVE  TableGrows
<1>1. \A e \in 1 .. Len(execs) : Grows(execs[e], execs[e])
  BY GrowsReflexive, ElementOfSeq DEF IInv, TypeOK
<1>2. Len(execs) \in Nat
  BY LenProperties DEF IInv, TypeOK
<1> QED
  BY <1>1, <1>2 DEF TableGrows, IInv, TypeOK, SubmitKeysDiffer

\* The transaction saves one row.
LEMMA RowSaved ==
    ASSUME IInv, NEW e \in 1 .. Len(execs), NEW y \in ExecutionRow,
           RowOK(y), Grows(execs[e], y), execs' = [execs EXCEPT ![e] = y]
    PROVE  TableGrows
<1>1. /\ execs' \in Seq(ExecutionRow) /\ Len(execs') = Len(execs)
      /\ \A d \in 1 .. Len(execs) : execs'[d] = IF d = e THEN y ELSE execs[d]
  BY ExceptSeq DEF IInv, TypeOK
<1>2. Len(execs) \in Nat
  BY LenProperties DEF IInv, TypeOK
<1>3. \A d \in 1 .. Len(execs) : Grows(execs[d], execs'[d]) /\ RowOK(execs'[d])
  BY <1>1, GrowsReflexive, ElementOfSeq DEF IInv, TypeOK
<1>4. \A d \in 1 .. Len(execs) :
        execs'[d].tenant = execs[d].tenant /\ execs'[d].key = execs[d].key
  BY <1>3 DEF Grows
<1>5. SubmitKeysDiffer'
  BY <1>1, <1>4 DEF IInv, SubmitKeysDiffer
<1> QED
  BY <1>1, <1>2, <1>3, <1>5 DEF TableGrows

\* The Execution of a submit key, if there is one.
LEMMA KeyOwner ==
    ASSUME IInv, NEW r
    PROVE  /\ SubmitKeyOwner(r) # 0 =>
                /\ SubmitKeyOwner(r) \in 1 .. Len(execs)
                /\ execs[SubmitKeyOwner(r)].tenant = r.tenant
                /\ execs[SubmitKeyOwner(r)].key = r.key
           /\ \A e \in 1 .. Len(execs) :
                execs[e].tenant = r.tenant /\ execs[e].key = r.key =>
                    SubmitKeyOwner(r) = e
<1> DEFINE owners == {e \in DOMAIN execs :
                        execs[e].tenant = r.tenant /\ execs[e].key = r.key}
<1>1. DOMAIN execs = 1 .. Len(execs) /\ Len(execs) \in Nat
  BY LenProperties DEF IInv, TypeOK
<1>2. SubmitKeyOwner(r) = IF owners = {} THEN 0 ELSE CHOOSE e \in owners : TRUE
  BY DEF SubmitKeyOwner
<1>3. \A d, e \in owners : d = e
  BY <1>1 DEF IInv, SubmitKeysDiffer
<1>4. ASSUME NEW e \in owners PROVE SubmitKeyOwner(r) = e
  <2>1. owners # {} /\ (CHOOSE d \in owners : TRUE) \in owners
    BY <1>4
  <2> QED
    BY <2>1, <1>2, <1>3, <1>4
<1>5. owners = {} => SubmitKeyOwner(r) = 0
  BY <1>2
<1>6. \A e \in 1 .. Len(execs) :
        execs[e].tenant = r.tenant /\ execs[e].key = r.key <=> e \in owners
  BY <1>1
<1>7. SubmitKeyOwner(r) # 0 => SubmitKeyOwner(r) \in owners
  <2> HIDE DEF owners
  <2> QED
    BY <1>4, <1>5
<1>8. \A e \in owners : /\ e \in 1 .. Len(execs)
                        /\ execs[e].tenant = r.tenant /\ execs[e].key = r.key
  BY <1>1
<1> HIDE DEF owners
<1> QED
  BY <1>4, <1>6, <1>7, <1>8

\* A submit whose key is free adds a row.
LEMMA RowAdded ==
    ASSUME IInv, NEW r \in Requests, SubmitKeyOwner(r) = 0, r.first = 0,
           Admissible(r),
           r.count > 0, execs' = Append(execs, NewExecution(r))
    PROVE  /\ TableGrows
           /\ Len(execs') = Len(execs) + 1
           /\ execs'[Len(execs) + 1] = NewExecution(r)
<1> DEFINE x == NewExecution(r)
           o == NewOperation(r)
<1>1. r \in Request /\ Fingerprint(r) \in Fingerprints
  BY FingerprintKeeps
<1>2. o \in OperationRow /\ o.key = r.key /\ o.fp = Fingerprint(r)
  BY <1>1 DEF NewOperation, OperationRow, Request, Key, Status
<1>3. /\ <<o>> \in Seq(OperationRow) /\ Len(<<o>>) = 1 /\ <<o>>[1] = o
      /\ <<>> \in Seq(Key) /\ Len(<<>>) = 0
  BY <1>2
<1>4. x \in ExecutionRow
  <2> DEFINE ops == <<o>>
             nothing == <<>>
  <2>1. /\ ops \in Seq(OperationRow) /\ nothing \in Seq(Key)
        /\ x = [tenant |-> r.tenant, user |-> r.user, key |-> r.key,
                fp |-> Fingerprint(r), mode |-> r.mode, status |-> "QUEUED",
                version |-> 0, steps |-> r.count, ops |-> ops,
                receipts |-> {}, retries |-> nothing, retryCount |-> 0,
                cancelKey |-> "none", retryable |-> FALSE, finReq |-> FALSE]
    BY <1>3 DEF NewExecution
  <2>2. /\ r.tenant \in STRING /\ r.user \in STRING /\ r.key \in Key
        /\ r.mode \in {"SINGLE", "MULTI"} /\ r.count \in Nat
        /\ "QUEUED" \in Status
    BY <1>1 DEF Request, Key, Status
  <2> HIDE DEF ops, nothing, x, o
  <2> QED
    BY <1>1, <2>1, <2>2 DEF ExecutionRow
<1>5. /\ x.ops = <<o>> /\ x.key = r.key /\ x.fp = Fingerprint(r)
      /\ x.user = r.user /\ x.retries = <<>> /\ x.retryCount = 0
      /\ x.receipts = {} /\ x.cancelKey = "none" /\ x.tenant = r.tenant
  BY DEF NewExecution
<1>6. RowOK(x)
  <2>1. FirstOperationIsSubmitted(x)
    BY <1>2, <1>3, <1>5, FingerprintKeeps DEF FirstOperationIsSubmitted
  <2>2. OperationKeysDiffer(x) /\ RetriesAreCounted(x)
    BY <1>3, <1>5 DEF OperationKeysDiffer, RetriesAreCounted
  <2>3. ReceiptsAgree(x) /\ FinalizedIsFinal(x) /\ CancelledIsFinal(x)
    BY <1>5 DEF ReceiptsAgree, FinalizedIsFinal, CancelledIsFinal
  <2> QED
    BY <2>1, <2>2, <2>3 DEF RowOK
<1> HIDE DEF x, o
<1>7. execs \in Seq(ExecutionRow) /\ Len(execs) \in Nat
  BY LenProperties DEF IInv, TypeOK
<1>8. /\ execs' \in Seq(ExecutionRow) /\ Len(execs') = Len(execs) + 1
      /\ \A e \in 1 .. Len(execs) : execs'[e] = execs[e]
      /\ execs'[Len(execs) + 1] = x
  BY <1>4, <1>7, AppendProperties DEF x
<1>9. \A e \in 1 .. Len(execs') :
        e \in 1 .. Len(execs) \/ e = Len(execs) + 1
  BY <1>7, <1>8
<1>10. SubmitKeysDiffer'
  <2>1. \A e \in 1 .. Len(execs) :
          ~(execs[e].tenant = x.tenant /\ execs[e].key = x.key)
    BY <1>5, KeyOwner
  <2> QED
    BY <2>1, <1>8, <1>9 DEF IInv, SubmitKeysDiffer
<1>11. \A e \in 1 .. Len(execs) : Grows(execs[e], execs'[e])
  BY <1>7, <1>8, GrowsReflexive, ElementOfSeq
<1>12. \A e \in 1 .. Len(execs') : RowOK(execs'[e])
  BY <1>6, <1>8, <1>9 DEF IInv
<1> QED
  BY <1>7, <1>8, <1>10, <1>11, <1>12 DEF TableGrows, x

----------------------------------------------------------------------------
(* The rows the commands and the Workers write. *)

\* The row an Operation leaves.
LEMMA OperationRowOK ==
    ASSUME IInv, NEW r \in Requests, r.type = "operation",
           r.exec \in 1 .. Len(execs), r.count > 0,
           Admissible(r),
           Refusal(execs[r.exec], r) = "none", StepsValid(r, execs[r.exec].steps),
           OperationByKey(r.exec, r.key) = 0,
           NEW y, y = [execs[r.exec] EXCEPT
               !.status = "QUEUED", !.finReq = FALSE, !.steps = @ + r.count,
               !.ops = Append(@, NewOperation(r)),
               !.receipts = @ \cup {Receipt(r, Len(execs[r.exec].ops) + 1)},
               !.version = execs[r.exec].version + 1]
    PROVE  y \in ExecutionRow /\ RowOK(y) /\ Grows(execs[r.exec], y)
<1> DEFINE x == execs[r.exec]
           n == Len(x.ops) + 1
           o == NewOperation(r)
           z == Receipt(r, n)
<1>1. x \in ExecutionRow /\ RowOK(x)
  BY ElementOfSeq DEF IInv, TypeOK
<1>2. r \in Request /\ Fingerprint(r) \in Fingerprints
      /\ Fingerprint(r).type = r.type
  BY FingerprintKeeps
<1>3. x.mode = "MULTI" /\ x.status = "WAITING_FOR_OPERATION" /\ x.version = r.version
  BY DEF Refusal
<1>4. o \in OperationRow /\ o.key = r.key /\ o.fp = Fingerprint(r)
  BY <1>2 DEF NewOperation, OperationRow, Request, Key, Status
<1>5. x.ops \in Seq(OperationRow) /\ Len(x.ops) \in Nat
  BY <1>1, LenProperties DEF ExecutionRow
<1>6. /\ Append(x.ops, o) \in Seq(OperationRow)
      /\ Len(Append(x.ops, o)) = n
      /\ \A i \in 1 .. Len(x.ops) : Append(x.ops, o)[i] = x.ops[i]
      /\ Append(x.ops, o)[n] = o
  BY <1>4, <1>5, AppendProperties
<1>7. /\ z \in ReceiptRow /\ z.key = r.key /\ z.version = x.version
      /\ z.fp = Fingerprint(r) /\ z.op = n /\ z.type = r.type
  BY <1>2, <1>3, <1>5 DEF Receipt, ReceiptRow, Request, Key
<1> HIDE DEF o, z
<1>8. /\ y \in ExecutionRow
      /\ y.ops = Append(x.ops, o) /\ y.receipts = x.receipts \cup {z}
      /\ y.version = x.version + 1 /\ y.status = "QUEUED"
      /\ y.tenant = x.tenant /\ y.user = x.user /\ y.key = x.key /\ y.fp = x.fp
      /\ y.retries = x.retries /\ y.retryCount = x.retryCount
      /\ y.cancelKey = x.cancelKey
  <2> DEFINE ops == Append(x.ops, o)
             receipts == x.receipts \cup {z}
             steps == x.steps + r.count
  <2>1. /\ ops \in Seq(OperationRow) /\ receipts \in SUBSET ReceiptRow
        /\ steps \in Nat /\ x.version + 1 \in Nat
    BY <1>1, <1>2, <1>6, <1>7 DEF ExecutionRow, Request
  <2>2. y = [x EXCEPT !.status = "QUEUED", !.finReq = FALSE, !.steps = steps,
                      !.ops = ops, !.receipts = receipts, !.version = x.version + 1]
    BY <1>1 DEF ExecutionRow, o, z
  <2> HIDE DEF ops, receipts, steps, x
  <2>3. y \in ExecutionRow
    BY <2>1, <2>2, <1>1 DEF ExecutionRow, Status
  <2>4. /\ y.ops = ops /\ y.receipts = receipts
        /\ y.version = x.version + 1 /\ y.status = "QUEUED"
        /\ y.tenant = x.tenant /\ y.user = x.user /\ y.key = x.key /\ y.fp = x.fp
        /\ y.retries = x.retries /\ y.retryCount = x.retryCount
        /\ y.cancelKey = x.cancelKey
    BY <2>2, <1>1 DEF ExecutionRow
  <2> QED
    BY <2>3, <2>4 DEF ops, receipts
<1>9. \A i \in 1 .. Len(x.ops) : x.ops[i].key # r.key
  <2>1. DOMAIN x.ops = 1 .. Len(x.ops)
    BY <1>5, LenProperties
  <2>2. {i \in DOMAIN x.ops : x.ops[i].key = r.key} = {}
    <3> DEFINE numbers == {i \in DOMAIN x.ops : x.ops[i].key = r.key}
    <3>1. OperationByKey(r.exec, r.key) =
            IF numbers = {} THEN 0 ELSE CHOOSE i \in numbers : TRUE
      BY DEF OperationByKey
    <3>2. numbers # {} => (CHOOSE i \in numbers : TRUE) \in 1 .. Len(x.ops)
      BY <2>1
    <3> QED
      BY <3>1, <3>2, <1>5
  <2> QED
    BY <2>1, <2>2
<1>10. FirstOperationIsSubmitted(y) /\ OperationKeysDiffer(y)
  <2>1. \A i \in 1 .. Len(y.ops) : i \in 1 .. Len(x.ops) \/ i = n
    BY <1>5, <1>6, <1>8
  <2>2. OperationKeysDiffer(y)
    BY <2>1, <1>1, <1>4, <1>6, <1>8, <1>9 DEF RowOK, OperationKeysDiffer
  <2>3. FirstOperationIsSubmitted(y)
    BY <1>1, <1>5, <1>6, <1>8 DEF RowOK, FirstOperationIsSubmitted
  <2> QED
    BY <2>2, <2>3
<1>11. RetriesAreCounted(y) /\ CancelledIsFinal(y)
  BY <1>1, <1>3, <1>8 DEF RowOK, RetriesAreCounted, CancelledIsFinal
<1>12. \A w \in x.receipts : w.type = "operation" /\ w.key # r.key
  BY <1>1, <1>3, <1>9 DEF RowOK, ReceiptsAgree, FinalizedIsFinal
<1>13. ReceiptsAgree(y)
  <2>1. ASSUME NEW w \in x.receipts PROVE
            /\ w.version < y.version /\ w.version # z.version /\ w.key # z.key
            /\ w.fp.type = w.type /\ w.op \in 1 .. n
            /\ y.ops[w.op].key = w.key /\ y.ops[w.op].fp = w.fp
    <3>1. w.version \in Nat /\ x.version \in Nat
      BY <1>1 DEF ExecutionRow, ReceiptRow
    <3>2. /\ w.version < x.version /\ w.fp.type = w.type
          /\ w.op \in 1 .. Len(x.ops)
          /\ x.ops[w.op].key = w.key /\ x.ops[w.op].fp = w.fp
      BY <1>1, <1>12 DEF RowOK, ReceiptsAgree
    <3>3. w.op \in 1 .. n /\ y.ops[w.op] = x.ops[w.op]
      BY <3>2, <1>5, <1>6, <1>8
    <3> QED
      BY <3>1, <3>2, <3>3, <1>7, <1>8, <1>12
  <2>2. /\ z.version < y.version /\ z.fp.type = z.type
        /\ z.type = "operation" => z.op \in 1 .. n /\ y.ops[z.op].key = z.key
                                   /\ y.ops[z.op].fp = z.fp
    <3>1. x.version \in Nat /\ n \in 1 .. n
      BY <1>1, <1>5 DEF ExecutionRow
    <3> QED
      BY <3>1, <1>2, <1>4, <1>6, <1>7, <1>8
  <2>3. Len(y.ops) = n
    BY <1>6, <1>8
  <2>4. \A v, w \in x.receipts : v.version = w.version \/ v.key = w.key => v = w
    BY <1>1 DEF RowOK, ReceiptsAgree
  <2> HIDE DEF n, x
  <2> QED
    BY <2>1, <2>2, <2>3, <2>4, <1>7, <1>8, <1>12 DEF ReceiptsAgree
<1>14. FinalizedIsFinal(y)
  BY <1>7, <1>8, <1>12 DEF FinalizedIsFinal
<1>15. Grows(x, y)
  BY <1>5, <1>6, <1>8 DEF Grows
<1> QED
  BY <1>8, <1>10, <1>11, <1>13, <1>14, <1>15 DEF RowOK

\* The commands that add no Operation keep the keys of those there are.
KeepsOperations(x, y) ==
    /\ y.tenant = x.tenant /\ y.user = x.user /\ y.key = x.key /\ y.fp = x.fp
    /\ Len(y.ops) = Len(x.ops)
    /\ \A n \in 1 .. Len(x.ops) :
         y.ops[n].key = x.ops[n].key /\ y.ops[n].fp = x.ops[n].fp
    /\ x.cancelKey # "none" => y.cancelKey = x.cancelKey
    /\ y.version = x.version + 1

\* A command that keeps the Operations of a row adds to its retries and its
\* receipts only: the row stays as it should be and grows.
LEMMA KeptRowOK ==
    ASSUME NEW x \in ExecutionRow, NEW y, RowOK(x), KeepsOperations(x, y),
           FinalizedIsFinal(y), CancelledIsFinal(y),
           \/ y.retries = x.retries /\ y.retryCount = x.retryCount
           \/ RetriesAreCounted(y)
              /\ \A k : Contains(x.retries, k) => Contains(y.retries, k),
           \/ y.receipts = x.receipts
           \/ ReceiptsAgree(y) /\ x.receipts \subseteq y.receipts
    PROVE  RowOK(y) /\ Grows(x, y)
<1>1. Len(x.ops) \in Nat /\ x.version \in Nat
  BY LenProperties DEF ExecutionRow
<1>2. FirstOperationIsSubmitted(y) /\ OperationKeysDiffer(y)
  BY <1>1 DEF RowOK, KeepsOperations, FirstOperationIsSubmitted,
              OperationKeysDiffer
<1>3. RetriesAreCounted(y)
  BY DEF RowOK, RetriesAreCounted
<1>4. ReceiptsAgree(y)
  <2>1. CASE y.receipts = x.receipts
    <3>1. \A z \in x.receipts : z.version \in Nat
      BY DEF ExecutionRow, ReceiptRow
    <3> QED
      BY <2>1, <3>1, <1>1 DEF RowOK, KeepsOperations, ReceiptsAgree
  <2> QED
    BY <2>1
<1>5. Grows(x, y)
  BY <1>1 DEF KeepsOperations, Grows
<1> QED
  BY <1>2, <1>3, <1>4, <1>5 DEF RowOK

\* The row a finalization leaves.
LEMMA FinalizeRowOK ==
    ASSUME IInv, NEW r \in Requests, r.type = "finalize",
           r.exec \in 1 .. Len(execs), Refusal(execs[r.exec], r) = "none",
           ReceiptsFor(r.exec, r.key) = {},
           NEW y, y = [execs[r.exec] EXCEPT
               !.status = "FINALIZING", !.finReq = TRUE,
               !.receipts = @ \cup {Receipt(r, 0)},
               !.version = execs[r.exec].version + 1]
    PROVE  y \in ExecutionRow /\ RowOK(y) /\ Grows(execs[r.exec], y)
<1> DEFINE x == execs[r.exec]
           z == Receipt(r, 0)
<1>1. x \in ExecutionRow /\ RowOK(x)
  BY ElementOfSeq DEF IInv, TypeOK
<1>2. r \in Request /\ Fingerprint(r) \in Fingerprints
      /\ Fingerprint(r).type = r.type
  BY FingerprintKeeps DEF Admissible, Carries
<1>3. x.mode = "MULTI" /\ x.status = "WAITING_FOR_OPERATION" /\ x.version = r.version
  BY DEF Refusal
<1>4. /\ z \in ReceiptRow /\ z.key = r.key /\ z.version = x.version
      /\ z.fp.type = z.type /\ z.type = "finalize"
  BY <1>2, <1>3 DEF Receipt, ReceiptRow, Request, Key, CommandType
<1>5. \A w \in x.receipts : w.key # r.key
  BY DEF ReceiptsFor
<1> HIDE DEF z
<1>6. /\ y \in ExecutionRow
      /\ y.receipts = x.receipts \cup {z} /\ y.status = "FINALIZING"
      /\ y.finReq /\ y.mode = "MULTI"
      /\ y.ops = x.ops /\ y.retries = x.retries /\ y.retryCount = x.retryCount
      /\ y.cancelKey = x.cancelKey
      /\ KeepsOperations(x, y)
  <2> DEFINE receipts == x.receipts \cup {z}
  <2>1. receipts \in SUBSET ReceiptRow /\ x.version + 1 \in Nat
    BY <1>1, <1>4 DEF ExecutionRow
  <2>2. y = [x EXCEPT !.status = "FINALIZING", !.finReq = TRUE,
                      !.receipts = receipts, !.version = x.version + 1]
    BY <1>1 DEF ExecutionRow, z
  <2> HIDE DEF receipts, x
  <2>3. y \in ExecutionRow
    BY <2>1, <2>2, <1>1 DEF ExecutionRow, Status
  <2>4. /\ y.receipts = receipts /\ y.status = "FINALIZING"
        /\ y.finReq /\ y.mode = x.mode
        /\ y.ops = x.ops /\ y.retries = x.retries /\ y.retryCount = x.retryCount
        /\ y.cancelKey = x.cancelKey /\ y.version = x.version + 1
        /\ y.tenant = x.tenant /\ y.user = x.user /\ y.key = x.key /\ y.fp = x.fp
    BY <2>2, <1>1 DEF ExecutionRow
  <2> QED
    BY <2>3, <2>4, <1>3 DEF receipts, KeepsOperations
<1>7. ReceiptsAgree(y)
  <2>1. \A w \in x.receipts : w.version \in Nat /\ w.version < x.version
    BY <1>1 DEF ExecutionRow, ReceiptRow, RowOK, ReceiptsAgree
  <2>2. x.version \in Nat /\ y.version = x.version + 1
    BY <1>1, <1>6 DEF ExecutionRow, KeepsOperations
  <2>3. \A w \in x.receipts :
          /\ w.version < y.version /\ w.version # z.version /\ w.key # z.key
          /\ w.fp.type = w.type /\ w.type \in {"operation", "finalize"}
          /\ w.type = "operation" => /\ w.op \in 1 .. Len(y.ops)
                                     /\ y.ops[w.op].key = w.key
                                     /\ y.ops[w.op].fp = w.fp
          /\ \A v \in x.receipts : w.version = v.version \/ w.key = v.key => w = v
    BY <2>1, <2>2, <1>1, <1>4, <1>5, <1>6 DEF RowOK, ReceiptsAgree
  <2>4. z.version < y.version
    BY <2>2, <1>4
  <2> HIDE DEF x
  <2> QED
    BY <2>3, <2>4, <1>4, <1>6 DEF ReceiptsAgree
<1>8. FinalizedIsFinal(y) /\ CancelledIsFinal(y)
  BY <1>1, <1>3, <1>6 DEF RowOK, FinalizedIsFinal, CancelledIsFinal
<1>9. x.receipts \subseteq y.receipts
  BY <1>6
<1> HIDE DEF x
<1>10. RowOK(y) /\ Grows(x, y)
  <2>1. /\ y.retries = x.retries /\ y.retryCount = x.retryCount
        /\ KeepsOperations(x, y)
    BY <1>6
  <2> QED
    BY <2>1, <1>1, <1>7, <1>8, <1>9, KeptRowOK, Zenon
<1> QED
  BY <1>6, <1>10 DEF x

\* The row a cancellation leaves.
LEMMA CancelRowOK ==
    ASSUME IInv, NEW r \in Requests, r.exec \in 1 .. Len(execs),
           execs[r.exec].status \notin Terminal \cup {"CANCEL_REQUESTED"},
           NEW y, y = [execs[r.exec] EXCEPT
               !.status = "CANCEL_REQUESTED", !.cancelKey = r.key,
               !.version = execs[r.exec].version + 1]
    PROVE  y \in ExecutionRow /\ RowOK(y) /\ Grows(execs[r.exec], y)
<1> DEFINE x == execs[r.exec]
<1>1. x \in ExecutionRow /\ RowOK(x)
  BY ElementOfSeq DEF IInv, TypeOK
<1>2. r.key \in Key
  BY FingerprintKeeps DEF Request, Key
<1>3. x.cancelKey = "none"
  BY <1>1 DEF RowOK, CancelledIsFinal, Terminal
<1> HIDE DEF x
<1>4. y = [x EXCEPT !.status = "CANCEL_REQUESTED", !.cancelKey = r.key,
                    !.version = x.version + 1]
  BY DEF x
<1>5. y \in ExecutionRow
  <2>1. r.key \in Key \cup {"none"} /\ x.version + 1 \in Nat
    BY <1>1, <1>2 DEF ExecutionRow
  <2> QED
    BY <2>1, <1>1, <1>4 DEF ExecutionRow, Status
<1>6. /\ y.status = "CANCEL_REQUESTED" /\ y.receipts = x.receipts
      /\ y.mode = x.mode /\ y.finReq = x.finReq
      /\ y.ops = x.ops /\ y.retries = x.retries /\ y.retryCount = x.retryCount
      /\ y.version = x.version + 1
      /\ y.tenant = x.tenant /\ y.user = x.user /\ y.key = x.key /\ y.fp = x.fp
  BY <1>1, <1>4 DEF ExecutionRow
<1>7. KeepsOperations(x, y)
  BY <1>3, <1>6 DEF KeepsOperations
<1>8. FinalizedIsFinal(y) /\ CancelledIsFinal(y)
  BY <1>1, <1>6 DEF RowOK, FinalizedIsFinal, CancelledIsFinal
<1>9. RowOK(y) /\ Grows(x, y)
  BY <1>1, <1>6, <1>7, <1>8, KeptRowOK
<1> QED
  BY <1>5, <1>9 DEF x

\* The row a retry leaves: its key is new, and counted.
LEMMA RetryRowOK ==
    ASSUME IInv, NEW r \in Requests, r.exec \in 1 .. Len(execs),
           Retryable(execs[r.exec]), ~RetryKeyTaken(execs[r.exec], r),
           NEW y, y = [execs[r.exec] EXCEPT
               !.status = "QUEUED", !.retryCount = @ + 1,
               !.retries = Append(@, r.key),
               !.ops[Len(execs[r.exec].ops)].status = "QUEUED",
               !.version = execs[r.exec].version + 1]
    PROVE  y \in ExecutionRow /\ RowOK(y) /\ Grows(execs[r.exec], y)
<1> DEFINE x == execs[r.exec]
           ops == [x.ops EXCEPT ![Len(x.ops)] = [x.ops[Len(x.ops)] EXCEPT
                                                   !.status = "QUEUED"]]
           retries == Append(x.retries, r.key)
<1>1. x \in ExecutionRow /\ RowOK(x)
  BY ElementOfSeq DEF IInv, TypeOK
<1>2. r.key \in Key
  BY FingerprintKeeps DEF Request, Key
<1>3. x.status = "FAILED" /\ x.mode = "SINGLE" /\ x.retryable
  BY DEF Retryable
<1>4. /\ x.ops \in Seq(OperationRow) /\ Len(x.ops) \in 1 .. Len(x.ops)
      /\ x.ops[Len(x.ops)] \in OperationRow
  BY <1>1, LenProperties, ElementOfSeq
     DEF ExecutionRow, RowOK, FirstOperationIsSubmitted
<1>5. [x.ops[Len(x.ops)] EXCEPT !.status = "QUEUED"] \in OperationRow
  BY <1>4 DEF OperationRow, Status
<1>6. /\ ops \in Seq(OperationRow) /\ Len(ops) = Len(x.ops)
      /\ \A n \in 1 .. Len(x.ops) : ops[n] =
           IF n = Len(x.ops) THEN [x.ops[Len(x.ops)] EXCEPT !.status = "QUEUED"]
           ELSE x.ops[n]
  BY <1>4, <1>5, ExceptSeq
<1>7. \A n \in 1 .. Len(x.ops) :
        ops[n].key = x.ops[n].key /\ ops[n].fp = x.ops[n].fp
  <2> DEFINE last == x.ops[Len(x.ops)]
             open == [last EXCEPT !.status = "QUEUED"]
  <2>1. open.key = last.key /\ open.fp = last.fp
    BY <1>4 DEF OperationRow
  <2>2. \A n \in 1 .. Len(x.ops) :
          ops[n] = IF n = Len(x.ops) THEN open ELSE x.ops[n]
    BY <1>6
  <2> HIDE DEF open, ops
  <2> QED
    BY <2>1, <2>2
<1>8. /\ x.retries \in Seq(Key) /\ Len(x.retries) \in Nat
      /\ x.retryCount = Len(x.retries)
  BY <1>1, LenProperties DEF ExecutionRow, RowOK, RetriesAreCounted
<1>9. /\ retries \in Seq(Key) /\ Len(retries) = Len(x.retries) + 1
      /\ \A n \in 1 .. Len(x.retries) : retries[n] = x.retries[n]
      /\ retries[Len(x.retries) + 1] = r.key
  BY <1>2, <1>8, AppendProperties
<1>10. \A n \in 1 .. Len(x.retries) : x.retries[n] # r.key
  BY DEF RetryKeyTaken, Contains
<1>11. y = [x EXCEPT !.status = "QUEUED", !.retryCount = x.retryCount + 1,
                     !.retries = retries, !.ops = ops, !.version = x.version + 1]
  BY <1>1 DEF ExecutionRow
<1>n. x.retryCount + 1 \in Nat /\ x.version + 1 \in Nat
  BY <1>1 DEF ExecutionRow
<1> HIDE DEF x, ops, retries
<1>12. y \in ExecutionRow
  BY <1>1, <1>6, <1>9, <1>11, <1>n DEF ExecutionRow, Status
<1>13. /\ y.status = "QUEUED" /\ y.receipts = x.receipts
       /\ y.mode = x.mode /\ y.cancelKey = x.cancelKey
       /\ y.ops = ops /\ y.retries = retries /\ y.retryCount = x.retryCount + 1
       /\ y.version = x.version + 1
       /\ y.tenant = x.tenant /\ y.user = x.user /\ y.key = x.key /\ y.fp = x.fp
  BY <1>1, <1>11 DEF ExecutionRow
<1>14. KeepsOperations(x, y)
  BY <1>6, <1>7, <1>13 DEF KeepsOperations
<1>15. RetriesAreCounted(y)
  <2>1. \A n \in 1 .. Len(retries) : n \in 1 .. Len(x.retries) \/ n = Len(x.retries) + 1
    BY <1>8, <1>9
  <2>2. \A m, n \in 1 .. Len(x.retries) : x.retries[m] = x.retries[n] => m = n
    BY <1>1 DEF RowOK, RetriesAreCounted
  <2> QED
    BY <2>1, <2>2, <1>8, <1>9, <1>10, <1>13 DEF RetriesAreCounted
<1>16. \A k : Contains(x.retries, k) => Contains(y.retries, k)
  <2>1. ASSUME NEW k, Contains(x.retries, k) PROVE Contains(y.retries, k)
    <3>1. PICK n \in 1 .. Len(x.retries) : x.retries[n] = k
      BY <2>1 DEF Contains
    <3>2. n \in 1 .. Len(y.retries) /\ y.retries[n] = k
      BY <3>1, <1>8, <1>9, <1>13
    <3> QED
      BY <3>2 DEF Contains
  <2> QED
    BY <2>1
<1>17. FinalizedIsFinal(y) /\ CancelledIsFinal(y)
  BY <1>1, <1>3, <1>13 DEF RowOK, FinalizedIsFinal, CancelledIsFinal
<1>18. RowOK(y) /\ Grows(x, y)
  BY <1>1, <1>13, <1>14, <1>15, <1>16, <1>17, KeptRowOK
<1> QED
  BY <1>12, <1>18 DEF x

\* The row a Worker or an audit leaves: what was finalized is not waited for
\* again, and what was cancelled only ends.
LEMMA WorkerRowOK ==
    ASSUME IInv, NEW e \in 1 .. Len(execs),
           NEW status \in WorkerTransitions(execs[e]), NEW again \in BOOLEAN,
           again => status = "FAILED" /\ execs[e].status = "RUNNING",
           NEW outcome \in OperationOutcomes(execs[e], status),
           NEW y, y = [execs[e] EXCEPT
               !.status = status, !.retryable = again,
               !.finReq = @ \/ status = "FINALIZING",
               !.ops[Len(execs[e].ops)].status = outcome,
               !.version = execs[e].version + 1]
    PROVE  y \in ExecutionRow /\ RowOK(y) /\ Grows(execs[e], y)
<1> DEFINE x == execs[e]
           last == x.ops[Len(x.ops)]
           open == [last EXCEPT !.status = outcome]
           ops == [x.ops EXCEPT ![Len(x.ops)] = open]
           finReq == x.finReq \/ status = "FINALIZING"
<1>1. x \in ExecutionRow /\ RowOK(x)
  BY ElementOfSeq DEF IInv, TypeOK
<1>2. /\ x.ops \in Seq(OperationRow) /\ Len(x.ops) \in 1 .. Len(x.ops)
      /\ last \in OperationRow
  BY <1>1, LenProperties, ElementOfSeq
     DEF ExecutionRow, RowOK, FirstOperationIsSubmitted
<1>3. status \in Status
  BY DEF WorkerTransitions, Status, Terminal
<1>4. outcome \in Status
  BY <1>2, <1>3 DEF OperationOutcomes, LastOperation, OperationRow, Status, Terminal
<1>5. open \in OperationRow /\ open.key = last.key /\ open.fp = last.fp
  BY <1>2, <1>4 DEF OperationRow
<1>6. y = [x EXCEPT !.status = status, !.retryable = again, !.finReq = finReq,
                    !.ops = ops, !.version = x.version + 1]
  BY <1>1 DEF ExecutionRow
<1>7. x.version + 1 \in Nat /\ finReq \in BOOLEAN
  BY <1>1 DEF ExecutionRow
<1> HIDE DEF open
<1>8. /\ ops \in Seq(OperationRow) /\ Len(ops) = Len(x.ops)
      /\ \A n \in 1 .. Len(x.ops) :
           ops[n] = IF n = Len(x.ops) THEN open ELSE x.ops[n]
  BY <1>2, <1>5, ExceptSeq
<1> HIDE DEF ops
<1>9. \A n \in 1 .. Len(x.ops) :
        ops[n].key = x.ops[n].key /\ ops[n].fp = x.ops[n].fp
  BY <1>5, <1>8
<1>10. \/ x.status \in {"QUEUED", "WAITING_FOR_OPERATION"}
       \/ /\ x.status = "RUNNING"
          /\ x.mode = "MULTI" /\ x.finReq =>
               status \in {"FAILED", "CANCEL_REQUESTED", "SUCCEEDED"}
       \/ /\ x.status = "FINALIZING"
          /\ status \in {"RUNNING", "FAILED", "CANCEL_REQUESTED"}
       \/ /\ x.status = "CANCEL_REQUESTED"
          /\ status \in {"CANCELLED", "FAILED"}
  BY DEF WorkerTransitions
<1> HIDE DEF x, finReq, last
<1>11. y \in ExecutionRow
  BY <1>1, <1>3, <1>6, <1>7, <1>8 DEF ExecutionRow
<1>12. /\ y.status = status /\ y.receipts = x.receipts
       /\ y.mode = x.mode /\ y.cancelKey = x.cancelKey
       /\ y.ops = ops /\ y.retries = x.retries /\ y.retryCount = x.retryCount
       /\ y.version = x.version + 1
       /\ y.tenant = x.tenant /\ y.user = x.user /\ y.key = x.key /\ y.fp = x.fp
  BY <1>1, <1>6 DEF ExecutionRow
<1>13. y.retryable = again /\ (x.finReq => y.finReq)
  BY <1>1, <1>6 DEF ExecutionRow, finReq
<1>14. KeepsOperations(x, y)
  BY <1>8, <1>9, <1>12 DEF KeepsOperations
<1>15. FinalizedIsFinal(y)
  BY <1>1, <1>10, <1>12, <1>13 DEF RowOK, FinalizedIsFinal
<1>16. CancelledIsFinal(y)
  <2>1. again => x.status = "RUNNING"
    BY DEF x
  <2> QED
    BY <2>1, <1>1, <1>10, <1>12, <1>13 DEF RowOK, CancelledIsFinal
<1>17. RowOK(y) /\ Grows(x, y)
  <2>1. y.receipts = x.receipts /\ y.retries = x.retries /\ y.retryCount = x.retryCount
    BY <1>12
  <2> QED
    BY <2>1, <1>1, <1>14, <1>15, <1>16, KeptRowOK, Zenon
<1> QED
  BY <1>11, <1>17 DEF x

----------------------------------------------------------------------------
(* What a growing table keeps. *)

\* Whoever may act on an Execution may do so as long as it exists.
LEMMA AuthorizedStays ==
    ASSUME IInv, TableGrows, NEW r, Authorized(r)
    PROVE  Authorized(r)'
<1>1. /\ DOMAIN execs = 1 .. Len(execs) /\ Len(execs) \in Nat
      /\ DOMAIN execs' = 1 .. Len(execs') /\ Len(execs') \in Nat
  BY LenProperties DEF IInv, TypeOK, TableGrows
<1> QED
  BY <1>1 DEF Authorized, TableGrows, Grows

\* What a repeated request had made is still there.
LEMMA AppliedStays ==
    ASSUME IInv, TableGrows, NEW r \in Requests, Applied(r)
    PROVE  Applied(r)'
<1>1. /\ DOMAIN execs = 1 .. Len(execs) /\ Len(execs) \in Nat
      /\ DOMAIN execs' = 1 .. Len(execs') /\ Len(execs') \in Nat
      /\ Len(execs) <= Len(execs')
  BY LenProperties DEF IInv, TypeOK, TableGrows
<1>2. r \in Request
  BY RequestsAssumption
<1>3. CASE r.type = "submit"
  <2> DEFINE e == SubmitKeyOwner(r)
             owners == {d \in DOMAIN execs' :
                          execs'[d].tenant = r.tenant /\ execs'[d].key = r.key}
  <2>1. e # 0 /\ execs[e].fp = Fingerprint(r)
    BY <1>3 DEF Applied
  <2>2. e \in 1 .. Len(execs) /\ execs[e].tenant = r.tenant /\ execs[e].key = r.key
    BY <2>1, KeyOwner
  <2> HIDE DEF e
  <2>3. /\ e \in 1 .. Len(execs') /\ execs'[e].tenant = r.tenant
        /\ execs'[e].key = r.key /\ execs'[e].fp = Fingerprint(r)
    BY <1>1, <2>1, <2>2 DEF TableGrows, Grows
  <2>4. e \in owners /\ \A d \in owners : d = e
    BY <1>1, <2>3 DEF TableGrows, SubmitKeysDiffer
  <2>5. SubmitKeyOwner(r)' =
          IF owners = {} THEN 0 ELSE CHOOSE d \in owners : TRUE
    BY DEF SubmitKeyOwner
  <2> HIDE DEF owners
  <2>6. SubmitKeyOwner(r)' = e
    <3>1. owners # {} /\ (CHOOSE d \in owners : TRUE) \in owners
      BY <2>4
    <3> QED
      BY <3>1, <2>4, <2>5
  <2>7. e # 0
    BY <1>1, <2>2
  <2> QED
    BY <2>3, <2>6, <2>7, <1>3 DEF Applied
<1>g. r.exec \in 1 .. Len(execs) =>
        /\ r.exec \in 1 .. Len(execs')
        /\ Grows(execs[r.exec], execs'[r.exec])
  BY <1>1 DEF TableGrows
<1>4. CASE r.type \in {"operation", "finalize"}
  <2>1. r.exec \in 1 .. Len(execs)
    BY <1>1, <1>4 DEF Applied
  <2>2. PICK x \in ReceiptsFor(r.exec, r.key) : x.fp = Fingerprint(r)
    BY <1>4 DEF Applied
  <2>3. x \in ReceiptsFor(r.exec, r.key)'
    BY <2>1, <2>2, <1>g DEF Grows, ReceiptsFor
  <2> QED
    BY <2>1, <2>2, <2>3, <1>1, <1>4, <1>g DEF Applied
<1>5. CASE r.type = "retry"
  <2>1. r.exec \in 1 .. Len(execs) /\ Contains(execs[r.exec].retries, r.key)
    BY <1>1, <1>5 DEF Applied
  <2>2. Contains(execs'[r.exec].retries, r.key)
    BY <2>1, <1>g DEF Grows
  <2> QED
    BY <2>1, <2>2, <1>1, <1>5, <1>g DEF Applied
<1>6. CASE r.type = "cancel"
  <2>1. r.key # "none"
    BY <1>2 DEF Request
  <2> QED
    BY <2>1, <1>1, <1>6 DEF Applied, TableGrows, Grows
<1> QED
  BY <1>2, <1>3, <1>4, <1>5, <1>6 DEF Request, CommandType

----------------------------------------------------------------------------
(* What a step does to the handlers. *)

\* The induction step and the action property together.
StepKeeps ==
    /\ IInv'
    /\ \A c \in Calls : Answered(c) => AnswersItsRequest(c)

\* A request that is being worked on was admitted.
InFlightOK(n) ==
    /\ n.pc \in InFlight /\ n.req \in Requests
    /\ Authorized(n.req)' /\ Admissible(n.req)
    /\ n.repeat => n.pc = "lookup" /\ Applied(n.req)'

\* One handler moves while the table grows.
LEMMA HandlerMoves ==
    ASSUME IInv, TableGrows, NEW c \in Calls, NEW n \in CallRow,
           call' = [call EXCEPT ![c] = n],
           \/ n.pc \notin InFlight /\ n.req = NoRequest /\ ~n.repeat
           \/ InFlightOK(n),
           Answered(c) => AnswersItsRequest(c)
    PROVE  StepKeeps
<1>1. call \in [Calls -> CallRow]
  BY DEF IInv, TypeOK
<1>2. /\ call' \in [Calls -> CallRow] /\ call'[c] = n
      /\ \A d \in Calls : d # c => call'[d] = call[d]
  BY <1>1
<1>3. TypeOK'
  BY <1>2 DEF TypeOK, TableGrows
<1>4. CallOK(c)'
  BY <1>2 DEF CallOK, InFlightOK
<1>5. ASSUME NEW d \in Calls, d # c
      PROVE  CallOK(d)' /\ ~Answered(d)
  <2> DEFINE r == call[d].req
  <2>1. call'[d] = call[d] /\ CallOK(d)
    BY <1>2, <1>5 DEF IInv
  <2>2. call[d].pc \in InFlight => r \in Requests /\ Authorized(r)'
    BY <2>1, AuthorizedStays DEF CallOK
  <2>3. call[d].repeat => Applied(r)'
    BY <2>1, AppliedStays DEF CallOK, InFlight
  <2>4. CallOK(d)'
    BY <2>1, <2>2, <2>3 DEF CallOK
  <2>5. ~Answered(d)
    BY <2>1 DEF Answered, CallOK, InFlight
  <2> QED
    BY <2>4, <2>5
<1>6. \A e \in 1 .. Len(execs') : RowOK(execs'[e])
  BY DEF TableGrows
<1>7. SubmitKeysDiffer'
  BY DEF TableGrows
<1>8. IInv'
  BY <1>3, <1>4, <1>5, <1>6, <1>7 DEF IInv
<1> QED
  BY <1>5, <1>8 DEF StepKeeps

\* A handler that was not known to repeat a request may refuse it.
LEMMA Refusing ==
    ASSUME IInv, TableGrows, NEW c \in Calls, NEW error \in Errors,
           Refuse(c, error), ~call[c].repeat
    PROVE  StepKeeps
<1> DEFINE n == [Idle EXCEPT !.pc = "done", !.answer = error]
<1>1. /\ n \in CallRow /\ n.pc = "done" /\ n.req = NoRequest /\ n.repeat = FALSE
      /\ n.answer = error
  BY DEF Idle, CallRow
<1>2. call' = [call EXCEPT ![c] = n]
  BY DEF Refuse
<1> HIDE DEF n
<1>3. call'[c] = n
  BY <1>2 DEF IInv, TypeOK
<1>4. AnswersItsRequest(c)
  BY <1>1, <1>3 DEF AnswersItsRequest, Errors
<1> QED
  BY <1>1, <1>2, <1>4, HandlerMoves DEF InFlight

\* What a row must hold to answer request r with its Operation n.
Effect(r, x, n) ==
    /\ x.tenant = r.tenant /\ x.user = r.user
    /\ Carries(r) => x.ops[n].key = r.key /\ x.ops[n].fp = Fingerprint(r)
    /\ r.type = "finalize" =>
         \E y \in x.receipts : y.key = r.key /\ y.fp = Fingerprint(r)
    /\ r.type = "retry" => Contains(x.retries, r.key)

\* A success shows the effect of the request.
LEMMA Answering ==
    ASSUME IInv, TableGrows, NEW c \in Calls, NEW e \in Nat, NEW n \in Nat,
           Answer(c, e, n), Effect(call[c].req, execs'[e], n),
           call[c].req.type # "submit" => e = call[c].req.exec
    PROVE  StepKeeps
<1> DEFINE m == [Idle EXCEPT !.pc = "done", !.answer = "OK", !.exec = e, !.op = n]
<1>1. /\ m \in CallRow /\ m.pc = "done" /\ m.req = NoRequest /\ m.repeat = FALSE
      /\ m.answer = "OK" /\ m.exec = e /\ m.op = n
  BY DEF Idle, CallRow
<1>2. call' = [call EXCEPT ![c] = m]
  BY DEF Answer
<1> HIDE DEF m
<1>3. call'[c] = m
  BY <1>2 DEF IInv, TypeOK
<1>4. AnswersItsRequest(c)
  BY <1>1, <1>3 DEF AnswersItsRequest, Effect
<1> QED
  BY <1>1, <1>2, <1>4, HandlerMoves DEF InFlight

\* A handler goes on with its request.
LEMMA GoesOn ==
    ASSUME IInv, UNCHANGED execs, NEW c \in Calls, NEW pc \in {"write", "resolve"},
           call[c].pc \in InFlight, ~call[c].repeat,
           call' = [call EXCEPT ![c].pc = pc]
    PROVE  StepKeeps
<1>n. PICK n : n = [call[c] EXCEPT !.pc = pc]
  OBVIOUS
<1>1. call[c] \in CallRow /\ CallOK(c)
  BY DEF IInv, TypeOK
<1>2. /\ n \in CallRow /\ n.pc = pc /\ n.req = call[c].req
      /\ n.repeat = call[c].repeat
  BY <1>n, <1>1 DEF CallRow, InFlight
<1>3. call' = [call EXCEPT ![c] = n] /\ call'[c] = n
  BY <1>n DEF IInv, TypeOK
<1>4. TableGrows
  BY TableStays
<1>5. n.req \in Requests /\ Authorized(n.req)'
  BY <1>1, <1>2, <1>4, AuthorizedStays DEF CallOK
<1>6. InFlightOK(n)
  <2>1. ~n.repeat
    BY <1>2
  <2>2. n.pc \in InFlight /\ Admissible(n.req)
    BY <1>1, <1>2 DEF CallOK, InFlight
  <2> QED
    BY <2>1, <2>2, <1>5 DEF InFlightOK
<1>7. ~Answered(c)
  BY <1>2, <1>3 DEF Answered
<1> QED
  BY <1>2, <1>3, <1>4, <1>6, <1>7, HandlerMoves

----------------------------------------------------------------------------
(* The steps of a handler. *)

\* A request arrives.
LEMMA ReceiveKeeps ==
    ASSUME IInv, NEW c \in Calls, NEW r \in Requests, Receive(c, r)
    PROVE  StepKeeps
<1>1. call[c] \in CallRow /\ CallOK(c) /\ call[c].pc \notin InFlight
  BY DEF IInv, TypeOK, Receive, InFlight
<1>2. ~call[c].repeat /\ call[c].req = NoRequest
  BY <1>1 DEF CallOK, InFlight
<1>3. execs' = execs /\ TableGrows
  BY TableStays DEF Receive
<1>4. CASE Refuse(c, "NOT_FOUND") \/ Refuse(c, "INVALID")
  BY <1>2, <1>3, <1>4, Refusing DEF Errors
<1>5. CASE Authorized(r) /\ Admissible(r) /\ Accept(c, r)
  <2> DEFINE repeat == Applied(r)
  <2>n. PICK n : n = [Idle EXCEPT !.pc = "lookup", !.req = r, !.repeat = repeat]
    OBVIOUS
  <2>1. repeat \in BOOLEAN
    <3>1. r.type \in CommandType
      BY RequestsAssumption DEF Request
    <3> QED
      BY <3>1 DEF Applied, CommandType, Contains
  <2>2. Authorized(r)' /\ (repeat => Applied(r)')
    BY <1>3, <1>5, AuthorizedStays, AppliedStays
  <2> HIDE DEF repeat
  <2>4. n \in CallRow /\ n.pc = "lookup" /\ n.req = r /\ n.repeat = repeat
    BY <2>n, <2>1 DEF Idle, CallRow, InFlight
  <2>5. call' = [call EXCEPT ![c] = n]
    BY <2>n, <1>5 DEF repeat, Accept
  <2>6. InFlightOK(n)
    BY <1>5, <2>2, <2>4 DEF InFlightOK, InFlight
  <2>7. ~Answered(c)
    BY <1>2 DEF Answered
  <2> QED
    BY <1>3, <2>4, <2>5, <2>6, <2>7, HandlerMoves
<1> QED
  BY <1>4, <1>5 DEF Receive, SubmitRoute, CommandRoute, Authorized

\* What a handler finds under its key answers it, and one that repeats a
\* request is answered.
LEMMA RepeatedKeeps ==
    ASSUME IInv, NEW c \in Calls, call[c].pc \in InFlight, Repeated(c),
           UNCHANGED execs
    PROVE  StepKeeps
<1> DEFINE r == call[c].req
<1>1. /\ call[c] \in CallRow /\ CallOK(c) /\ TableGrows /\ execs' = execs
      /\ r \in Requests /\ r \in Request /\ Authorized(r)
  BY TableStays, RequestsAssumption DEF IInv, TypeOK, CallOK
<1>2. /\ DOMAIN execs = 1 .. Len(execs) /\ Len(execs) \in Nat
      /\ \A e \in 1 .. Len(execs) : execs[e] \in ExecutionRow /\ RowOK(execs[e])
  BY LenProperties, ElementOfSeq DEF IInv, TypeOK
<1>3. Fingerprint(r).type = r.type /\ Fingerprint(r).user = r.user
  BY <1>1, FingerprintKeeps
<1>4. r.type # "submit" =>
        /\ r.exec \in 1 .. Len(execs) /\ r.exec \in Nat
        /\ execs[r.exec].tenant = r.tenant /\ execs[r.exec].user = r.user
  BY <1>1, <1>2 DEF Authorized
<1>5. call[c].repeat => Applied(r)
  BY <1>1 DEF CallOK
<1> HIDE DEF r
<1>6. CASE r.type = "submit"
  <2> DEFINE e == SubmitKeyOwner(r)
             x == execs[e]
             numbers == {i \in DOMAIN x.ops : x.ops[i].key = r.key}
  <2>1. e # 0 /\ AnswerSubmitKey(c, e)
    BY <1>6 DEF Repeated, r
  <2>2. e \in 1 .. Len(execs) /\ x.tenant = r.tenant /\ x.key = r.key
    BY <2>1, KeyOwner
  <2>3. call[c].repeat => x.fp = Fingerprint(r)
    BY <1>5, <1>6 DEF Applied
  <2> HIDE DEF e
  <2>4. x \in ExecutionRow /\ RowOK(x)
    BY <1>2, <2>2
  <2>5. CASE x.fp = Fingerprint(r)
    <3>1. DOMAIN x.ops = 1 .. Len(x.ops) /\ Len(x.ops) \in Nat
      BY <2>4, LenProperties DEF ExecutionRow
    <3>2. 1 \in numbers /\ \A i \in numbers : i = 1
      BY <2>2, <2>4, <3>1
         DEF RowOK, FirstOperationIsSubmitted, OperationKeysDiffer
    <3>3. OperationByKey(e, r.key) =
            IF numbers = {} THEN 0 ELSE CHOOSE i \in numbers : TRUE
      BY DEF OperationByKey
    <3>4. OperationByKey(e, r.key) = 1
      <4> HIDE DEF numbers
      <4>1. numbers # {} /\ (CHOOSE i \in numbers : TRUE) \in numbers
        BY <3>2
      <4> QED
        BY <4>1, <3>2, <3>3
    <3>5. Answer(c, e, 1)
      BY <2>1, <2>5, <3>4 DEF AnswerSubmitKey, r
    <3>6. Effect(r, execs'[e], 1)
      BY <1>1, <1>3, <1>6, <2>2, <2>4, <2>5
         DEF Effect, Carries, RowOK, FirstOperationIsSubmitted
    <3>7. e \in Nat
      BY <1>2, <2>2
    <3> QED
      BY <1>1, <1>6, <3>5, <3>6, <3>7, Answering DEF r
  <2>6. CASE x.fp # Fingerprint(r)
    <3>1. Refuse(c, "IDEMPOTENCY_CONFLICT") /\ ~call[c].repeat
      BY <2>1, <2>3, <2>6 DEF AnswerSubmitKey, r
    <3> QED
      BY <1>1, <3>1, Refusing DEF Errors
  <2> QED
    BY <2>5, <2>6
<1>7. CASE r.type \in {"operation", "finalize"}
  <2> DEFINE x == execs[r.exec]
  <2>1. PICK y \in ReceiptsFor(r.exec, r.key) : AnswerReceipt(c, y)
    BY <1>7 DEF Repeated, r
  <2>2. y \in x.receipts /\ y.key = r.key
    BY <2>1 DEF ReceiptsFor
  <2>3. x \in ExecutionRow /\ RowOK(x)
    BY <1>2, <1>4, <1>7
  <2>4. y.fp.type = y.type
    BY <2>2, <2>3 DEF RowOK, ReceiptsAgree
  <2>5. call[c].repeat => y.type = r.type /\ y.fp = Fingerprint(r)
    <3> SUFFICES ASSUME call[c].repeat PROVE y.type = r.type /\ y.fp = Fingerprint(r)
      OBVIOUS
    <3>1. PICK z \in ReceiptsFor(r.exec, r.key) : z.fp = Fingerprint(r)
      BY <1>5, <1>7 DEF Applied
    <3>2. z = y
      BY <2>2, <2>3, <3>1 DEF ReceiptsFor, RowOK, ReceiptsAgree
    <3> QED
      BY <1>3, <2>4, <3>1, <3>2
  <2>6. CASE y.type = r.type /\ y.fp = Fingerprint(r)
    <3>1. Answer(c, r.exec, y.op)
      BY <2>1, <2>6 DEF AnswerReceipt, r
    <3>2. y.op \in Nat
      BY <2>2, <2>3 DEF ExecutionRow, ReceiptRow
    <3>3. Effect(r, execs'[r.exec], y.op)
      BY <1>1, <1>4, <1>7, <2>2, <2>3, <2>6
         DEF Effect, Carries, RowOK, ReceiptsAgree
    <3> QED
      BY <1>1, <1>4, <1>7, <3>1, <3>2, <3>3, Answering DEF r
  <2>7. CASE ~(y.type = r.type /\ y.fp = Fingerprint(r))
    <3>1. Refuse(c, "IDEMPOTENCY_CONFLICT") /\ ~call[c].repeat
      BY <2>1, <2>5, <2>7 DEF AnswerReceipt, r
    <3> QED
      BY <1>1, <3>1, Refusing DEF Errors
  <2> QED
    BY <2>6, <2>7
<1>8. CASE r.type = "cancel"
  <2>1. Answer(c, r.exec, 0)
    BY <1>8 DEF Repeated, r
  <2>2. Effect(r, execs'[r.exec], 0)
    BY <1>1, <1>4, <1>8 DEF Effect, Carries
  <2> QED
    BY <1>1, <1>4, <1>8, <2>1, <2>2, Answering DEF r
<1>9. CASE r.type = "retry"
  <2>1. /\ Answer(c, r.exec, Len(execs[r.exec].ops))
        /\ Contains(execs[r.exec].retries, r.key)
    BY <1>9 DEF Repeated, r
  <2>2. Effect(r, execs'[r.exec], Len(execs[r.exec].ops))
    BY <1>1, <1>4, <1>9, <2>1 DEF Effect, Carries
  <2>3. Len(execs[r.exec].ops) \in Nat
    BY <1>2, <1>4, <1>9, LenProperties DEF ExecutionRow
  <2> QED
    BY <1>1, <1>4, <1>9, <2>1, <2>2, <2>3, Answering DEF r
<1> QED
  BY <1>1, <1>6, <1>7, <1>8, <1>9 DEF Request, CommandType

\* A repeated request finds its key; another goes on to write.
LEMMA LookupKeeps ==
    ASSUME IInv, NEW c \in Calls, Lookup(c)
    PROVE  StepKeeps
<1> DEFINE r == call[c].req
<1>1. /\ call[c].pc \in InFlight /\ CallOK(c) /\ UNCHANGED execs
      /\ r \in Requests /\ r \in Request
  BY RequestsAssumption DEF IInv, Lookup, CallOK, InFlight
<1>2. CASE KeyIsKnown(r)
  BY <1>1, <1>2, RepeatedKeeps DEF Lookup
<1>3. CASE ~KeyIsKnown(r)
  <2>1. ~Applied(r)
    <3>1. r.type \in CommandType
      BY <1>1 DEF Request
    <3> QED
      BY <3>1, <1>3 DEF Applied, KeyIsKnown, CommandType
  <2>2. ~call[c].repeat
    BY <2>1, <1>1 DEF CallOK
  <2> QED
    BY <1>1, <1>3, <2>2, GoesOn DEF Lookup
<1> QED
  BY <1>2, <1>3

\* What a handler that writes knows: it is not a repeat, it was admitted, and
\* the row it locks is there.
LEMMA Writing ==
    ASSUME IInv, NEW c \in Calls, call[c].pc = "write"
    PROVE  /\ call[c].pc \in InFlight /\ ~call[c].repeat
           /\ call[c].req \in Requests /\ Authorized(call[c].req)
           /\ Admissible(call[c].req)
           /\ call[c].req.type = "submit" => call[c].req.first = 0
           /\ Carries(call[c].req) => call[c].req.count > 0
           /\ call[c].req.type # "submit" =>
                /\ call[c].req.exec \in 1 .. Len(execs) /\ call[c].req.exec \in Nat
                /\ execs[call[c].req.exec] \in ExecutionRow
                /\ RowOK(execs[call[c].req.exec])
                /\ execs[call[c].req.exec].tenant = call[c].req.tenant
                /\ execs[call[c].req.exec].user = call[c].req.user
<1>1. CallOK(c)
  BY DEF IInv
<1>2. DOMAIN execs = 1 .. Len(execs) /\ Len(execs) \in Nat
  BY LenProperties DEF IInv, TypeOK
<1>3. /\ call[c].pc \in InFlight
      /\ call[c].req \in Requests /\ Authorized(call[c].req)
      /\ Admissible(call[c].req)
  BY <1>1 DEF CallOK, InFlight
<1>5. /\ call[c].req.type = "submit" => call[c].req.first = 0
      /\ Carries(call[c].req) => call[c].req.count > 0
  <2>1. call[c].req.count \in Nat
    BY <1>3, RequestsAssumption DEF Request
  <2> QED
    BY <1>3, <2>1 DEF Admissible, SubmitValid, StepsValid, SpecValid
<1>4. ~call[c].repeat
  BY <1>1 DEF CallOK
<1> QED
  BY <1>2, <1>3, <1>4, <1>5, ElementOfSeq DEF Authorized, IInv, TypeOK

\* submit: the row, its Operation and its outbox row, in one transaction.
LEMMA WriteSubmitKeeps ==
    ASSUME IInv, NEW c \in Calls, WriteSubmit(c)
    PROVE  StepKeeps
<1>r. PICK r : r = call[c].req
  OBVIOUS
<1>1. /\ ~call[c].repeat /\ r \in Requests /\ r.type = "submit"
      /\ Admissible(r) /\ r.first = 0 /\ r.count > 0
  BY <1>r, Writing DEF WriteSubmit, Carries
<1>2. CASE SubmitKeyOwner(r) # 0
  BY <1>1, <1>2, <1>r, Refusing, TableStays DEF WriteSubmit, Errors
<1>3. CASE SubmitKeyOwner(r) = 0
  <2>1. execs' = Append(execs, NewExecution(r)) /\ Answer(c, Len(execs) + 1, 1)
    BY <1>3, <1>r DEF WriteSubmit
  <2>2. /\ TableGrows /\ execs'[Len(execs) + 1] = NewExecution(r)
    BY <1>1, <1>3, <2>1, RowAdded
  <2>3. Len(execs) + 1 \in Nat
    BY LenProperties DEF IInv, TypeOK
  <2>4. Effect(r, execs'[Len(execs) + 1], 1)
    BY <1>1, <2>2 DEF Effect, Carries, NewExecution, NewOperation
  <2> QED
    BY <1>1, <1>r, <2>1, <2>2, <2>3, <2>4, Answering
<1> QED
  BY <1>2, <1>3

\* create_operation: at most once per key, under the row lock.
LEMMA WriteOperationKeeps ==
    ASSUME IInv, NEW c \in Calls, WriteOperation(c)
    PROVE  StepKeeps
<1>r. PICK r : r = call[c].req
  OBVIOUS
<1>x. PICK x : x = execs[r.exec]
  OBVIOUS
<1>1. /\ ~call[c].repeat /\ r \in Requests /\ r.type = "operation"
      /\ Admissible(r)
      /\ r.exec \in 1 .. Len(execs) /\ r.exec \in Nat /\ r.count > 0
      /\ x \in ExecutionRow /\ x.tenant = r.tenant /\ x.user = r.user
  BY <1>r, <1>x, Writing DEF WriteOperation, Carries
<1>2. CASE Refuse(c, Refusal(x, r)) /\ Refusal(x, r) # "none" /\ UNCHANGED execs
  <2>1. Refusal(x, r) \in Errors
    BY <1>2 DEF Refusal, Errors
  <2> QED
    BY <1>1, <1>2, <2>1, Refusing, TableStays
<1>3. CASE /\ Refuse(c, "INVALID") \/ Refuse(c, "INTERNAL_ERROR")
           /\ UNCHANGED execs
  BY <1>1, <1>3, Refusing, TableStays DEF Errors
<1>4. CASE /\ Refusal(x, r) = "none" /\ StepsValid(r, x.steps)
           /\ OperationByKey(r.exec, r.key) = 0
           /\ Save(r.exec, [x EXCEPT
                !.status = "QUEUED", !.finReq = FALSE, !.steps = @ + r.count,
                !.ops = Append(@, NewOperation(r)),
                !.receipts = @ \cup {Receipt(r, Len(x.ops) + 1)}])
           /\ Answer(c, r.exec, Len(x.ops) + 1)
  <2>y. PICK y : y = [x EXCEPT
               !.status = "QUEUED", !.finReq = FALSE, !.steps = @ + r.count,
               !.ops = Append(@, NewOperation(r)),
               !.receipts = @ \cup {Receipt(r, Len(x.ops) + 1)},
               !.version = x.version + 1]
    OBVIOUS
  <2>1. execs' = [execs EXCEPT ![r.exec] = y]
    BY <1>4, <1>x, <1>1, <2>y DEF Save, ExecutionRow
  <2>2. y \in ExecutionRow /\ RowOK(y) /\ Grows(execs[r.exec], y)
    BY <1>1, <1>4, <1>x, <2>y, OperationRowOK
  <2>3. TableGrows
    BY <1>1, <2>1, <2>2, RowSaved
  <2>4. execs'[r.exec] = y
    BY <1>1, <2>1, LenProperties DEF IInv, TypeOK
  <2>5. y.ops = Append(x.ops, NewOperation(r)) /\ y.tenant = x.tenant /\ y.user = x.user
    BY <1>1, <2>y DEF ExecutionRow
  <2>6. /\ Append(x.ops, NewOperation(r))[Len(x.ops) + 1] = NewOperation(r)
        /\ Len(x.ops) + 1 \in Nat
    BY <1>1, AppendProperties, LenProperties DEF ExecutionRow
  <2>7. Effect(r, execs'[r.exec], Len(x.ops) + 1)
    BY <1>1, <2>4, <2>5, <2>6 DEF Effect, Carries, NewOperation
  <2> QED
    BY <1>1, <1>4, <1>r, <2>3, <2>6, <2>7, Answering
<1> QED
  BY <1>2, <1>3, <1>4, <1>r, <1>x DEF WriteOperation

\* finalize: at most once, and no Operation after it.
LEMMA WriteFinalizeKeeps ==
    ASSUME IInv, NEW c \in Calls, WriteFinalize(c)
    PROVE  StepKeeps
<1>r. PICK r : r = call[c].req
  OBVIOUS
<1>x. PICK x : x = execs[r.exec]
  OBVIOUS
<1>1. /\ call[c].pc \in InFlight
      /\ ~call[c].repeat /\ r \in Requests /\ r.type = "finalize"
      /\ r.exec \in 1 .. Len(execs) /\ r.exec \in Nat
      /\ x \in ExecutionRow /\ x.tenant = r.tenant /\ x.user = r.user
  BY <1>r, <1>x, Writing DEF WriteFinalize
<1>2. CASE Refuse(c, Refusal(x, r)) /\ Refusal(x, r) # "none" /\ UNCHANGED execs
  <2>1. Refusal(x, r) \in Errors
    BY <1>2 DEF Refusal, Errors
  <2> QED
    BY <1>1, <1>2, <2>1, Refusing, TableStays
<1>3. CASE Refuse(c, "INVALID_STATE") /\ UNCHANGED execs
  BY <1>1, <1>3, Refusing, TableStays DEF Errors
<1>4. CASE call' = [call EXCEPT ![c].pc = "resolve"] /\ UNCHANGED execs
  BY <1>1, <1>4, GoesOn
<1>5. CASE /\ Refusal(x, r) = "none" /\ ReceiptsFor(r.exec, r.key) = {}
           /\ Save(r.exec, [x EXCEPT
                !.status = "FINALIZING", !.finReq = TRUE,
                !.receipts = @ \cup {Receipt(r, 0)}])
           /\ Answer(c, r.exec, 0)
  <2>y. PICK y : y = [x EXCEPT
               !.status = "FINALIZING", !.finReq = TRUE,
               !.receipts = @ \cup {Receipt(r, 0)}, !.version = x.version + 1]
    OBVIOUS
  <2>1. execs' = [execs EXCEPT ![r.exec] = y]
    BY <1>5, <1>x, <1>1, <2>y DEF Save, ExecutionRow
  <2>2. y \in ExecutionRow /\ RowOK(y) /\ Grows(execs[r.exec], y)
    BY <1>1, <1>5, <1>x, <2>y, FinalizeRowOK
  <2>3. TableGrows
    BY <1>1, <2>1, <2>2, RowSaved
  <2>4. execs'[r.exec] = y
    BY <1>1, <2>1, LenProperties DEF IInv, TypeOK
  <2>5. /\ y.receipts = x.receipts \cup {Receipt(r, 0)}
        /\ y.tenant = x.tenant /\ y.user = x.user
    BY <1>1, <2>y DEF ExecutionRow
  <2>6. Effect(r, execs'[r.exec], 0)
    <3>1. /\ Receipt(r, 0) \in y.receipts
          /\ Receipt(r, 0).key = r.key /\ Receipt(r, 0).fp = Fingerprint(r)
      BY <2>5 DEF Receipt
    <3> QED
      BY <3>1, <1>1, <2>4, <2>5 DEF Effect, Carries
  <2> QED
    BY <1>1, <1>5, <1>r, <2>3, <2>6, Answering
<1> QED
  BY <1>2, <1>3, <1>4, <1>5, <1>r, <1>x DEF WriteFinalize

\* cancel: the receipt and the request are written together.
LEMMA WriteCancelKeeps ==
    ASSUME IInv, NEW c \in Calls, WriteCancel(c)
    PROVE  StepKeeps
<1>r. PICK r : r = call[c].req
  OBVIOUS
<1>x. PICK x : x = execs[r.exec]
  OBVIOUS
<1>1. /\ ~call[c].repeat /\ r \in Requests /\ r.type = "cancel"
      /\ r.exec \in 1 .. Len(execs) /\ r.exec \in Nat
      /\ x \in ExecutionRow /\ x.tenant = r.tenant /\ x.user = r.user
  BY <1>r, <1>x, Writing DEF WriteCancel
<1>2. CASE Answer(c, r.exec, 0) /\ UNCHANGED execs
  <2>1. Effect(r, execs'[r.exec], 0)
    BY <1>1, <1>2, <1>x DEF Effect, Carries
  <2> QED
    BY <1>1, <1>2, <1>r, <2>1, Answering, TableStays
<1>3. CASE Refuse(c, "INVALID_STATE") /\ UNCHANGED execs
  BY <1>1, <1>3, Refusing, TableStays DEF Errors
<1>4. CASE /\ x.status \notin Terminal \cup {"CANCEL_REQUESTED"}
           /\ Save(r.exec, [x EXCEPT !.status = "CANCEL_REQUESTED",
                                     !.cancelKey = r.key])
           /\ Answer(c, r.exec, 0)
  <2>y. PICK y : y = [x EXCEPT !.status = "CANCEL_REQUESTED", !.cancelKey = r.key,
                               !.version = x.version + 1]
    OBVIOUS
  <2>1. execs' = [execs EXCEPT ![r.exec] = y]
    BY <1>4, <1>x, <1>1, <2>y DEF Save, ExecutionRow
  <2>2. y \in ExecutionRow /\ RowOK(y) /\ Grows(execs[r.exec], y)
    BY <1>1, <1>4, <1>x, <2>y, CancelRowOK
  <2>3. TableGrows
    BY <1>1, <2>1, <2>2, RowSaved
  <2>4. execs'[r.exec] = y
    BY <1>1, <2>1, LenProperties DEF IInv, TypeOK
  <2>5. Effect(r, execs'[r.exec], 0)
    BY <1>1, <1>x, <2>2, <2>4 DEF Effect, Carries, Grows
  <2> QED
    BY <1>1, <1>4, <1>r, <2>3, <2>5, Answering
<1> QED
  BY <1>2, <1>3, <1>4, <1>r, <1>x DEF WriteCancel

\* retry: counted, and at most once per key.
LEMMA WriteRetryKeeps ==
    ASSUME IInv, NEW c \in Calls, WriteRetry(c)
    PROVE  StepKeeps
<1>r. PICK r : r = call[c].req
  OBVIOUS
<1>x. PICK x : x = execs[r.exec]
  OBVIOUS
<1>1. /\ call[c].pc \in InFlight
      /\ ~call[c].repeat /\ r \in Requests /\ r.type = "retry"
      /\ r.exec \in 1 .. Len(execs) /\ r.exec \in Nat
      /\ x \in ExecutionRow /\ x.tenant = r.tenant /\ x.user = r.user
  BY <1>r, <1>x, Writing DEF WriteRetry
<1>2. CASE Refuse(c, "INVALID_STATE") /\ UNCHANGED execs
  BY <1>1, <1>2, Refusing, TableStays DEF Errors
<1>3. CASE call' = [call EXCEPT ![c].pc = "resolve"] /\ UNCHANGED execs
  BY <1>1, <1>3, GoesOn
<1>4. CASE /\ Retryable(x) /\ ~RetryKeyTaken(x, r)
           /\ Save(r.exec, [x EXCEPT
                !.status = "QUEUED", !.retryCount = @ + 1,
                !.retries = Append(@, r.key),
                !.ops[Len(x.ops)].status = "QUEUED"])
           /\ Answer(c, r.exec, Len(x.ops))
  <2>y. PICK y : y = [x EXCEPT
               !.status = "QUEUED", !.retryCount = @ + 1,
               !.retries = Append(@, r.key),
               !.ops[Len(x.ops)].status = "QUEUED", !.version = x.version + 1]
    OBVIOUS
  <2>1. execs' = [execs EXCEPT ![r.exec] = y]
    BY <1>4, <1>x, <1>1, <2>y DEF Save, ExecutionRow
  <2>2. y \in ExecutionRow /\ RowOK(y) /\ Grows(execs[r.exec], y)
    BY <1>1, <1>4, <1>x, <2>y, RetryRowOK
  <2>3. TableGrows
    BY <1>1, <2>1, <2>2, RowSaved
  <2>4. execs'[r.exec] = y
    BY <1>1, <2>1, LenProperties DEF IInv, TypeOK
  <2>5. y.retries = Append(x.retries, r.key) /\ y.tenant = x.tenant /\ y.user = x.user
    BY <1>1, <2>y DEF ExecutionRow
  <2>6. Contains(y.retries, r.key)
    <3>1. /\ Len(y.retries) = Len(x.retries) + 1 /\ Len(x.retries) \in Nat
          /\ y.retries[Len(x.retries) + 1] = r.key
      BY <1>1, <2>5, AppendProperties, LenProperties DEF ExecutionRow
    <3>2. Len(x.retries) + 1 \in 1 .. Len(y.retries)
      BY <3>1
    <3> QED
      BY <3>1, <3>2 DEF Contains
  <2>7. Effect(r, execs'[r.exec], Len(x.ops))
    BY <1>1, <2>4, <2>5, <2>6 DEF Effect, Carries
  <2>8. Len(x.ops) \in Nat
    BY <1>1, LenProperties DEF ExecutionRow
  <2> QED
    BY <1>1, <1>4, <1>r, <2>3, <2>7, <2>8, Answering
<1> QED
  BY <1>2, <1>3, <1>4, <1>r, <1>x DEF WriteRetry

\* A handler that lost the race for a unique key looks the winner up.
LEMMA ResolveKeeps ==
    ASSUME IInv, NEW c \in Calls, Resolve(c)
    PROVE  StepKeeps
BY RepeatedKeeps DEF Resolve, InFlight

\* The API process is lost between two transactions.
LEMMA CrashKeeps ==
    ASSUME IInv, NEW c \in Calls, Crash(c)
    PROVE  StepKeeps
<1> DEFINE n == Idle
<1>1. n \in CallRow /\ n.pc = "idle" /\ n.req = NoRequest /\ n.repeat = FALSE
  BY DEF Idle, CallRow
<1>2. call' = [call EXCEPT ![c] = n] /\ TableGrows
  BY TableStays DEF Crash
<1> HIDE DEF n
<1>3. ~Answered(c)
  BY <1>1, <1>2 DEF Answered, IInv, TypeOK
<1> QED
  BY <1>1, <1>2, <1>3, HandlerMoves DEF InFlight

\* The handlers do not move while the table grows.
LEMMA HandlersStay ==
    ASSUME IInv, TableGrows, call' = call
    PROVE  StepKeeps
<1>1. ASSUME NEW d \in Calls PROVE CallOK(d)' /\ ~Answered(d)
  <2> DEFINE r == call[d].req
  <2>1. call'[d] = call[d] /\ CallOK(d)
    BY DEF IInv
  <2>2. call[d].pc \in InFlight => r \in Requests /\ Authorized(r)'
    BY <2>1, AuthorizedStays DEF CallOK
  <2>3. call[d].repeat => Applied(r)'
    BY <2>1, AppliedStays DEF CallOK, InFlight
  <2>4. CallOK(d)'
    BY <2>1, <2>2, <2>3 DEF CallOK
  <2>5. ~Answered(d)
    BY <2>1 DEF Answered, CallOK, InFlight
  <2> QED
    BY <2>4, <2>5
<1>2. TypeOK' /\ SubmitKeysDiffer' /\ \A e \in 1 .. Len(execs') : RowOK(execs'[e])
  BY DEF TypeOK, TableGrows, IInv
<1>3. IInv'
  BY <1>1, <1>2 DEF IInv
<1> QED
  BY <1>1, <1>3 DEF StepKeeps

\* A Worker moves the status of an Execution.
LEMMA WorkerKeeps ==
    ASSUME IInv, NEW e \in DOMAIN execs, WorkerMoves(e)
    PROVE  StepKeeps
<1>1. e \in 1 .. Len(execs)
  BY LenProperties DEF IInv, TypeOK
<1>x. PICK x : x = execs[e]
  OBVIOUS
<1>2. x \in ExecutionRow
  BY <1>1, <1>x, ElementOfSeq DEF IInv, TypeOK
<1>3. PICK status \in WorkerTransitions(x), again \in BOOLEAN :
        /\ again => status = "FAILED" /\ x.status = "RUNNING" /\ x.mode = "SINGLE"
        /\ \E outcome \in OperationOutcomes(x, status) :
             Save(e, [x EXCEPT !.status = status, !.retryable = again,
                               !.finReq = @ \/ status = "FINALIZING",
                               !.ops[Len(x.ops)].status = outcome])
  BY <1>x DEF WorkerMoves
<1>4. PICK outcome \in OperationOutcomes(x, status) :
        Save(e, [x EXCEPT !.status = status, !.retryable = again,
                          !.finReq = @ \/ status = "FINALIZING",
                          !.ops[Len(x.ops)].status = outcome])
  BY <1>3
<1>y. PICK y : y = [x EXCEPT !.status = status, !.retryable = again,
                             !.finReq = @ \/ status = "FINALIZING",
                             !.ops[Len(x.ops)].status = outcome,
                             !.version = x.version + 1]
  OBVIOUS
<1>5. execs' = [execs EXCEPT ![e] = y]
  BY <1>4, <1>x, <1>2, <1>y DEF Save, ExecutionRow
<1>6. y \in ExecutionRow /\ RowOK(y) /\ Grows(execs[e], y)
  BY <1>1, <1>3, <1>x, <1>y, WorkerRowOK
<1>7. TableGrows
  BY <1>1, <1>5, <1>6, RowSaved
<1> QED
  BY <1>7, HandlersStay DEF WorkerMoves

----------------------------------------------------------------------------
(* The theorems. *)

\* The invariant holds before the first request.
LEMMA InvInit == Init => IInv
<1> SUFFICES ASSUME Init PROVE IInv
  OBVIOUS
<1>1. execs \in Seq(ExecutionRow) /\ Len(execs) = 0
  BY DEF Init
<1>2. /\ Idle \in CallRow /\ Idle.pc = "idle" /\ Idle.req = NoRequest
      /\ Idle.repeat = FALSE
  BY DEF Idle, CallRow
<1>3. /\ call \in [Calls -> CallRow] /\ \A c \in Calls : call[c] = Idle
  BY <1>2 DEF Init
<1>4. \A c \in Calls : CallOK(c)
  BY <1>2, <1>3 DEF CallOK, InFlight
<1> QED
  BY <1>1, <1>3, <1>4 DEF IInv, TypeOK, SubmitKeysDiffer

\* No step breaks it, and none takes back what a command did.
LEMMA InvStep == IInv /\ [Next]_vars => StepKeeps
<1> SUFFICES ASSUME IInv, [Next]_vars PROVE StepKeeps
  OBVIOUS
<1>1. ASSUME NEW c \in Calls, NEW r \in Requests, Receive(c, r)
      PROVE  StepKeeps
  BY <1>1, ReceiveKeeps
<1>2. ASSUME NEW c \in Calls, Lookup(c) \/ Write(c) \/ Resolve(c) \/ Crash(c)
      PROVE  StepKeeps
  BY <1>2, LookupKeeps, WriteSubmitKeeps, WriteOperationKeeps, WriteFinalizeKeeps,
     WriteCancelKeeps, WriteRetryKeeps, ResolveKeeps, CrashKeeps DEF Write
<1>3. ASSUME NEW e \in DOMAIN execs, WorkerMoves(e)
      PROVE  StepKeeps
  BY <1>3, WorkerKeeps
<1>4. ASSUME NEW content \in Contents, CallerEditsFile(content)
      PROVE  StepKeeps
  BY <1>4, TableStays, HandlersStay DEF CallerEditsFile
<1>5. CASE UNCHANGED vars
  BY <1>5, TableStays, HandlersStay DEF vars
<1> QED
  BY <1>1, <1>2, <1>3, <1>4, <1>5 DEF Next

\* However often and however late a command is repeated, by whatever number of
\* handlers and against whatever the Workers do meanwhile, it takes effect
\* once: the unique keys and the version check of each transaction are enough.
THEOREM OneEffect == Spec => []OneEffectPerKey
<1>1. IInv /\ [Next]_vars => IInv'
  BY InvStep DEF StepKeeps
<1>2. IInv => OneEffectPerKey
  <2> SUFFICES ASSUME IInv PROVE OneEffectPerKey
    OBVIOUS
  <2>1. /\ DOMAIN execs = 1 .. Len(execs)
        /\ \A e \in 1 .. Len(execs) : execs[e] \in ExecutionRow /\ RowOK(execs[e])
    BY LenProperties, ElementOfSeq DEF IInv, TypeOK
  <2>2. ASSUME NEW e \in DOMAIN execs
        PROVE  /\ IsInjective(execs[e].retries)
               /\ execs[e].retryCount = Len(execs[e].retries)
               /\ IsInjective([n \in DOMAIN execs[e].ops |-> execs[e].ops[n].key])
               /\ \A x, y \in execs[e].receipts : x.version = y.version => x = y
    <3>1. /\ DOMAIN execs[e].retries = 1 .. Len(execs[e].retries)
          /\ DOMAIN execs[e].ops = 1 .. Len(execs[e].ops)
      BY <2>1, LenProperties DEF ExecutionRow
    <3>2. IsInjective(execs[e].retries) /\ execs[e].retryCount = Len(execs[e].retries)
      BY <2>1, <3>1 DEF RowOK, RetriesAreCounted, IsInjective
    <3>3. IsInjective([n \in DOMAIN execs[e].ops |-> execs[e].ops[n].key])
      BY <2>1, <3>1 DEF RowOK, OperationKeysDiffer, IsInjective
    <3>4. \A x, y \in execs[e].receipts : x.version = y.version => x = y
      BY <2>1 DEF RowOK, ReceiptsAgree
    <3> QED
      BY <3>2, <3>3, <3>4
  <2> QED
    BY <2>1, <2>2 DEF OneEffectPerKey, IInv, SubmitKeysDiffer
<1> QED
  BY InvInit, <1>1, <1>2, PTL DEF Spec

\* What makes a request admissible is in its fingerprint.
LEMMA FingerprintAdmits ==
    ASSUME NEW q \in Requests, NEW r \in Requests, Admissible(q),
           Fingerprint(q) = Fingerprint(r)
    PROVE  Admissible(r)
<1>1. q \in Request /\ r \in Request
  BY RequestsAssumption
<1>2. ASSUME NEW t \in Request
      PROVE  LET f == Fingerprint(t) IN
             /\ f.type = t.type /\ f.mode = t.mode /\ f.wait = t.wait
             /\ f.trigger = t.trigger /\ f.profile = t.profile
             /\ f.first = t.first /\ f.count = t.count
             /\ f.blank = t.blank /\ f.overlong = t.overlong
  BY <1>2 DEF Fingerprint, Request
<1>3. /\ q.type = r.type /\ q.mode = r.mode /\ q.wait = r.wait
      /\ q.trigger = r.trigger /\ q.profile = r.profile
      /\ q.first = r.first /\ q.count = r.count
      /\ q.blank = r.blank /\ q.overlong = r.overlong
  BY <1>1, <1>2
<1> QED
  BY <1>3 DEF Admissible, Carries, SpecValid, SubmitValid, LifecycleValid,
              StepsValid, WithinLimits, TimeoutsValid, OfferingServes

\* What was committed is still admissible.
LEMMA AppliedIsAdmissible ==
    ASSUME IInv, NEW r \in Requests, Applied(r)
    PROVE  Admissible(r)
<1>1. DOMAIN execs = 1 .. Len(execs)
        /\ \A e \in 1 .. Len(execs) : execs[e] \in ExecutionRow
  BY LenProperties, ElementOfSeq DEF IInv, TypeOK
<1>2. ASSUME Fingerprint(r) \in Fingerprints PROVE Admissible(r)
  <2>1. PICK q \in Requests : Admissible(q) /\ Fingerprint(q) = Fingerprint(r)
    BY <1>2 DEF Fingerprints
  <2> QED
    BY <2>1, FingerprintAdmits
<1>3. CASE r.type = "submit"
  <2>1. SubmitKeyOwner(r) # 0 /\ execs[SubmitKeyOwner(r)].fp = Fingerprint(r)
    BY <1>3 DEF Applied
  <2>2. SubmitKeyOwner(r) \in 1 .. Len(execs)
    BY <2>1, KeyOwner
  <2> QED
    BY <1>1, <1>2, <2>1, <2>2 DEF ExecutionRow
<1>4. CASE r.type = "operation"
  <2>1. /\ r.exec \in DOMAIN execs
        /\ \E x \in ReceiptsFor(r.exec, r.key) : x.fp = Fingerprint(r)
    BY <1>4 DEF Applied
  <2>2. PICK x \in execs[r.exec].receipts : x.fp = Fingerprint(r)
    BY <2>1 DEF ReceiptsFor
  <2>3. x \in ReceiptRow
    BY <1>1, <2>1, <2>2 DEF ExecutionRow
  <2> QED
    BY <1>2, <2>2, <2>3 DEF ReceiptRow
<1>5. CASE r.type \notin {"submit", "operation"}
  BY <1>5 DEF Admissible, Carries
<1> QED
  BY <1>3, <1>4, <1>5

\* So a repeat is turned away on arrival only when its file was changed.
LEMMA RepeatIsAdmitted ==
    ASSUME IInv, NEW c \in Calls, NEW r \in Requests, TurnedAway(c),
           WasRepeat(c, r)
    PROVE  ~SourceReads(r)
<1> SUFFICES ASSUME SourceReads(r) PROVE FALSE
  OBVIOUS
<1>1. Admissible(r) /\ Authorized(r) /\ Receive(c, r)
  BY AppliedIsAdmissible DEF WasRepeat
<1>2. Accept(c, r)
  BY <1>1 DEF Receive, SubmitRoute, CommandRoute
<1>3. call'[c].pc = "lookup"
  <2>1. PICK n : n = [Idle EXCEPT !.pc = "lookup", !.req = r, !.repeat = Applied(r)]
    OBVIOUS
  <2>2. n.pc = "lookup"
    BY <2>1 DEF Idle
  <2>3. call' = [call EXCEPT ![c] = n]
    BY <1>2, <2>1 DEF Accept
  <2> QED
    BY <2>2, <2>3 DEF IInv, TypeOK
<1> QED
  BY <1>3 DEF TurnedAway

\* A caller whose command was committed before it repeats it is answered with
\* the Execution and the Operation the first call made, or turned away at once
\* because its PATH file was changed; and no success names what another request
\* left under a reused key.
THEOREM RepeatIsAnswered == Spec => RepeatGetsItsEffect
<1> DEFINE Answers == \A c \in Calls :
             /\ Answered(c) => AnswersItsRequest(c)
             /\ TurnedAway(c) =>
                  \A r \in Requests : WasRepeat(c, r) => ~SourceReads(r)
<1>1. IInv /\ [Next]_vars => IInv' /\ [Answers]_vars
  BY InvStep, RepeatIsAdmitted DEF StepKeeps
<1>2. RepeatGetsItsEffect <=> [][Answers]_vars
  BY DEF RepeatGetsItsEffect
<1> HIDE DEF Answers
<1> QED
  BY InvInit, <1>1, <1>2, PTL DEF Spec

=============================================================================
