---------------------------- MODULE Outbox_proofs ----------------------------
(***************************************************************************)
(* Proofs about event delivery, for any number of Executions, publishers,  *)
(* events and faults and every batch size.                                 *)
(*                                                                         *)
(* A publisher's batch consists of pending rows that no other publisher    *)
(* has, and holds with a row every pending row before it.  So whatever     *)
(* lies before the row that is sent next has landed in the stream already, *)
(* and so has everything before a command that Redis carries out later.    *)
(***************************************************************************)
EXTENDS Outbox, SequenceTheorems, TLAPS

RowStatus == {"PENDING", "WAITING", "PUBLISHED", "DELETED"}

Keys == Executions \X Nat

Batch ==
    [pc : {"idle", "follow", "publish", "commit"},
     batch : SUBSET Keys, sent : SUBSET Keys, failed : SUBSET Keys]

\* The tables, the batches, the stream and the Agent keep their shape.
TypeOK ==
    /\ events \in [Executions -> Nat]
    /\ outbox \in [Executions -> Seq(RowStatus)]
    /\ \A a \in Executions : Len(outbox[a]) = events[a]
    /\ history \in [Executions -> SUBSET Nat]
    /\ ended \in [Executions -> BOOLEAN]
    /\ pub \in [Publishers -> Batch]
    /\ late \subseteq Rows
    /\ log \in Seq(Keys)
    /\ agent \in [read : Nat, applied : [Executions -> Seq(Nat)], stuck : BOOLEAN]

\* The batch of a publisher.
BatchIsGood(p) ==
    /\ pub[p].pc = "idle" => pub[p].batch = {}
    /\ pub[p].pc \in {"idle", "follow"} => pub[p].sent = {} /\ pub[p].failed = {}
    /\ pub[p].batch \subseteq Rows
    /\ pub[p].sent \subseteq pub[p].batch
    /\ pub[p].failed \subseteq pub[p].batch
    /\ \A e \in pub[p].batch : Pending(e)
    /\ \A e \in pub[p].sent : Contains(log, e)
    /\ \A e \in pub[p].batch, f \in Rows :
         Before(f, e) /\ Pending(f) => f \in pub[p].batch

BatchesAreGood == \A p \in Publishers : BatchIsGood(p)

\* FOR UPDATE SKIP LOCKED keeps the batches apart.
BatchesDiffer ==
    \A p, q \in Publishers : p # q => pub[p].batch \cap pub[q].batch = {}

\* A row is marked, and its event forgotten, after the event has landed.
MarkedHasLanded ==
    \A e \in Rows :
        /\ ~Pending(e) => Contains(log, e)
        /\ e[2] \notin history[e[1]] => Status(e) = "DELETED"

\* What Redis may still carry out comes after what it has carried out.
LateIsNext ==
    \A e \in late, f \in Rows : Before(f, e) => Contains(log, f)

\* The events of an Execution that have landed are its first ones.
LandedIsPrefix ==
    /\ \A i \in 1 .. Len(log) : log[i] \in Rows
    /\ \A a \in Executions :
         \E k \in Nat : k <= events[a] /\ Landed(a) = 1 .. k

\* The Agent has applied the events in order.
AppliedInOrder ==
    \A a \in Executions :
        \A i \in 1 .. Len(agent.applied[a]) : agent.applied[a][i] = i

IInv ==
    /\ TypeOK /\ BatchesAreGood /\ BatchesDiffer /\ MarkedHasLanded
    /\ LateIsNext /\ LandedIsPrefix /\ AppliedInOrder

----------------------------------------------------------------------------
(* The rows and the stream.                                                *)

\* Rows are pairs of an Execution and one of its sequence numbers.
LEMMA RowIs ==
    ASSUME TypeOK
    PROVE  /\ \A e \in Rows : /\ e[1] \in Executions /\ e[2] \in Nat
                              /\ e[2] \in 1 .. events[e[1]]
                              /\ e = <<e[1], e[2]>> /\ e \in Keys
           /\ \A a \in Executions : \A n \in 1 .. events[a] :
                /\ <<a, n>> \in Rows /\ <<a, n>>[1] = a /\ <<a, n>>[2] = n
                /\ n \in Nat
<1>1. \A a \in Executions : events[a] \in Nat
  BY DEF TypeOK
<1>2. ASSUME NEW e \in Rows
      PROVE  /\ e[1] \in Executions /\ e[2] \in Nat /\ e[2] \in 1 .. events[e[1]]
             /\ e = <<e[1], e[2]>> /\ e \in Keys
  <2>1. PICK a \in Executions : e \in {a} \X (1 .. events[a])
    BY <1>2 DEF Rows, Numbers
  <2>2. e[1] = a /\ e[2] \in 1 .. events[a] /\ e = <<e[1], e[2]>>
    BY <2>1
  <2>3. e[2] \in Nat
    BY <1>1, <2>2
  <2> QED
    BY <2>1, <2>2, <2>3 DEF Keys
<1>3. ASSUME NEW a \in Executions, NEW n \in 1 .. events[a]
      PROVE  /\ <<a, n>> \in Rows /\ <<a, n>>[1] = a /\ <<a, n>>[2] = n /\ n \in Nat
  <2>1. <<a, n>> \in {a} \X (1 .. events[a])
    OBVIOUS
  <2>2. n \in Nat
    BY <1>1
  <2> QED
    BY <2>1, <2>2 DEF Rows, Numbers
<1> QED
  BY <1>2, <1>3

\* Every row has a status.
LEMMA StatusIs ==
    ASSUME TypeOK, NEW e \in Rows
    PROVE  Status(e) \in RowStatus
<1>1. e[1] \in Executions /\ e[2] \in 1 .. events[e[1]]
  BY RowIs
<1>2. outbox[e[1]] \in Seq(RowStatus) /\ Len(outbox[e[1]]) = events[e[1]]
  BY <1>1 DEF TypeOK
<1> QED
  BY <1>1, <1>2, ElementOfSeq DEF Status

\* An entry is added to the stream.
LEMMA AddedIs ==
    ASSUME TypeOK, NEW e \in Keys, log' = Append(log, e)
    PROVE  /\ log' \in Seq(Keys)
           /\ \A f : Contains(log', f) <=> Contains(log, f) \/ f = e
           /\ \A i \in 1 .. Len(log') : log'[i] = e \/ \E j \in 1 .. Len(log) : log'[i] = log[j]
<1>1. log \in Seq(Keys)
  BY DEF TypeOK
<1>2. PICK m \in Nat : m = Len(log)
  BY <1>1, LenProperties
<1>3. /\ log' \in Seq(Keys) /\ Len(log') = m + 1
      /\ \A i \in 1 .. m : log'[i] = log[i]
      /\ log'[m + 1] = e
  BY <1>1, <1>2, AppendProperties
<1>4. \A i \in 1 .. m + 1 : i = m + 1 \/ i \in 1 .. m
  BY <1>2
<1>5. \A i \in 1 .. m : i \in 1 .. m + 1
  BY <1>2
<1>6. m + 1 \in 1 .. m + 1
  BY <1>2
<1>7. ASSUME NEW f PROVE Contains(log', f) <=> Contains(log, f) \/ f = e
  <2>1. Contains(log', f) <=> \E i \in 1 .. m + 1 : log'[i] = f
    BY <1>3 DEF Contains
  <2>2. Contains(log, f) <=> \E i \in 1 .. m : log[i] = f
    BY <1>2 DEF Contains
  <2> QED
    BY <2>1, <2>2, <1>3, <1>4, <1>5, <1>6
<1> QED
  BY <1>2, <1>3, <1>4, <1>7

\* The number of events that have landed.
LEMMA DeliveredIs ==
    ASSUME NEW a \in Executions, NEW k \in Nat, Landed(a) = 1 .. k
    PROVE  Delivered(a) = k
<1> DEFINE S == (1 .. k) \cup {0}
<1>1. k \in S /\ \A y \in S : y \in Nat /\ k >= y
  OBVIOUS
<1>2. \A x \in S : (\A y \in S : x >= y) => x = k
  <2> SUFFICES ASSUME NEW x \in S, x >= k PROVE x = k
    BY <1>1
  <2>1. x \in Nat /\ k >= x
    BY <1>1
  <2> QED
    BY <2>1
<1> HIDE DEF S
<1>3. Max(S) = k
  BY <1>1, <1>2 DEF Max
<1> QED
  BY <1>3 DEF Delivered, S

\* What the stream holds of an Execution after an entry that nothing was left
\* out before: one event more, or a repeat.
LEMMA LandsNext ==
    ASSUME IInv, NEW e \in Rows, log' = Append(log, e), UNCHANGED events,
           \A f \in Rows : Before(f, e) => Contains(log, f)
    PROVE  /\ \A a \in Executions : a # e[1] => Landed(a)' = Landed(a)
           /\ \E k \in Nat : /\ k <= events[e[1]] /\ Landed(e[1]) = 1 .. k
                             /\ \/ Landed(e[1])' = 1 .. k
                                \/ k + 1 <= events[e[1]] /\ Landed(e[1])' = 1 .. k + 1
<1>0. TypeOK
  BY DEF IInv
<1>1. /\ e[1] \in Executions /\ e[2] \in Nat /\ e[2] \in 1 .. events[e[1]]
      /\ e = <<e[1], e[2]>> /\ e \in Keys
  BY <1>0, RowIs
<1>2. PICK b \in Executions, n \in Nat : b = e[1] /\ n = e[2]
  BY <1>1
<1>3. PICK m \in Nat : m = events[b]
  BY <1>0, <1>1, <1>2 DEF TypeOK
<1>4. e = <<b, n>> /\ n \in 1 .. m
  BY <1>1, <1>2, <1>3
<1>5. \A f : Contains(log', f) <=> Contains(log, f) \/ f = e
  BY <1>0, <1>1, AddedIs
<1>6. ASSUME NEW a \in Executions, a # b PROVE Landed(a)' = Landed(a)
  <2>1. \A i : <<a, i>> # e
    BY <1>4, <1>6
  <2> QED
    BY <2>1, <1>5 DEF Landed, Numbers
<1>7. PICK k \in Nat : k <= m /\ Landed(b) = 1 .. k
  BY <1>3 DEF IInv, LandedIsPrefix
<1>8. Landed(b)' = Landed(b) \cup {n}
  <2>1. Landed(b)' = {i \in 1 .. m : Contains(log', <<b, i>>)}
    BY <1>3 DEF Landed, Numbers
  <2>2. Landed(b) = {i \in 1 .. m : Contains(log, <<b, i>>)}
    BY <1>3 DEF Landed, Numbers
  <2>3. \A i : <<b, i>> = e <=> i = n
    BY <1>4
  <2> QED
    BY <2>1, <2>2, <2>3, <1>4, <1>5
<1>9. n <= k + 1
  <2> SUFFICES ASSUME n > k + 1 PROVE FALSE
    BY <1>4, <1>7
  <2>1. k + 1 \in 1 .. m /\ k + 1 < n /\ k + 1 \notin 1 .. k
    BY <1>4, <1>7
  <2>2. <<b, k + 1>> \in Rows /\ Before(<<b, k + 1>>, e)
    BY <2>1, <1>0, <1>3, <1>4, RowIs DEF Before
  <2>3. k + 1 \in Landed(b)
    BY <2>1, <2>2, <1>3 DEF Landed, Numbers
  <2> QED
    BY <2>1, <2>3, <1>7
<1>10. CASE n <= k
  <2>1. (1 .. k) \cup {n} = 1 .. k
    BY <1>10, <1>4
  <2> QED
    BY <2>1, <1>2, <1>3, <1>6, <1>7, <1>8
<1>11. CASE n = k + 1
  <2>1. (1 .. k) \cup {n} = 1 .. k + 1 /\ k + 1 <= m
    BY <1>11, <1>4
  <2> QED
    BY <2>1, <1>2, <1>3, <1>6, <1>7, <1>8
<1> QED
  BY <1>9, <1>10, <1>11, <1>7

\* Such an entry keeps the stream whole.
LEMMA LandsKeeps ==
    ASSUME IInv, NEW e \in Rows, log' = Append(log, e), UNCHANGED events,
           \A f \in Rows : Before(f, e) => Contains(log, f)
    PROVE  log' \in Seq(Keys) /\ LandedIsPrefix'
<1>1. TypeOK /\ e \in Keys /\ e[1] \in Executions
  BY RowIs DEF IInv
<1>2. Rows' = Rows
  BY DEF Rows, Numbers
<1>3. log' \in Seq(Keys) /\ \A i \in 1 .. Len(log') : log'[i] \in Rows'
  BY <1>1, <1>2, AddedIs DEF IInv, LandedIsPrefix
<1>4. ASSUME NEW a \in Executions
      PROVE  \E k \in Nat : k <= events'[a] /\ Landed(a)' = 1 .. k
  <2>1. CASE a # e[1]
    BY <2>1, LandsNext DEF IInv, LandedIsPrefix
  <2>2. CASE a = e[1]
    <3>1. PICK k \in Nat : /\ k <= events[a]
                           /\ \/ Landed(a)' = 1 .. k
                              \/ k + 1 <= events[a] /\ Landed(a)' = 1 .. k + 1
      BY <2>2, LandsNext
    <3>2. k + 1 \in Nat
      OBVIOUS
    <3> QED
      BY <3>1, <3>2
  <2> QED
    BY <2>1, <2>2
<1> QED
  BY <1>3, <1>4 DEF LandedIsPrefix

----------------------------------------------------------------------------
(* The publishers.                                                         *)

\* What a publisher has, and what the others see of a change to it.
LEMMA BatchBecomes ==
    ASSUME IInv, NEW p \in Publishers, NEW n \in Batch,
           pub' = [pub EXCEPT ![p] = n],
           UNCHANGED <<events, outbox>>,
           \A f : Contains(log, f) => Contains(log', f),
           BatchIsGood(p)',
           n.batch \cap Locked(p) = {}
    PROVE  /\ pub' \in [Publishers -> Batch]
           /\ BatchesAreGood' /\ BatchesDiffer'
<1>1. pub \in [Publishers -> Batch]
  BY DEF IInv, TypeOK
<1>2. /\ pub' \in [Publishers -> Batch] /\ pub'[p] = n
      /\ \A q \in Publishers : q # p => pub'[q] = pub[q]
  BY <1>1
<1>3. Rows' = Rows /\ \A e : Pending(e)' <=> Pending(e)
  BY DEF Rows, Numbers, Pending, Status
<1>4. ASSUME NEW q \in Publishers, q # p PROVE BatchIsGood(q)'
  <2>1. BatchIsGood(q) /\ pub'[q] = pub[q]
    BY <1>2, <1>4 DEF IInv, BatchesAreGood
  <2> QED
    BY <2>1, <1>3 DEF BatchIsGood, Before
<1>5. BatchesAreGood'
  BY <1>4 DEF BatchesAreGood
<1>6. \A q \in Publishers : q # p => n.batch \cap pub[q].batch = {}
  BY DEF Locked
<1>7. BatchesDiffer'
  BY <1>2, <1>6 DEF IInv, BatchesDiffer
<1> QED
  BY <1>2, <1>5, <1>7

\* The rest of the invariant does not see the publishers.
LEMMA OnlyBatchKeeps ==
    ASSUME IInv, pub' \in [Publishers -> Batch], BatchesAreGood', BatchesDiffer',
           UNCHANGED <<tables, late, log, agent>>
    PROVE  IInv'
<1>1. UNCHANGED <<events, outbox, history, ended, late, log, agent>>
  BY DEF tables
<1>2. Rows' = Rows /\ \A e : (Pending(e)' <=> Pending(e)) /\ Status(e)' = Status(e)
  BY <1>1 DEF Rows, Numbers, Pending, Status
<1>3. \A a \in Executions : Landed(a)' = Landed(a)
  BY <1>1 DEF Landed, Numbers
<1>4. TypeOK'
  BY <1>1, <1>2 DEF IInv, TypeOK
<1>5. MarkedHasLanded' /\ LateIsNext'
  BY <1>1, <1>2 DEF IInv, MarkedHasLanded, LateIsNext, Before
<1>6. LandedIsPrefix'
  BY <1>1, <1>2, <1>3 DEF IInv, LandedIsPrefix
<1>7. AppliedInOrder'
  BY <1>1 DEF IInv, AppliedInOrder
<1> QED
  BY <1>4, <1>5, <1>6, <1>7 DEF IInv

\* The heads are pending rows with no pending row before them.
LEMMA SelectHeadsKeeps ==
    ASSUME IInv, NEW p \in Publishers, SelectHeads(p)
    PROVE  IInv'
<1>1. UNCHANGED <<tables, late, log, agent>> /\ UNCHANGED <<events, outbox>>
  BY DEF SelectHeads, tables
<1>2. PICK batch : /\ batch \subseteq {e \in Rows : IsHead(e)} \ Locked(p)
                   /\ pub' = [pub EXCEPT ![p].pc = "follow", ![p].batch = batch]
  BY DEF SelectHeads, kSubset
<1>3. PICK n : n = [pub[p] EXCEPT !.pc = "follow", !.batch = batch]
  OBVIOUS
<1>4. pub \in [Publishers -> Batch] /\ TypeOK /\ BatchIsGood(p) /\ pub[p].pc = "idle"
  BY DEF IInv, TypeOK, SelectHeads, BatchesAreGood
<1>5. batch \subseteq Rows /\ batch \in SUBSET Keys
  BY <1>2, <1>4, RowIs
<1>6. /\ n \in Batch /\ n.pc = "follow" /\ n.batch = batch
      /\ n.sent = pub[p].sent /\ n.failed = pub[p].failed
  BY <1>3, <1>4, <1>5 DEF Batch
<1>7. pub' = [pub EXCEPT ![p] = n] /\ pub'[p] = n
  BY <1>2, <1>3, <1>4
<1>8. Rows' = Rows /\ \A e : (Pending(e)' <=> Pending(e))
  BY <1>1 DEF Rows, Numbers, Pending, Status
<1>9. n.sent = {} /\ n.failed = {}
  BY <1>4, <1>6 DEF BatchIsGood
<1>10. \A e \in batch : Pending(e) /\ \A f \in Rows : ~(Before(f, e) /\ Pending(f))
  BY <1>2 DEF IsHead, Pending
<1>11. BatchIsGood(p)'
  BY <1>5, <1>6, <1>7, <1>8, <1>9, <1>10 DEF BatchIsGood, Before
<1>12. n.batch \cap Locked(p) = {}
  BY <1>2, <1>6
<1>13. \A f : Contains(log, f) => Contains(log', f)
  BY <1>1
<1> QED
  BY <1>1, <1>6, <1>7, <1>11, <1>12, <1>13, BatchBecomes, OnlyBatchKeeps

\* A pending row before one of the followers is in the batch too: it follows
\* as well, and no other publisher can have it.
LEMMA AppendFollowersKeeps ==
    ASSUME IInv, NEW p \in Publishers, AppendFollowers(p)
    PROVE  IInv'
<1>1. UNCHANGED <<tables, late, log, agent>> /\ UNCHANGED <<events, outbox>>
  BY DEF AppendFollowers, tables
<1>2. PICK heads : heads = pub[p].batch
  OBVIOUS
<1>3. PICK found : found = {e \in Rows : Follows(e, heads)} \ Locked(p)
  OBVIOUS
<1>4. PICK more : /\ more \subseteq found
                  /\ \A e \in more, f \in found : Before(f, e) => f \in more
                  /\ pub' = [pub EXCEPT ![p].pc = "publish",
                                        ![p].batch = heads \cup more]
  BY <1>2, <1>3 DEF AppendFollowers, kSubset
<1>5. PICK batch : batch = heads \cup more
  OBVIOUS
<1>6. PICK n : n = [pub[p] EXCEPT !.pc = "publish", !.batch = batch]
  OBVIOUS
<1>7. pub \in [Publishers -> Batch] /\ TypeOK /\ BatchIsGood(p) /\ pub[p].pc = "follow"
  BY DEF IInv, TypeOK, AppendFollowers, BatchesAreGood
<1>8. batch \subseteq Rows /\ batch \in SUBSET Keys
  BY <1>2, <1>3, <1>4, <1>5, <1>7, RowIs DEF BatchIsGood
<1>9. /\ n \in Batch /\ n.pc = "publish" /\ n.batch = batch
      /\ n.sent = pub[p].sent /\ n.failed = pub[p].failed
  BY <1>6, <1>7, <1>8 DEF Batch
<1>10. pub' = [pub EXCEPT ![p] = n] /\ pub'[p] = n
  BY <1>4, <1>5, <1>6, <1>7
<1>11. Rows' = Rows /\ \A e : (Pending(e)' <=> Pending(e))
  BY <1>1 DEF Rows, Numbers, Pending, Status
<1>12. n.sent = {} /\ n.failed = {}
  BY <1>7, <1>9 DEF BatchIsGood
<1>13. \A e \in batch : Pending(e)
  BY <1>2, <1>3, <1>4, <1>5, <1>7 DEF BatchIsGood, Follows, Pending
<1>14. ASSUME NEW e \in batch, NEW g \in Rows, Before(g, e), Pending(g)
       PROVE  g \in batch
  <2>1. CASE e \in heads
    BY <2>1, <1>2, <1>5, <1>7, <1>14 DEF BatchIsGood
  <2>2. CASE e \in more /\ g \notin heads
    <3>1. Follows(e, heads) /\ e \in Rows
      BY <2>2, <1>3, <1>4
    <3>2. PICK f0 \in heads : f0[1] = e[1]
      BY <3>1 DEF Follows
    <3>3. /\ g[1] = e[1] /\ g[2] < e[2] /\ f0 \in Rows /\ Pending(f0)
      BY <1>14, <3>2, <1>2, <1>7 DEF Before, BatchIsGood
    <3>4. /\ g[2] \in Nat /\ f0[2] \in Nat /\ e[2] \in Nat
          /\ g = <<g[1], g[2]>> /\ f0 = <<f0[1], f0[2]>>
      BY <1>7, <3>1, <3>3, RowIs
    <3>5. Status(g) = "PENDING"
      BY <1>14, <2>2, <3>1 DEF Follows, Pending
    <3>6. ~\E f \in Rows \ heads : Before(f, g) /\ Status(f) = "WAITING"
      <4> SUFFICES ASSUME NEW f \in Rows \ heads, Before(f, g), Status(f) = "WAITING"
                   PROVE  FALSE
        OBVIOUS
      <4>1. f[2] \in Nat
        BY <1>7, RowIs
      <4>2. f[1] = e[1] /\ f[2] < e[2]
        BY <4>1, <3>3, <3>4 DEF Before
      <4> QED
        BY <4>2, <3>1 DEF Follows, Before
    <3>7. Follows(g, heads)
      BY <2>2, <3>2, <3>3, <3>5, <3>6 DEF Follows
    <3>8. g \notin Locked(p)
      <4> SUFFICES ASSUME NEW q \in Publishers, q # p, g \in pub[q].batch
                   PROVE  FALSE
        BY DEF Locked
      <4>1. BatchIsGood(q) /\ f0 \notin pub[q].batch
        BY <3>2, <1>2 DEF IInv, BatchesAreGood, BatchesDiffer
      <4>2. ~Before(f0, g)
        BY <4>1, <3>3 DEF BatchIsGood
      <4>3. ~Before(g, f0)
        BY <1>2, <1>7, <1>14, <2>2, <3>2 DEF BatchIsGood
      <4>4. f0[2] = g[2]
        BY <4>2, <4>3, <3>2, <3>3, <3>4 DEF Before
      <4> QED
        BY <4>4, <3>2, <3>3, <3>4, <2>2
    <3> QED
      BY <3>7, <3>8, <1>3, <1>4, <1>5, <1>14, <2>2
  <2> QED
    BY <2>1, <2>2, <1>5
<1>15. BatchIsGood(p)'
  BY <1>8, <1>9, <1>10, <1>11, <1>12, <1>13, <1>14 DEF BatchIsGood, Before
<1>16. n.batch \cap Locked(p) = {}
  <2>1. heads \cap Locked(p) = {}
    BY <1>2 DEF IInv, BatchesDiffer, Locked
  <2> QED
    BY <2>1, <1>3, <1>4, <1>5, <1>9
<1>17. \A f : Contains(log, f) => Contains(log', f)
  BY <1>1
<1> QED
  BY <1>1, <1>9, <1>10, <1>15, <1>16, <1>17, BatchBecomes, OnlyBatchKeeps

\* Everything before the row that is sent next has landed.
LEMMA NextIsNext ==
    ASSUME IInv, NEW p \in Publishers, NEW e \in Rows, IsNext(p, e)
    PROVE  /\ \A f \in Rows : Before(f, e) => Contains(log, f)
           /\ e \in pub[p].batch /\ pub[p].pc = "publish"
<1>1. BatchIsGood(p) /\ e \in Remaining(p) /\ pub[p].pc = "publish"
  BY DEF IInv, BatchesAreGood, IsNext
<1>2. e \in pub[p].batch /\ e[1] \notin Blocked(p)
  BY <1>1 DEF Remaining
<1>3. ASSUME NEW f \in Rows, Before(f, e) PROVE Contains(log, f)
  <2>1. CASE ~Pending(f)
    BY <2>1 DEF IInv, MarkedHasLanded
  <2>2. CASE Pending(f)
    <3>1. f \in pub[p].batch
      BY <1>1, <1>2, <1>3, <2>2 DEF BatchIsGood
    <3>2. f[1] = e[1] /\ f[1] \notin Blocked(p) /\ f \notin pub[p].failed
      BY <1>2, <1>3 DEF Before, Blocked
    <3>3. f \in pub[p].sent
      BY <1>3, <3>1, <3>2 DEF IsNext, Remaining
    <3> QED
      BY <1>1, <3>3 DEF BatchIsGood
  <2> QED
    BY <2>1, <2>2
<1> QED
  BY <1>1, <1>2, <1>3

\* What is left to show after an entry was added is about the publishers.
LEMMA AddsKeeps ==
    ASSUME IInv, NEW e \in Rows, log' = Append(log, e),
           \A f \in Rows : Before(f, e) => Contains(log, f),
           UNCHANGED <<tables, agent>>, late' \subseteq late,
           pub' \in [Publishers -> Batch], BatchesAreGood', BatchesDiffer'
    PROVE  IInv'
<1>1. UNCHANGED <<events, outbox, history, ended, agent>>
  BY DEF tables
<1>2. TypeOK /\ e \in Keys
  BY RowIs DEF IInv
<1>3. Rows' = Rows /\ \A f : (Pending(f)' <=> Pending(f)) /\ Status(f)' = Status(f)
  BY <1>1 DEF Rows, Numbers, Pending, Status
<1>4. log' \in Seq(Keys) /\ LandedIsPrefix'
  BY <1>1, LandsKeeps
<1>5. \A f : Contains(log, f) => Contains(log', f)
  BY <1>2, AddedIs
<1>6. TypeOK'
  BY <1>1, <1>2, <1>3, <1>4 DEF TypeOK
<1>7. MarkedHasLanded' /\ LateIsNext'
  BY <1>1, <1>3, <1>5 DEF IInv, MarkedHasLanded, LateIsNext, Before
<1>8. AppliedInOrder'
  BY <1>1 DEF IInv, AppliedInOrder
<1> QED
  BY <1>4, <1>6, <1>7, <1>8 DEF IInv

\* A publisher that sends a row, or does not get it accepted.
LEMMA BatchGoesOn ==
    ASSUME IInv, NEW p \in Publishers, NEW pc \in {"publish", "commit"},
           NEW sent \in SUBSET Keys, NEW failed \in SUBSET Keys,
           pub[p].pc = "publish",
           pub' = [pub EXCEPT ![p] = [pub[p] EXCEPT !.pc = pc, !.sent = sent,
                                                    !.failed = failed]],
           sent \subseteq pub[p].batch, failed \subseteq pub[p].batch,
           UNCHANGED <<events, outbox>>,
           \A f : Contains(log, f) => Contains(log', f),
           \A f \in sent : Contains(log', f)
    PROVE  pub' \in [Publishers -> Batch] /\ BatchesAreGood' /\ BatchesDiffer'
<1>1. PICK n : n = [pub[p] EXCEPT !.pc = pc, !.sent = sent, !.failed = failed]
  OBVIOUS
<1>2. pub \in [Publishers -> Batch] /\ BatchIsGood(p)
  BY DEF IInv, TypeOK, BatchesAreGood
<1>3. /\ n \in Batch /\ n.pc = pc /\ n.batch = pub[p].batch
      /\ n.sent = sent /\ n.failed = failed
  BY <1>1, <1>2 DEF Batch
<1>4. pub' = [pub EXCEPT ![p] = n] /\ pub'[p] = n
  BY <1>1, <1>2
<1>5. Rows' = Rows /\ \A e : (Pending(e)' <=> Pending(e))
  BY DEF Rows, Numbers, Pending, Status
<1>6. BatchIsGood(p)'
  BY <1>2, <1>3, <1>4, <1>5 DEF BatchIsGood, Before
<1>7. n.batch \cap Locked(p) = {}
  BY <1>3 DEF IInv, BatchesDiffer, Locked
<1> QED
  BY <1>3, <1>4, <1>6, <1>7, BatchBecomes

\* XADD, answered.
LEMMA PublishKeeps ==
    ASSUME IInv, NEW p \in Publishers, NEW e \in Rows, Publish(p, e)
    PROVE  IInv'
<1>1. /\ IsNext(p, e) /\ log' = Append(log, e)
      /\ UNCHANGED <<tables, late, agent>> /\ UNCHANGED <<events, outbox>>
      /\ pub' = [pub EXCEPT ![p].sent = @ \cup {e}]
  BY DEF Publish, tables
<1>2. /\ \A f \in Rows : Before(f, e) => Contains(log, f)
      /\ e \in pub[p].batch /\ pub[p].pc = "publish"
  BY <1>1, NextIsNext
<1>3. TypeOK /\ e \in Keys /\ BatchIsGood(p) /\ pub \in [Publishers -> Batch]
  BY RowIs DEF IInv, BatchesAreGood, TypeOK
<1>4. \A f : Contains(log', f) <=> Contains(log, f) \/ f = e
  BY <1>1, <1>3, AddedIs
<1>5. PICK sent : sent = pub[p].sent \cup {e}
  OBVIOUS
<1>6. PICK failed : failed = pub[p].failed
  OBVIOUS
<1>7. /\ sent \in SUBSET Keys /\ failed \in SUBSET Keys
      /\ sent \subseteq pub[p].batch /\ failed \subseteq pub[p].batch
      /\ \A f \in sent : Contains(log', f)
  BY <1>2, <1>3, <1>4, <1>5, <1>6 DEF BatchIsGood, Batch
<1>8. [pub[p] EXCEPT !.pc = "publish", !.sent = sent, !.failed = failed]
        = [pub[p] EXCEPT !.sent = sent]
  BY <1>2, <1>3, <1>6 DEF Batch
<1>9. pub' = [pub EXCEPT ![p] = [pub[p] EXCEPT !.sent = sent]]
  BY <1>1, <1>3, <1>5
<1>10. pub' \in [Publishers -> Batch] /\ BatchesAreGood' /\ BatchesDiffer'
  BY <1>1, <1>2, <1>4, <1>7, <1>8, <1>9, BatchGoesOn
<1> QED
  BY <1>1, <1>2, <1>10, AddsKeeps

\* XADD without an answer, or refused: done, still to be done or not done.
LEMMA PublishFailsKeeps ==
    ASSUME IInv, NEW p \in Publishers, NEW e \in Rows,
           PublishTimesOut(p, e) \/ PublishRejected(p, e)
    PROVE  IInv'
<1>1. /\ IsNext(p, e)
      /\ UNCHANGED <<tables, agent>> /\ UNCHANGED <<events, outbox>>
      /\ \/ log' = Append(log, e) /\ late' = late
         \/ log' = log /\ late' \in {late, late \cup {e}}
  BY DEF PublishTimesOut, PublishRejected, tables
<1>2. /\ \A f \in Rows : Before(f, e) => Contains(log, f)
      /\ e \in pub[p].batch /\ pub[p].pc = "publish"
  BY <1>1, NextIsNext
<1>3. TypeOK /\ e \in Keys /\ BatchIsGood(p) /\ pub \in [Publishers -> Batch]
  BY RowIs DEF IInv, BatchesAreGood, TypeOK
<1>4. \A f : Contains(log, f) => Contains(log', f)
  BY <1>1, <1>3, AddedIs
<1>5. PICK failed : failed = pub[p].failed \cup {e}
  OBVIOUS
<1>6. PICK sent : sent = pub[p].sent
  OBVIOUS
<1>7. /\ sent \in SUBSET Keys /\ failed \in SUBSET Keys
      /\ sent \subseteq pub[p].batch /\ failed \subseteq pub[p].batch
      /\ \A f \in sent : Contains(log', f)
  BY <1>2, <1>3, <1>4, <1>5, <1>6 DEF BatchIsGood, Batch
<1>8. PICK pc \in {"publish", "commit"} :
        pub' = [pub EXCEPT ![p] = [pub[p] EXCEPT !.failed = failed, !.pc = pc]]
  <2>1. CASE PublishTimesOut(p, e)
    <3>1. pub' = [pub EXCEPT ![p] = [pub[p] EXCEPT !.failed = failed, !.pc = "commit"]]
      BY <2>1, <1>3, <1>5 DEF PublishTimesOut
    <3> QED
      BY <3>1
  <2>2. CASE PublishRejected(p, e)
    <3>1. pub' = [pub EXCEPT ![p] = [pub[p] EXCEPT !.failed = failed]]
      BY <2>2, <1>3, <1>5 DEF PublishRejected
    <3>2. [pub[p] EXCEPT !.failed = failed]
            = [pub[p] EXCEPT !.failed = failed, !.pc = "publish"]
      BY <1>2, <1>3 DEF Batch
    <3> QED
      BY <3>1, <3>2
  <2> QED
    BY <2>1, <2>2
<1>9. [pub[p] EXCEPT !.pc = pc, !.sent = sent, !.failed = failed]
        = [pub[p] EXCEPT !.failed = failed, !.pc = pc]
  BY <1>3, <1>6 DEF Batch
<1>10. pub' \in [Publishers -> Batch] /\ BatchesAreGood' /\ BatchesDiffer'
  BY <1>1, <1>2, <1>4, <1>7, <1>8, <1>9, BatchGoesOn
<1>11. CASE log' = Append(log, e) /\ late' = late
  BY <1>1, <1>2, <1>10, <1>11, AddsKeeps
<1>12. CASE log' = log /\ late' = late
  BY <1>1, <1>10, <1>12, OnlyBatchKeeps
<1>13. CASE log' = log /\ late' = late \cup {e}
  <2>1. UNCHANGED <<events, outbox, history, ended, log, agent>>
    BY <1>1, <1>13 DEF tables
  <2>2. Rows' = Rows /\ \A f : (Pending(f)' <=> Pending(f)) /\ Status(f)' = Status(f)
    BY <2>1 DEF Rows, Numbers, Pending, Status
  <2>3. TypeOK'
    BY <1>3, <1>10, <1>13, <2>1, <2>2 DEF TypeOK
  <2>4. MarkedHasLanded' /\ LateIsNext'
    BY <1>2, <1>13, <2>1, <2>2 DEF IInv, MarkedHasLanded, LateIsNext, Before
  <2>5. LandedIsPrefix' /\ AppliedInOrder'
    BY <2>1, <2>2 DEF IInv, LandedIsPrefix, AppliedInOrder, Landed, Numbers
  <2> QED
    BY <1>10, <2>3, <2>4, <2>5 DEF IInv
<1> QED
  BY <1>1, <1>11, <1>12, <1>13

\* Redis carries out what the publisher gave up on.
LEMMA LateAddKeeps ==
    ASSUME IInv, NEW e \in Rows, LateAdd(e)
    PROVE  IInv'
<1>1. /\ e \in late /\ late' = late \ {e} /\ log' = Append(log, e)
      /\ UNCHANGED <<tables, pub, agent>> /\ UNCHANGED <<events, outbox>>
  BY DEF LateAdd, tables
<1>2. \A f \in Rows : Before(f, e) => Contains(log, f)
  BY <1>1 DEF IInv, LateIsNext
<1>3. TypeOK /\ e \in Keys /\ pub' \in [Publishers -> Batch]
  BY <1>1, RowIs DEF IInv, TypeOK
<1>4. \A f : Contains(log, f) => Contains(log', f)
  BY <1>1, <1>3, AddedIs
<1>5. Rows' = Rows /\ \A f : (Pending(f)' <=> Pending(f))
  BY <1>1 DEF Rows, Numbers, Pending, Status
<1>6. BatchesAreGood' /\ BatchesDiffer'
  BY <1>1, <1>4, <1>5 DEF IInv, BatchesAreGood, BatchesDiffer, BatchIsGood, Before
<1> QED
  BY <1>1, <1>2, <1>3, <1>6, AddsKeeps

\* A transaction that is rolled back gives its rows back.
LEMMA RollbackKeeps ==
    ASSUME IInv, NEW p \in Publishers, Rollback(p)
    PROVE  IInv'
<1>1. /\ UNCHANGED <<tables, late, log, agent>> /\ UNCHANGED <<events, outbox>>
      /\ pub' = [pub EXCEPT ![p] = NoBatch]
  BY DEF Rollback, tables
<1>2. pub \in [Publishers -> Batch]
  BY DEF IInv, TypeOK
<1>3. /\ NoBatch \in Batch /\ NoBatch.batch = {} /\ NoBatch.sent = {}
      /\ NoBatch.failed = {}
  BY DEF NoBatch, Batch
<1>4. pub'[p] = NoBatch
  BY <1>1, <1>2
<1>5. BatchIsGood(p)'
  BY <1>3, <1>4 DEF BatchIsGood
<1> QED
  BY <1>1, <1>3, <1>5, BatchBecomes, OnlyBatchKeeps

----------------------------------------------------------------------------
(* The tables.                                                             *)

\* The status of one row changes.
LEMMA StatusBecomes ==
    ASSUME TypeOK, NEW e \in Rows, NEW status \in RowStatus,
           outbox' = [outbox EXCEPT ![e[1]][e[2]] = status], UNCHANGED events
    PROVE  /\ outbox' \in [Executions -> Seq(RowStatus)]
           /\ \A a \in Executions : Len(outbox'[a]) = events'[a]
           /\ Rows' = Rows /\ Status(e)' = status
           /\ \A f \in Rows : f # e => Status(f)' = Status(f)
<1>1. PICK b, n : b = e[1] /\ n = e[2]
  OBVIOUS
<1>2. b \in Executions /\ n \in 1 .. events[b] /\ e = <<b, n>>
  BY <1>1, RowIs
<1>3. PICK old : old = outbox[b]
  OBVIOUS
<1>4. old \in Seq(RowStatus) /\ Len(old) = events[b]
  BY <1>2, <1>3 DEF TypeOK
<1>5. PICK new : new = [old EXCEPT ![n] = status]
  OBVIOUS
<1>6. /\ new \in Seq(RowStatus) /\ Len(new) = Len(old) /\ new[n] = status
      /\ \A i \in 1 .. Len(old) : i # n => new[i] = old[i]
  BY <1>2, <1>4, <1>5, ExceptSeq
<1>7. outbox \in [Executions -> Seq(RowStatus)]
  BY DEF TypeOK
<1>8. outbox' = [outbox EXCEPT ![b] = new]
  BY <1>1, <1>2, <1>3, <1>5, <1>7
<1>9. /\ outbox' \in [Executions -> Seq(RowStatus)] /\ outbox'[b] = new
      /\ \A a \in Executions : a # b => outbox'[a] = outbox[a]
  BY <1>2, <1>6, <1>7, <1>8
<1>10. \A a \in Executions : Len(outbox'[a]) = events'[a]
  BY <1>4, <1>6, <1>9 DEF TypeOK
<1>11. Rows' = Rows
  BY DEF Rows, Numbers
<1>12. Status(e)' = status
  BY <1>1, <1>6, <1>9 DEF Status
<1>13. ASSUME NEW f \in Rows, f # e PROVE Status(f)' = Status(f)
  <2>1. f[1] \in Executions /\ f[2] \in 1 .. events[f[1]] /\ f = <<f[1], f[2]>>
    BY RowIs
  <2>2. CASE f[1] # b
    BY <2>1, <2>2, <1>9 DEF Status
  <2>3. CASE f[1] = b
    <3>1. f[2] # n
      BY <2>1, <2>3, <1>2, <1>13
    <3> QED
      BY <2>1, <2>3, <3>1, <1>3, <1>4, <1>6, <1>9 DEF Status
  <2> QED
    BY <2>2, <2>3
<1> QED
  BY <1>9, <1>10, <1>11, <1>12, <1>13

\* The rest of the invariant after a change of statuses.
LEMMA StatusesKeep ==
    ASSUME IInv, UNCHANGED <<events, history, ended, late, log, agent>>,
           outbox' \in [Executions -> Seq(RowStatus)],
           \A a \in Executions : Len(outbox'[a]) = events'[a],
           pub' \in [Publishers -> Batch], BatchesAreGood', BatchesDiffer',
           \A f \in Rows : Pending(f)' \/ Contains(log, f),
           \A f \in Rows : Status(f) = "DELETED" => Status(f)' = "DELETED"
    PROVE  IInv'
<1>1. Rows' = Rows
  BY DEF Rows, Numbers
<1>2. TypeOK'
  BY <1>1 DEF IInv, TypeOK
<1>3. MarkedHasLanded'
  BY <1>1 DEF IInv, MarkedHasLanded
<1>4. LateIsNext' /\ AppliedInOrder'
  BY <1>1 DEF IInv, LateIsNext, Before, AppliedInOrder
<1>5. LandedIsPrefix'
  BY <1>1 DEF IInv, LandedIsPrefix, Landed, Numbers
<1> QED
  BY <1>2, <1>3, <1>4, <1>5 DEF IInv

\* A back-off ends, or a published row is deleted.
LEMMA RowChangesKeeps ==
    ASSUME IInv, NEW e \in Rows, Available(e) \/ DeletePublishedOutbox(e)
    PROVE  IInv'
<1>1. UNCHANGED <<events, history, ended, pub, late, log, agent>>
  BY DEF Available, DeletePublishedOutbox
<1>2. TypeOK /\ pub' \in [Publishers -> Batch]
  BY <1>1 DEF IInv, TypeOK
<1>3. PICK status \in {"PENDING", "DELETED"} :
        /\ outbox' = [outbox EXCEPT ![e[1]][e[2]] = status]
        /\ status = "PENDING" => Status(e) = "WAITING"
        /\ status = "DELETED" => Status(e) = "PUBLISHED"
  BY DEF Available, DeletePublishedOutbox
<1>4. /\ outbox' \in [Executions -> Seq(RowStatus)]
      /\ \A a \in Executions : Len(outbox'[a]) = events'[a]
      /\ Rows' = Rows /\ Status(e)' = status
      /\ \A f \in Rows : f # e => Status(f)' = Status(f)
  BY <1>1, <1>2, <1>3, StatusBecomes DEF RowStatus
<1>5. \A f \in Rows : Pending(f)' <=> Pending(f)
  BY <1>3, <1>4 DEF Pending
<1>6. BatchesAreGood' /\ BatchesDiffer'
  BY <1>1, <1>4, <1>5 DEF IInv, BatchesAreGood, BatchesDiffer, BatchIsGood, Before
<1>7. \A f \in Rows : Pending(f)' \/ Contains(log, f)
  BY <1>5 DEF IInv, MarkedHasLanded
<1>8. \A f \in Rows : Status(f) = "DELETED" => Status(f)' = "DELETED"
  BY <1>3, <1>4
<1> QED
  BY <1>1, <1>2, <1>4, <1>6, <1>7, <1>8, StatusesKeep

\* The marks of a batch are committed.
LEMMA CommitBatchKeeps ==
    ASSUME IInv, NEW p \in Publishers, CommitBatch(p)
    PROVE  IInv'
<1>1. /\ UNCHANGED <<events, history, ended, late, log, agent>>
      /\ pub' = [pub EXCEPT ![p] = NoBatch]
  BY DEF CommitBatch
<1>2. TypeOK /\ pub \in [Publishers -> Batch] /\ BatchIsGood(p)
  BY DEF IInv, TypeOK, BatchesAreGood
<1>3. /\ NoBatch \in Batch /\ NoBatch.batch = {} /\ NoBatch.sent = {}
      /\ NoBatch.failed = {}
  BY DEF NoBatch, Batch
<1>4. /\ pub' \in [Publishers -> Batch] /\ pub'[p] = NoBatch
      /\ \A q \in Publishers : q # p => pub'[q] = pub[q]
  BY <1>1, <1>2, <1>3
<1> DEFINE S(a, n) == CASE Marked(p, <<a, n>>) -> "PUBLISHED"
                        [] ~Marked(p, <<a, n>>) /\ <<a, n>> \in pub[p].failed -> "WAITING"
                        [] OTHER -> outbox[a][n]
<1>5. outbox' = [a \in Executions |-> [n \in 1 .. events[a] |-> S(a, n)]]
  BY DEF CommitBatch, Numbers
<1>6. ASSUME NEW a \in Executions, NEW n \in 1 .. events[a]
      PROVE  /\ S(a, n) \in RowStatus
             /\ S(a, n) = IF <<a, n>> \in pub[p].sent THEN "PUBLISHED"
                          ELSE IF <<a, n>> \in pub[p].failed THEN "WAITING"
                          ELSE outbox[a][n]
  <2>1. <<a, n>> \in Rows /\ Status(<<a, n>>) = outbox[a][n]
    BY <1>2, RowIs DEF Status
  <2>2. outbox[a][n] \in RowStatus
    BY <1>2, <2>1, StatusIs
  <2> QED
    BY <2>2 DEF Marked, RowStatus
<1> HIDE DEF S
<1>7. ASSUME NEW a \in Executions
      PROVE  outbox'[a] \in Seq(RowStatus) /\ Len(outbox'[a]) = events'[a]
  <2>1. PICK m \in Nat : m = events[a]
    BY <1>2 DEF TypeOK
  <2>2. outbox'[a] = [n \in 1 .. m |-> S(a, n)]
    BY <1>5, <2>1
  <2>3. \A n \in 1 .. m : S(a, n) \in RowStatus
    BY <1>6, <2>1
  <2>4. outbox'[a] \in [1 .. m -> RowStatus]
    BY <2>2, <2>3
  <2>5. outbox'[a] \in Seq(RowStatus) /\ Len(outbox'[a]) = m
    BY <2>4
  <2> QED
    BY <2>1, <2>5, <1>1
<1>8. outbox' \in [Executions -> Seq(RowStatus)]
  BY <1>5, <1>7
<1>9. ASSUME NEW e \in Rows
      PROVE  Status(e)' = IF e \in pub[p].sent THEN "PUBLISHED"
                          ELSE IF e \in pub[p].failed THEN "WAITING" ELSE Status(e)
  <2>1. e[1] \in Executions /\ e[2] \in 1 .. events[e[1]] /\ e = <<e[1], e[2]>>
    BY <1>2, RowIs
  <2>2. outbox'[e[1]][e[2]] = S(e[1], e[2])
    BY <1>5, <2>1
  <2> QED
    BY <2>1, <2>2, <1>6 DEF Status
<1>10. Rows' = Rows
  BY <1>1 DEF Rows, Numbers
<1>11. \A f \in Rows : f \notin pub[p].batch => Status(f)' = Status(f)
  BY <1>2, <1>9 DEF BatchIsGood
<1>12. \A f \in Rows : Pending(f)' => Pending(f)
  BY <1>2, <1>9 DEF BatchIsGood, Pending
<1>13. BatchesAreGood'
  <2> SUFFICES ASSUME NEW q \in Publishers PROVE BatchIsGood(q)'
    BY DEF BatchesAreGood
  <2>1. CASE q = p
    BY <2>1, <1>3, <1>4 DEF BatchIsGood
  <2>2. CASE q # p
    <3>1. BatchIsGood(q) /\ pub'[q] = pub[q] /\ pub[q].batch \cap pub[p].batch = {}
      BY <2>2, <1>4 DEF IInv, BatchesAreGood, BatchesDiffer
    <3>2. \A e \in pub[q].batch : Pending(e)'
      BY <3>1, <1>11 DEF BatchIsGood, Pending
    <3> QED
      BY <3>1, <3>2, <1>1, <1>10, <1>12 DEF BatchIsGood, Before
  <2> QED
    BY <2>1, <2>2
<1>14. BatchesDiffer'
  BY <1>3, <1>4 DEF IInv, BatchesDiffer
<1>15. \A f \in Rows : Pending(f)' \/ Contains(log, f)
  BY <1>2, <1>9 DEF IInv, MarkedHasLanded, BatchIsGood, Pending
<1>16. \A f \in Rows : Status(f) = "DELETED" => Status(f)' = "DELETED"
  BY <1>2, <1>11 DEF BatchIsGood, Pending
<1> QED
  BY <1>1, <1>4, <1>7, <1>8, <1>13, <1>14, <1>15, <1>16, StatusesKeep

\* An event is committed, and the stream does not hold it yet.
LEMMA PersistCommits ==
    ASSUME IInv, NEW a \in Executions, Persist(a)
    PROVE  /\ events' = [events EXCEPT ![a] = events[a] + 1]
           /\ \A b \in Executions : Landed(b)' = Landed(b)
<1>1. events' = [events EXCEPT ![a] = events[a] + 1] /\ log' = log
  BY DEF Persist
<1>2. TypeOK /\ events \in [Executions -> Nat]
  BY DEF IInv, TypeOK
<1>3. PICK m \in Nat : m = events[a]
  BY <1>2
<1>4. events'[a] = m + 1 /\ \A b \in Executions : b # a => events'[b] = events[b]
  BY <1>1, <1>2, <1>3
<1>5. m + 1 \notin 1 .. m /\ 1 .. m + 1 = (1 .. m) \cup {m + 1}
  BY <1>3
<1>6. <<a, m + 1>> \notin Rows
  <2>1. <<a, m + 1>>[1] = a /\ <<a, m + 1>>[2] = m + 1
    OBVIOUS
  <2> QED
    BY <2>1, <1>2, <1>3, <1>5, RowIs
<1>7. ~Contains(log, <<a, m + 1>>)
  BY <1>6 DEF IInv, LandedIsPrefix, Contains
<1>8. ASSUME NEW b \in Executions PROVE Landed(b)' = Landed(b)
  <2>1. CASE b # a
    BY <2>1, <1>1, <1>4 DEF Landed, Numbers
  <2>2. CASE b = a
    <3>1. Landed(b)' = {n \in 1 .. m + 1 : Contains(log, <<a, n>>)}
      BY <2>2, <1>1, <1>4 DEF Landed, Numbers
    <3>2. Landed(b) = {n \in 1 .. m : Contains(log, <<a, n>>)}
      BY <2>2, <1>3 DEF Landed, Numbers
    <3> QED
      BY <3>1, <3>2, <1>5, <1>7
  <2> QED
    BY <2>1, <2>2
<1> QED
  BY <1>1, <1>8

\* A new event: its row is pending, and comes after all others.
LEMMA PersistKeeps ==
    ASSUME IInv, NEW a \in Executions, Persist(a), ended' \in [Executions -> BOOLEAN]
    PROVE  IInv'
<1>1. UNCHANGED <<pub, late, log, agent>>
  BY DEF Persist
<1>2. TypeOK /\ events \in [Executions -> Nat] /\ history \in [Executions -> SUBSET Nat]
      /\ outbox \in [Executions -> Seq(RowStatus)]
  BY DEF IInv, TypeOK
<1>3. PICK m \in Nat : m = events[a]
  BY <1>2
<1>4. PICK status \in {"PENDING", "WAITING"} :
        outbox' = [outbox EXCEPT ![a] = Append(@, status)]
  BY DEF Persist
<1>5. PICK new : new = Append(outbox[a], status)
  OBVIOUS
<1>6. /\ new \in Seq(RowStatus) /\ Len(new) = m + 1
      /\ \A i \in 1 .. m : new[i] = outbox[a][i]
      /\ new[m + 1] = status
  <2>1. outbox[a] \in Seq(RowStatus) /\ Len(outbox[a]) = m /\ status \in RowStatus
    BY <1>2, <1>3 DEF TypeOK, RowStatus
  <2> QED
    BY <2>1, <1>5, AppendProperties
<1>7. /\ outbox' \in [Executions -> Seq(RowStatus)] /\ outbox'[a] = new
      /\ \A b \in Executions : b # a => outbox'[b] = outbox[b]
  <2>1. outbox' = [outbox EXCEPT ![a] = new]
    BY <1>4, <1>5
  <2> QED
    BY <2>1, <1>2, <1>6
<1>8. /\ events' \in [Executions -> Nat] /\ events'[a] = m + 1
      /\ \A b \in Executions : b # a => events'[b] = events[b]
  <2>1. events' = [events EXCEPT ![a] = m + 1]
    BY <1>3, PersistCommits
  <2> QED
    BY <2>1, <1>2
<1>9. /\ history' \in [Executions -> SUBSET Nat]
      /\ history'[a] = history[a] \cup {m + 1}
      /\ \A b \in Executions : b # a => history'[b] = history[b]
  <2>1. PICK h : h = history[a] \cup {m + 1}
    OBVIOUS
  <2>2. h \in SUBSET Nat
    BY <2>1, <1>2
  <2>3. history' = [history EXCEPT ![a] = h]
    BY <2>1, <1>3 DEF Persist
  <2> QED
    BY <2>1, <2>2, <2>3, <1>2
<1>10. PICK r : r = <<a, m + 1>>
  OBVIOUS
<1>11. r[1] = a /\ r[2] = m + 1 /\ r \notin Rows
  <2>1. r[1] = a /\ r[2] = m + 1
    BY <1>10
  <2>2. m + 1 \notin 1 .. m
    BY <1>3
  <2> QED
    BY <2>1, <2>2, <1>2, <1>3, RowIs
<1>12. Rows' = Rows \cup {r}
  <2>1. \A b \in Executions : {b} \X Numbers(b)' =
           IF b = a THEN ({b} \X Numbers(b)) \cup {r} ELSE {b} \X Numbers(b)
    <3> SUFFICES ASSUME NEW b \in Executions
                 PROVE  {b} \X Numbers(b)' =
                          IF b = a THEN ({b} \X Numbers(b)) \cup {r}
                          ELSE {b} \X Numbers(b)
      OBVIOUS
    <3>1. CASE b # a
      BY <3>1, <1>8 DEF Numbers
    <3>2. CASE b = a
      <4>1. 1 .. m + 1 = (1 .. m) \cup {m + 1}
        BY <1>3
      <4>2. Numbers(b)' = Numbers(b) \cup {m + 1}
        BY <3>2, <4>1, <1>3, <1>8 DEF Numbers
      <4> QED
        BY <3>2, <4>2, <1>10
    <3> QED
      BY <3>1, <3>2
  <2> QED
    BY <2>1 DEF Rows
<1>13. TypeOK'
  <2>1. \A b \in Executions : Len(outbox'[b]) = events'[b]
    BY <1>6, <1>7, <1>8, <1>2 DEF TypeOK
  <2> QED
    BY <2>1, <1>1, <1>2, <1>7, <1>8, <1>9, <1>12 DEF TypeOK
<1>14. ASSUME NEW f \in Rows PROVE Status(f)' = Status(f)
  <2>1. f[1] \in Executions /\ f[2] \in 1 .. events[f[1]]
    BY <1>2, RowIs
  <2>2. CASE f[1] = a
    BY <2>1, <2>2, <1>3, <1>6, <1>7 DEF Status
  <2>3. CASE f[1] # a
    BY <2>1, <2>3, <1>7 DEF Status
  <2> QED
    BY <2>2, <2>3
<1>15. Status(r)' = status
  BY <1>6, <1>7, <1>11 DEF Status
<1>16. /\ \A f \in Rows : Pending(f)' <=> Pending(f)
       /\ Pending(r)'
  BY <1>14, <1>15 DEF Pending
<1>17. \A e \in Rows : ~Before(r, e)
  <2> SUFFICES ASSUME NEW e \in Rows, Before(r, e) PROVE FALSE
    OBVIOUS
  <2>1. e[1] = a /\ m + 1 < e[2] /\ e[2] \in 1 .. events[e[1]]
    BY <1>2, <1>11, RowIs DEF Before
  <2>2. e[2] \in 1 .. m
    BY <2>1, <1>3
  <2> QED
    BY <2>1, <2>2
<1>18. BatchesAreGood'
  <2> SUFFICES ASSUME NEW p \in Publishers PROVE BatchIsGood(p)'
    BY DEF BatchesAreGood
  <2>1. BatchIsGood(p)
    BY DEF IInv, BatchesAreGood
  <2> QED
    BY <2>1, <1>1, <1>12, <1>16, <1>17 DEF BatchIsGood, Before
<1>19. BatchesDiffer'
  BY <1>1 DEF IInv, BatchesDiffer
<1>20. MarkedHasLanded'
  <2> SUFFICES ASSUME NEW e \in Rows'
               PROVE  /\ ~Pending(e)' => Contains(log', e)
                      /\ e[2] \notin history'[e[1]] => Status(e)' = "DELETED"
    BY DEF MarkedHasLanded
  <2>1. CASE e = r
    BY <2>1, <1>9, <1>11, <1>16
  <2>2. CASE e \in Rows
    <3>1. e[1] \in Executions
      BY <2>2, <1>2, RowIs
    <3>2. history[e[1]] \subseteq history'[e[1]]
      BY <3>1, <1>9
    <3> QED
      BY <2>2, <3>2, <1>1, <1>14, <1>16 DEF IInv, MarkedHasLanded
  <2> QED
    BY <2>1, <2>2, <1>12
<1>21. LateIsNext'
  <2> SUFFICES ASSUME NEW e \in late', NEW f \in Rows', Before(f, e)
               PROVE  Contains(log', f)
    BY DEF LateIsNext, Before
  <2>1. e \in late /\ e \in Rows
    BY <1>1, <1>2 DEF TypeOK
  <2>2. f \in Rows
    BY <2>1, <1>12, <1>17
  <2> QED
    BY <2>1, <2>2, <1>1 DEF IInv, LateIsNext
<1>22. \A b \in Executions : Landed(b)' = Landed(b)
  BY PersistCommits
<1>23. LandedIsPrefix'
  <2>1. \A i \in 1 .. Len(log') : log'[i] \in Rows'
    BY <1>1, <1>12 DEF IInv, LandedIsPrefix
  <2>2. ASSUME NEW b \in Executions
        PROVE  \E k \in Nat : k <= events'[b] /\ Landed(b)' = 1 .. k
    <3>1. PICK k \in Nat : k <= events[b] /\ Landed(b) = 1 .. k
      BY DEF IInv, LandedIsPrefix
    <3>2. k <= events'[b]
      BY <3>1, <1>3, <1>8
    <3> QED
      BY <3>1, <3>2, <1>22
  <2> QED
    BY <2>1, <2>2 DEF LandedIsPrefix
<1>24. AppliedInOrder'
  BY <1>1 DEF IInv, AppliedInOrder
<1> QED
  BY <1>13, <1>18, <1>19, <1>20, <1>21, <1>23, <1>24 DEF IInv

\* An Execution ends with its last event, or is retried.
LEMMA WriterKeeps ==
    ASSUME IInv, NEW a \in Executions, Writer(a)
    PROVE  IInv'
<1>1. ended \in [Executions -> BOOLEAN] /\ ended' \in [Executions -> BOOLEAN]
  BY DEF IInv, TypeOK, Writer, AddEvent, AddCompletedEvent, Reopen
<1>2. CASE Persist(a)
  BY <1>1, <1>2, PersistKeeps
<1>3. CASE Reopen(a)
  <2>1. UNCHANGED <<events, outbox, history, pub, late, log, agent>>
    BY <1>3 DEF Reopen
  <2>2. Rows' = Rows /\ \A f : (Pending(f)' <=> Pending(f)) /\ Status(f)' = Status(f)
    BY <2>1 DEF Rows, Numbers, Pending, Status
  <2>3. TypeOK'
    BY <1>1, <2>1, <2>2 DEF IInv, TypeOK
  <2>4. BatchesAreGood' /\ BatchesDiffer' /\ MarkedHasLanded' /\ LateIsNext'
    BY <2>1, <2>2 DEF IInv, BatchesAreGood, BatchesDiffer, BatchIsGood, Before,
                      MarkedHasLanded, LateIsNext
  <2>5. LandedIsPrefix' /\ AppliedInOrder'
    BY <2>1, <2>2 DEF IInv, LandedIsPrefix, AppliedInOrder, Landed, Numbers
  <2> QED
    BY <2>3, <2>4, <2>5 DEF IInv
<1> QED
  BY <1>2, <1>3 DEF Writer, AddEvent, AddCompletedEvent

\* The history forgets an event whose row is deleted.
LEMMA DeleteExecutionEventsKeeps ==
    ASSUME IInv, NEW e \in Rows, DeleteExecutionEvents(e)
    PROVE  IInv'
<1>1. /\ UNCHANGED <<events, outbox, ended, pub, late, log, agent>>
      /\ history' = [history EXCEPT ![e[1]] = @ \ {e[2]}]
      /\ Status(e) = "DELETED"
  BY DEF DeleteExecutionEvents, Deletable
<1>2. TypeOK /\ history \in [Executions -> SUBSET Nat]
  BY DEF IInv, TypeOK
<1>3. e[1] \in Executions /\ e = <<e[1], e[2]>>
  BY <1>2, RowIs
<1>4. PICK h : h = history[e[1]] \ {e[2]}
  OBVIOUS
<1>5. h \in SUBSET Nat
  BY <1>2, <1>3, <1>4
<1>6. history' = [history EXCEPT ![e[1]] = h]
  BY <1>1, <1>4
<1>7. /\ history' \in [Executions -> SUBSET Nat] /\ history'[e[1]] = h
      /\ \A a \in Executions : a # e[1] => history'[a] = history[a]
  BY <1>2, <1>3, <1>5, <1>6
<1>8. Rows' = Rows /\ \A f : (Pending(f)' <=> Pending(f)) /\ Status(f)' = Status(f)
  BY <1>1 DEF Rows, Numbers, Pending, Status
<1>9. TypeOK'
  BY <1>1, <1>2, <1>7, <1>8 DEF TypeOK
<1>10. MarkedHasLanded'
  <2> SUFFICES ASSUME NEW f \in Rows
               PROVE  /\ ~Pending(f) => Contains(log, f)
                      /\ f[2] \notin history'[f[1]] => Status(f) = "DELETED"
    BY <1>1, <1>8 DEF MarkedHasLanded
  <2>1. f[1] \in Executions /\ f = <<f[1], f[2]>>
    BY <1>2, RowIs
  <2>2. f[2] \notin history'[f[1]] => f[2] \notin history[f[1]] \/ f = e
    BY <2>1, <1>3, <1>4, <1>7
  <2> QED
    BY <2>2, <1>1 DEF IInv, MarkedHasLanded
<1>11. BatchesAreGood' /\ BatchesDiffer' /\ LateIsNext'
  BY <1>1, <1>8 DEF IInv, BatchesAreGood, BatchesDiffer, BatchIsGood, Before,
                    LateIsNext
<1>12. LandedIsPrefix' /\ AppliedInOrder'
  BY <1>1, <1>8 DEF IInv, LandedIsPrefix, AppliedInOrder, Landed, Numbers
<1> QED
  BY <1>9, <1>10, <1>11, <1>12 DEF IInv

----------------------------------------------------------------------------
(* The Agent.                                                              *)

\* The invariant sees of the Agent only what it has applied.
LEMMA OnlyAgentKeeps ==
    ASSUME IInv, UNCHANGED <<tables, pub, late, log>>,
           agent' \in [read : Nat, applied : [Executions -> Seq(Nat)], stuck : BOOLEAN],
           AppliedInOrder'
    PROVE  IInv'
<1>1. UNCHANGED <<events, outbox, history, ended>>
  BY DEF tables
<1>2. Rows' = Rows /\ \A f : (Pending(f)' <=> Pending(f)) /\ Status(f)' = Status(f)
  BY <1>1 DEF Rows, Numbers, Pending, Status
<1>3. TypeOK'
  BY <1>1, <1>2 DEF IInv, TypeOK
<1>4. BatchesAreGood' /\ BatchesDiffer'
  BY <1>2 DEF IInv, BatchesAreGood, BatchesDiffer, BatchIsGood, Before
<1>5. MarkedHasLanded' /\ LateIsNext'
  BY <1>1, <1>2 DEF IInv, MarkedHasLanded, LateIsNext, Before
<1>6. LandedIsPrefix'
  BY <1>1, <1>2 DEF IInv, LandedIsPrefix, Landed, Numbers
<1> QED
  BY <1>3, <1>4, <1>5, <1>6 DEF IInv

\* An entry is removed before the Agent reads it.
LEMMA TrimKeeps ==
    ASSUME IInv, Trim
    PROVE  IInv'
<1>1. /\ UNCHANGED <<tables, pub, late, log>>
      /\ agent' = [agent EXCEPT !.read = agent.read + 1]
  BY DEF Trim
<1>2. agent \in [read : Nat, applied : [Executions -> Seq(Nat)], stuck : BOOLEAN]
  BY DEF IInv, TypeOK
<1>3. PICK r \in Nat : r = agent.read + 1
  BY <1>2
<1>4. agent' = [agent EXCEPT !.read = r]
  BY <1>1, <1>3
<1>5. agent'.applied = agent.applied
  BY <1>2, <1>4
<1>6. agent' \in [read : Nat, applied : [Executions -> Seq(Nat)], stuck : BOOLEAN]
  BY <1>2, <1>4
<1>7. AppliedInOrder'
  BY <1>5 DEF IInv, AppliedInOrder
<1> QED
  BY <1>1, <1>6, <1>7, OnlyAgentKeeps

\* What the Agent applies goes on where it was.
LEMMA AppliedIs ==
    ASSUME IInv, NEW a \in Executions, NEW n \in Nat
    PROVE  /\ Applied(a, n) \in Seq(Nat)
           /\ \A i \in 1 .. Len(Applied(a, n)) : Applied(a, n)[i] = i
<1>1. PICK s \in Seq(Nat) : s = agent.applied[a]
  BY DEF IInv, TypeOK
<1>2. PICK l \in Nat : l = Len(s)
  BY <1>1, LenProperties
<1>3. \A i \in 1 .. l : s[i] = i
  BY <1>1, <1>2 DEF IInv, AppliedInOrder
<1>4. CASE n <= l
  BY <1>1, <1>2, <1>3, <1>4 DEF Applied, LastSequence
<1>5. CASE ~(n <= l)
  <2>1. PICK d \in Nat : d = n - l
    BY <1>5
  <2>2. PICK t : t = [i \in 1 .. d |-> l + i]
    OBVIOUS
  <2>3. t \in Seq(Nat) /\ Len(t) = d /\ \A i \in 1 .. d : t[i] = l + i
    <3>1. \A i \in 1 .. d : l + i \in Nat
      OBVIOUS
    <3>2. t \in [1 .. d -> Nat]
      BY <3>1, <2>2
    <3> QED
      BY <3>2, <2>2
  <2>4. Applied(a, n) = s \o t
    BY <1>1, <1>2, <1>5, <2>1, <2>2 DEF Applied, LastSequence
  <2>5. /\ s \o t \in Seq(Nat) /\ Len(s \o t) = l + d
        /\ \A i \in 1 .. l + d : (s \o t)[i] = IF i <= l THEN s[i] ELSE t[i - l]
    BY <1>2, <2>3, ConcatProperties
  <2>6. ASSUME NEW i \in 1 .. l + d PROVE (s \o t)[i] = i
    <3>1. CASE i <= l
      BY <3>1, <2>5, <1>3
    <3>2. CASE ~(i <= l)
      <4>1. i - l \in 1 .. d /\ l + (i - l) = i
        BY <3>2
      <4>2. t[i - l] = l + (i - l)
        BY <4>1, <2>3
      <4> QED
        BY <4>1, <4>2, <3>2, <2>5
    <3> QED
      BY <3>1, <3>2
  <2> QED
    BY <2>4, <2>5, <2>6
<1> QED
  BY <1>4, <1>5

\* The Agent applies what follows, skips a repeat, or is stuck at a hole.
LEMMA ReadKeeps ==
    ASSUME IInv, Read
    PROVE  IInv'
<1>1. UNCHANGED <<tables, pub, late, log>>
  BY DEF Read
<1>2. /\ TypeOK /\ log \in Seq(Keys)
      /\ agent \in [read : Nat, applied : [Executions -> Seq(Nat)], stuck : BOOLEAN]
  BY DEF IInv, TypeOK
<1>3. PICK r \in Nat : r = agent.read + 1
  BY <1>2
<1>4. r <= Len(log)
  BY <1>3 DEF Read
<1>5. r \in 1 .. Len(log)
  BY <1>2, <1>3, <1>4, LenProperties
<1>6. PICK e \in Rows : e = log[r]
  BY <1>5 DEF IInv, LandedIsPrefix
<1>7. e[1] \in Executions /\ e[2] \in Nat
  BY <1>2, RowIs
<1>8. PICK a \in Executions, n \in Nat : a = e[1] /\ n = e[2]
  BY <1>7
<1>9. PICK s \in Seq(Nat) : /\ s = Applied(a, n)
                           /\ \A i \in 1 .. Len(s) : s[i] = i
  BY AppliedIs
<1>10. \/ agent' = [agent EXCEPT !.stuck = TRUE]
       \/ agent' = [agent EXCEPT !.read = r, !.applied[a] = s]
  BY <1>3, <1>6, <1>8, <1>9 DEF Read
<1>11. CASE agent' = [agent EXCEPT !.stuck = TRUE]
  <2>1. agent'.applied = agent.applied
    BY <1>2, <1>11
  <2>2. agent' \in [read : Nat, applied : [Executions -> Seq(Nat)], stuck : BOOLEAN]
    BY <1>2, <1>11
  <2>3. AppliedInOrder'
    BY <2>1 DEF IInv, AppliedInOrder
  <2> QED
    BY <2>2, <2>3, <1>1, OnlyAgentKeeps
<1>12. CASE agent' = [agent EXCEPT !.read = r, !.applied[a] = s]
  <2>1. PICK all : all = [agent.applied EXCEPT ![a] = s]
    OBVIOUS
  <2>2. /\ all \in [Executions -> Seq(Nat)] /\ all[a] = s
        /\ \A b \in Executions : b # a => all[b] = agent.applied[b]
    BY <2>1, <1>2
  <2>3. agent' = [agent EXCEPT !.read = r, !.applied = all]
    BY <2>1, <1>12
  <2>4. agent'.applied = all
    BY <2>3, <1>2
  <2>5. agent' \in [read : Nat, applied : [Executions -> Seq(Nat)], stuck : BOOLEAN]
    BY <2>2, <2>3, <1>2
  <2>6. AppliedInOrder'
    BY <2>2, <2>4, <1>9 DEF IInv, AppliedInOrder
  <2> QED
    BY <2>5, <2>6, <1>1, OnlyAgentKeeps
<1> QED
  BY <1>10, <1>11, <1>12

----------------------------------------------------------------------------
(* The theorems.                                                           *)

\* Nothing is committed, sent or applied at first.
LEMMA InvInit == Init => IInv
<1> SUFFICES ASSUME Init PROVE IInv
  OBVIOUS
<1> USE DEF Init
<1>1. \A a \in Executions : Numbers(a) = {}
  BY DEF Numbers
<1>2. Rows = {}
  BY <1>1 DEF Rows
<1>3. NoBatch \in Batch
  BY DEF NoBatch, Batch
<1>4. agent \in [read : Nat, applied : [Executions -> Seq(Nat)], stuck : BOOLEAN]
  OBVIOUS
<1>5. /\ outbox \in [Executions -> Seq(RowStatus)]
      /\ \A a \in Executions : Len(outbox[a]) = events[a]
  OBVIOUS
<1>6. log \in Seq(Keys)
  OBVIOUS
<1>7. TypeOK
  BY <1>2, <1>3, <1>4, <1>5, <1>6 DEF TypeOK
<1>8. BatchesAreGood /\ BatchesDiffer
  BY <1>2 DEF BatchesAreGood, BatchesDiffer, BatchIsGood, NoBatch
<1>9. MarkedHasLanded /\ LateIsNext /\ AppliedInOrder
  BY <1>2 DEF MarkedHasLanded, LateIsNext, AppliedInOrder
<1>10. LandedIsPrefix
  <2>1. \A i \in 1 .. Len(log) : log[i] \in Rows
    OBVIOUS
  <2>2. \A a \in Executions : Landed(a) = 1 .. 0 /\ 0 <= events[a]
    BY <1>1 DEF Landed
  <2> QED
    BY <2>1, <2>2 DEF LandedIsPrefix
<1> QED
  BY <1>7, <1>8, <1>9, <1>10 DEF IInv

\* Every step keeps the invariant.
LEMMA InvStep == IInv /\ [Next]_vars => IInv'
<1> SUFFICES ASSUME IInv, [Next]_vars PROVE IInv'
  OBVIOUS
<1>1. CASE \E a \in Executions : Writer(a)
  BY <1>1, WriterKeeps
<1>2. ASSUME NEW p \in Publishers, PublisherStep(p) PROVE IInv'
  BY <1>2, SelectHeadsKeeps, AppendFollowersKeeps, CommitBatchKeeps, PublishKeeps
     DEF PublisherStep
<1>3. ASSUME NEW p \in Publishers, PublisherFault(p) PROVE IInv'
  BY <1>3, RollbackKeeps, PublishFailsKeeps DEF PublisherFault
<1>4. CASE \E e \in Rows : Available(e) \/ LateAdd(e)
  BY <1>4, RowChangesKeeps, LateAddKeeps
<1>5. CASE Retention
  BY <1>5, TrimKeeps, RowChangesKeeps, DeleteExecutionEventsKeeps DEF Retention
<1>6. CASE Read
  BY <1>6, ReadKeeps
<1>7. CASE UNCHANGED vars
  <2>1. /\ UNCHANGED <<tables, late, log, agent>> /\ pub' = pub
        /\ UNCHANGED <<events, outbox>>
    BY <1>7 DEF vars, tables
  <2>2. Rows' = Rows /\ \A f : Pending(f)' <=> Pending(f)
    BY <2>1 DEF Rows, Numbers, Pending, Status
  <2>3. pub' \in [Publishers -> Batch] /\ BatchesAreGood' /\ BatchesDiffer'
    BY <2>1, <2>2 DEF IInv, TypeOK, BatchesAreGood, BatchesDiffer, BatchIsGood, Before
  <2> QED
    BY <2>1, <2>3, OnlyBatchKeeps
<1> QED
  BY <1>1, <1>2, <1>3, <1>4, <1>5, <1>6, <1>7 DEF Next

\* A row that is marked or deleted, and an event that retention has forgotten,
\* has been in the stream, and the Agent applies the events of an Execution
\* once each, in order and without a hole.
THEOREM EventsAreNotForgotten == Spec => []NothingIsForgotten
<1>1. ASSUME IInv PROVE NothingIsForgotten
  <2>1. TypeOK
    BY <1>1 DEF IInv
  <2>2. ASSUME NEW e \in Rows, ~Pending(e) \/ e[2] \notin history[e[1]]
        PROVE  e[2] \in Landed(e[1])
    <3>1. ~Pending(e)
      BY <1>1, <2>2 DEF IInv, MarkedHasLanded, Pending
    <3>2. Contains(log, e)
      BY <1>1, <3>1 DEF IInv, MarkedHasLanded
    <3>3. e[1] \in Executions /\ e[2] \in 1 .. events[e[1]] /\ e = <<e[1], e[2]>>
      BY <2>1, RowIs
    <3> QED
      BY <3>2, <3>3 DEF Landed, Numbers
  <2> QED
    BY <1>1, <2>2 DEF NothingIsForgotten, IInv, AppliedInOrder, LastSequence
<1> QED
  BY <1>1, InvInit, InvStep, PTL DEF Spec

\* What EventStream sees of a step that adds to the stream.
LEMMA AddIsDelivery ==
    ASSUME IInv, NEW e \in Rows, log' = Append(log, e), UNCHANGED events,
           \A f \in Rows : Before(f, e) => Contains(log, f)
    PROVE  \/ \A a \in Executions : Delivered(a)' = Delivered(a)
           \/ /\ Delivered(e[1]) < events[e[1]]
              /\ Delivered(e[1])' = Delivered(e[1]) + 1
              /\ \A a \in Executions : a # e[1] => Delivered(a)' = Delivered(a)
<1>1. e[1] \in Executions
  BY RowIs DEF IInv
<1>2. \A a \in Executions : a # e[1] => Delivered(a)' = Delivered(a)
  BY LandsNext DEF Delivered
<1>3. PICK k \in Nat : /\ k <= events[e[1]] /\ Landed(e[1]) = 1 .. k
                       /\ \/ Landed(e[1])' = 1 .. k
                          \/ k + 1 <= events[e[1]] /\ Landed(e[1])' = 1 .. k + 1
  BY LandsNext
<1>4. Delivered(e[1]) = k
  BY <1>1, <1>3, DeliveredIs
<1>5. CASE Landed(e[1])' = 1 .. k
  <2>1. Landed(e[1])' = Landed(e[1])
    BY <1>3, <1>5
  <2>2. Delivered(e[1])' = Delivered(e[1])
    BY <2>1 DEF Delivered
  <2> QED
    BY <2>2, <1>2
<1>6. CASE k + 1 <= events[e[1]] /\ Landed(e[1])' = 1 .. k + 1
  <2>1. k + 1 \in Nat
    OBVIOUS
  <2>2. Delivered(e[1])' = k + 1
    <3> DEFINE S == (1 .. k + 1) \cup {0}
    <3>1. k + 1 \in S /\ \A y \in S : y \in Nat /\ k + 1 >= y
      OBVIOUS
    <3>2. \A x \in S : (\A y \in S : x >= y) => x = k + 1
      <4> SUFFICES ASSUME NEW x \in S, x >= k + 1 PROVE x = k + 1
        BY <3>1
      <4>1. x \in Nat /\ k + 1 >= x
        BY <3>1
      <4> QED
        BY <4>1
    <3> HIDE DEF S
    <3>3. Max(S) = k + 1
      BY <3>1, <3>2 DEF Max
    <3> QED
      BY <3>3, <1>6 DEF Delivered, S
  <2>3. k < events[e[1]]
    <3>1. events[e[1]] \in Nat
      BY <1>1 DEF IInv, TypeOK
    <3> QED
      BY <3>1, <1>6
  <2> QED
    BY <2>2, <2>3, <1>2, <1>4
<1> QED
  BY <1>3, <1>5, <1>6

\* Every step commits an event, adds an entry that nothing was left out
\* before, or changes neither the events nor the stream.
LEMMA StepsAre ==
    ASSUME IInv, [Next]_vars
    PROVE  \/ UNCHANGED <<events, log>>
           \/ \E a \in Executions : Persist(a)
           \/ \E e \in Rows : /\ log' = Append(log, e) /\ UNCHANGED events
                              /\ \A f \in Rows : Before(f, e) => Contains(log, f)
<1> USE DEF tables
<1>1. CASE \E a \in Executions : Writer(a)
  BY <1>1 DEF Writer, AddEvent, AddCompletedEvent, Reopen
<1>2. ASSUME NEW p \in Publishers, SelectHeads(p) \/ AppendFollowers(p) \/ CommitBatch(p)
      PROVE  UNCHANGED <<events, log>>
  BY <1>2 DEF SelectHeads, AppendFollowers, CommitBatch
<1>3. ASSUME NEW p \in Publishers, NEW e \in Rows, Publish(p, e)
      PROVE  /\ log' = Append(log, e) /\ UNCHANGED events
             /\ \A f \in Rows : Before(f, e) => Contains(log, f)
  BY <1>3, NextIsNext DEF Publish
<1>4. ASSUME NEW p \in Publishers, NEW e \in Rows,
             PublishTimesOut(p, e) \/ PublishRejected(p, e)
      PROVE  \/ UNCHANGED <<events, log>>
             \/ /\ log' = Append(log, e) /\ UNCHANGED events
                /\ \A f \in Rows : Before(f, e) => Contains(log, f)
  BY <1>4, NextIsNext DEF PublishTimesOut, PublishRejected
<1>5. ASSUME NEW p \in Publishers, Rollback(p) PROVE UNCHANGED <<events, log>>
  BY <1>5 DEF Rollback
<1>6. ASSUME NEW e \in Rows, LateAdd(e)
      PROVE  /\ log' = Append(log, e) /\ UNCHANGED events
             /\ \A f \in Rows : Before(f, e) => Contains(log, f)
  BY <1>6 DEF LateAdd, IInv, LateIsNext
<1>7. ASSUME NEW e \in Rows, Available(e) PROVE UNCHANGED <<events, log>>
  BY <1>7 DEF Available
<1>8. CASE Retention
  BY <1>8 DEF Retention, Trim, DeletePublishedOutbox, DeleteExecutionEvents
<1>9. CASE Read
  BY <1>9 DEF Read
<1>10. CASE UNCHANGED vars
  BY <1>10 DEF vars
<1> QED
  BY <1>1, <1>2, <1>3, <1>4, <1>5, <1>6, <1>7, <1>8, <1>9, <1>10
     DEF Next, PublisherStep, PublisherFault

\* The events of one Execution first appear in the stream in the order of
\* their sequence numbers and none is left out: whatever the publishers,
\* Redis and retention do, every step is one that EventStream allows.
THEOREM DeliversInOrder == Spec => Stream!Safety
<1> DEFINE view == [a \in Executions |-> Delivered(a)]
<1>1. Init => Stream!Init
  <2> SUFFICES ASSUME Init PROVE Stream!Init
    OBVIOUS
  <2>1. \A a \in Executions : Landed(a) = 1 .. 0
    BY DEF Init, Landed, Numbers
  <2>2. \A a \in Executions : Delivered(a) = 0
    BY <2>1, DeliveredIs
  <2> QED
    BY <2>2 DEF Init, Stream!Init
<1>2. ASSUME IInv, [Next]_vars PROVE [Stream!Next]_<<events, view>>
  <2>1. CASE UNCHANGED <<events, log>>
    <3>1. \A a \in Executions : Delivered(a)' = Delivered(a)
      BY <2>1 DEF Delivered, Landed, Numbers
    <3> QED
      BY <2>1, <3>1
  <2>2. ASSUME NEW a \in Executions, Persist(a) PROVE Stream!Next
    <3>1. events' = [events EXCEPT ![a] = events[a] + 1]
      BY <1>2, <2>2, PersistCommits
    <3>2. \A b \in Executions : Delivered(b)' = Delivered(b)
      BY <1>2, <2>2, PersistCommits DEF Delivered
    <3>3. view' = view
      BY <3>2
    <3>4. Stream!Commit(a)
      BY <3>1, <3>3 DEF Stream!Commit
    <3> QED
      BY <3>4 DEF Stream!Next
  <2>3. ASSUME NEW e \in Rows, log' = Append(log, e), UNCHANGED events,
               \A f \in Rows : Before(f, e) => Contains(log, f)
        PROVE  [Stream!Next]_<<events, view>>
    <3>1. e[1] \in Executions
      BY <1>2, RowIs DEF IInv
    <3>2. CASE \A a \in Executions : Delivered(a)' = Delivered(a)
      BY <2>3, <3>2
    <3>3. CASE /\ Delivered(e[1]) < events[e[1]]
               /\ Delivered(e[1])' = Delivered(e[1]) + 1
               /\ \A a \in Executions : a # e[1] => Delivered(a)' = Delivered(a)
      <4>1. view' = [view EXCEPT ![e[1]] = @ + 1]
        BY <3>1, <3>3
      <4>2. view[e[1]] < events[e[1]]
        BY <3>1, <3>3
      <4>3. Stream!Deliver(e[1])
        BY <4>1, <4>2, <2>3 DEF Stream!Deliver
      <4> QED
        BY <4>3, <3>1 DEF Stream!Next
    <3> QED
      BY <3>2, <3>3, <1>2, <2>3, AddIsDelivery
  <2> QED
    BY <1>2, <2>1, <2>2, <2>3, StepsAre
<1> QED
  BY <1>1, <1>2, InvInit, InvStep, PTL DEF Spec, Stream!Safety

=============================================================================
