---------------------------- MODULE EventStream ----------------------------
(***************************************************************************)
(* What event delivery promises an Agent: the events of one Execution      *)
(* first appear in its tenant's stream in the order of their sequence      *)
(* numbers, none is left out, and every committed event appears.  Repeats  *)
(* are allowed and are stuttering steps here.                              *)
(***************************************************************************)
EXTENDS Naturals

CONSTANT Executions

VARIABLES
    committed,  \* events the transactions of an Execution have committed
    delivered   \* events of the Execution that have appeared at least once

Commit(a) ==
    /\ committed' = [committed EXCEPT ![a] = @ + 1]
    /\ UNCHANGED delivered

Deliver(a) ==
    /\ delivered[a] < committed[a]
    /\ delivered' = [delivered EXCEPT ![a] = @ + 1]
    /\ UNCHANGED committed

Init ==
    /\ committed = [a \in Executions |-> 0]
    /\ delivered = [a \in Executions |-> 0]

Next == \E a \in Executions : Commit(a) \/ Deliver(a)

\* What may happen
Safety == Init /\ [][Next]_<<committed, delivered>>

Spec ==
    /\ Safety
    /\ \A a \in Executions : WF_<<committed, delivered>>(Deliver(a))

=============================================================================
