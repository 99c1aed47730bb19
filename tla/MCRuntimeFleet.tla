--------------------------- MODULE MCRuntimeFleet ---------------------------
(* Two servers and two Executions, of which one is retried; ids, servers and   *)
(* keys are interchangeable.                                                   *)
EXTENDS RuntimeFleet, TLC

CONSTANTS Retried, Other, Batch, Gpu

MCExecutions == {Retried, Other}

MCPools == {Batch, Gpu}

MCPoolOf == [x \in MCExecutions |-> Batch]

MCMaxAttempts == [x \in MCExecutions |-> IF x = Retried THEN 2 ELSE 1]

\* No fresh observation, a busy server, one at its memory limit, a free one
MCObserved ==
    {[sessions |-> None, memory |-> None], [sessions |-> 1, memory |-> None],
     [sessions |-> 0, memory |-> "high"], [sessions |-> 0, memory |-> "low"]}

Symmetry ==
    Permutations(Targets) \cup Permutations(Endpoints) \cup Permutations(Names)
        \cup Permutations(Keys)

=============================================================================
