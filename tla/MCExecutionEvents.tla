------------------------ MODULE MCExecutionEvents ------------------------
(***************************************************************************)
(* Model values and symmetry for checking ExecutionEvents with TLC.        *)
(***************************************************************************)
EXTENDS ExecutionEvents, TLC

CONSTANTS w1, w2, c1

Symmetry == Permutations({w1, w2})

=============================================================================
