----------------------- MODULE MCExecutionLifecycle -----------------------
(***************************************************************************)
(* Model values and symmetry for checking ExecutionLifecycle with TLC.     *)
(***************************************************************************)
EXTENDS ExecutionLifecycle, TLC

CONSTANTS w1, w2, c1

Symmetry == Permutations({w1, w2})

=============================================================================
