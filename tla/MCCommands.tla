---------------------------- MODULE MCCommands ----------------------------
(***************************************************************************)
(* The requests two callers of one tenant send to the command interfaces,  *)
(* for checking Commands with TLC.                                         *)
(***************************************************************************)
EXTENDS Commands, TLC

CONSTANTS h1, h2

Single ==
    [type |-> "submit", tenant |-> "t1", user |-> "ann", key |-> "a",
     exec |-> 0, version |-> 0, mode |-> "SINGLE", wait |-> FALSE,
     trigger |-> "INTERACTIVE", profile |-> "python", first |-> 0,
     count |-> 1, blank |-> FALSE, overlong |-> FALSE,
     source |-> "INLINE", sha |-> "none"]

Multi == [Single EXCEPT !.mode = "MULTI", !.wait = TRUE, !.source = "PATH",
                        !.sha = "v1"]

\* Requests that must be turned away before they reach a table
Malformed ==
    {[Single EXCEPT !.wait = TRUE], [Multi EXCEPT !.trigger = "BATCH"],
     [Single EXCEPT !.first = 1], [Single EXCEPT !.count = 3],
     [Single EXCEPT !.overlong = TRUE], [Single EXCEPT !.profile = "r"],
     [Single EXCEPT !.blank = TRUE], [Multi EXCEPT !.profile = "batch"]}

On(type, key, version) ==
    [Single EXCEPT !.type = type, !.exec = 1, !.key = key, !.version = version]

Steps(key, version, first, count) ==
    [On("operation", key, version) EXCEPT !.first = first, !.count = count]

MCRequests ==
    {Single, Multi, [Single EXCEPT !.user = "bob"]}
    \cup Malformed
    \cup {Steps("a", 2, 1, 1), Steps("b", 2, 1, 1), Steps("b", 2, 1, 2),
          Steps("c", 2, 2, 1), Steps("b", 5, 2, 1), Steps("c", 5, 2, 2)}
    \cup {On("finalize", "b", 2), On("finalize", "b", 5)}
    \cup {On("cancel", key, 0) : key \in {"a", "b"}}
    \cup {On("retry", key, 0) : key \in {"a", "b"}}
    \cup {[On("cancel", "a", 0) EXCEPT !.user = "bob"]}

Symmetry == Permutations({h1, h2})

=============================================================================
