--------------------------- MODULE MCRunExecution ---------------------------
(***************************************************************************)
(* Instances of RunExecution.                                              *)
(***************************************************************************)
EXTENDS RunExecution

\* Steps 1 and 2 in parallel, step 3 after both; step 2 on a host.
MixedDeps     == [n \in 1..3 |-> IF n = 3 THEN {1, 2} ELSE {}]
MixedExternal == {2}

\* Steps 1, 2 and 3 in parallel, step 4 after the first, all internal.
ForkDeps     == [n \in 1..4 |-> IF n = 4 THEN {1} ELSE {}]
ForkExternal == {}

OneHost(n) == [m \in 1..n |-> "h1"]
HostOf3 == OneHost(3)
HostOf4 == OneHost(4)
=============================================================================
