-------------------------- MODULE MCAgentSchedules --------------------------
(***************************************************************************)
(* Instances of AgentSchedules.                                            *)
(***************************************************************************)
EXTENDS AgentSchedules

\* A recurring schedule and a one-time one, both due when the clock starts, so
\* that one batch holds runs of both.  The first gets every call, and may be
\* made a one-time schedule; the second may be deleted.
TwoKinds == [s \in {"daily", "once"} |-> IF s = "daily" THEN "recurring" ELSE "once"]
TwoTimes == [s \in {"daily", "once"} |-> 1]
TwoOps   == [s \in {"daily", "once"} |-> IF s = "daily" THEN AllUserOps ELSE {"delete"}]
=============================================================================
