--------------------------- MODULE MCRunLifecycle ---------------------------
(* Instances of RunLifecycle for TLC.                                       *)
EXTENDS RunLifecycle, TLC

Symmetry == Permutations(Jobs) \cup Permutations(Tasks)

\* Two tasks and two Job incarnations while Redis cannot be reached: no cancel
\* request, no heartbeat and no redelivery, so the orphan sweep fails every run
\* whose row it finds old.
NextWithoutRedis ==
  /\ Next
  /\ ~flag' /\ ~beat'
  /\ \A t \in Tasks : pc[t] = "done" => pc'[t] = "done"

SpecWithoutRedis == Init /\ [][NextWithoutRedis]_vars

\* No DELETE request, and a sweep whose transaction starts when the pod has no more
\* than its last two transactions to go.
NextLateSweep ==
  /\ Next
  /\ api' = "idle"
  /\ sweep' # "idle" => row.status \in {"processing"} \cup Terminal

SpecLateSweep == Init /\ [][NextLateSweep]_vars
=============================================================================
