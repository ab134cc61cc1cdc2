----------------------------- MODULE MCCapacity -----------------------------
(* Instances of Capacity for TLC: three executions for two or three runs.   *)
EXTENDS Capacity, TLC

CONSTANTS r1, r2, r3, e1, e2, e3

\* Two executions of the same run (its entry came twice) beside another run.
SharedRun == (e1 :> r1) @@ (e2 :> r1) @@ (e3 :> r2)

\* One execution per run.
OwnRun == (e1 :> r1) @@ (e2 :> r2) @@ (e3 :> r3)
=============================================================================
