------------------------------ MODULE Capacity ------------------------------
(***************************************************************************)
(* The capacity a tenant's executions share: one counter row and at most   *)
(* one active reservation per run (runner.py).  An execution reserves      *)
(* before it spawns the run's Job and releases when spawn returns; the     *)
(* sweep releases what crashed executions left behind.                     *)
(*                                                                         *)
(* Every transaction reads before it locks the counter row and commits     *)
(* what it concluded from that read: the reservation counts on from the    *)
(* counter it saw (the locked session.get does not refresh the object),    *)
(* the release and the sweep give back the reservations they saw.  So each *)
(* is a read step and a commit step here.  Everything between the lock and *)
(* the commit is one step: nobody else gets past the lock in between.      *)
(***************************************************************************)
EXTENDS Integers, FiniteSets

CONSTANTS
  Runs,      \* the tenant's runs
  Execs,     \* the calls of execute_run; each is an owner of its own
  RunOf,     \* the run an execution is for
  Limit,     \* settings.max_concurrent_runs
  Nobody     \* no reservation

ASSUME CapacityConstants ==
  /\ IsFiniteSet(Runs) /\ IsFiniteSet(Execs)
  /\ RunOf \in [Execs -> Runs]
  /\ Limit \in Nat \ {0}
  /\ Nobody \notin Execs

Absent == -1      \* the counter row does not exist yet

VARIABLES
  status,    \* of each run: "queued", "live", "final"
  job,       \* the runs that have had a Job
  count,     \* active_count, or Absent
  holder,    \* the owner of the run's active reservation, or Nobody
  old,       \* the runs whose reservation is older than RESERVATION_STALE_S
  pc,        \* where each execution is
  seen,      \* the counter an execution read
  got,       \* the reservation a releasing execution read
  todo,      \* the reservations, <<run, owner>>, the sweep selected and has not judged
  picked     \* those it is releasing: it holds the counter's lock when there are any

vars == <<status, job, count, holder, old, pc, seen, got, todo, picked>>

Pcs == {"new", "reserve", "seen", "refused", "failing", "granted", "spawned", "release",
        "releasing", "done"}
Reservations == Runs \X Execs

TypeOK ==
  /\ status \in [Runs -> {"queued", "live", "final"}]
  /\ job \subseteq Runs
  /\ count \in Nat \cup {Absent}
  /\ holder \in [Runs -> Execs \cup {Nobody}]
  /\ old \subseteq Runs
  /\ pc \in [Execs -> Pcs]
  /\ seen \in [Execs -> Nat \cup {Absent}]
  /\ got \in [Execs -> Execs \cup {Nobody}]
  /\ todo \subseteq Reservations /\ picked \subseteq Reservations

Init ==
  /\ status = [r \in Runs |-> "queued"]
  /\ job = {}
  /\ count = Absent
  /\ holder = [r \in Runs |-> Nobody]
  /\ old = {}
  /\ pc = [e \in Execs |-> "new"]
  /\ seen = [e \in Execs |-> Absent]
  /\ got = [e \in Execs |-> Nobody]
  /\ todo = {} /\ picked = {}

Held == {<<r, holder[r]>> : r \in {r \in Runs : holder[r] # Nobody}}
Locked == picked # {}

Go(e, l) == pc' = [pc EXCEPT ![e] = l]
Forgets(e) == seen' = [seen EXCEPT ![e] = Absent] /\ got' = [got EXCEPT ![e] = Nobody]
Sweeping == <<todo, picked>>

-----------------------------------------------------------------------------
(* execute_run                                                              *)

\* A run that is not queued any more is left alone.
ExecuteRun(e) ==
  /\ pc[e] = "new"
  /\ Go(e, IF status[RunOf[e]] = "queued" THEN "reserve" ELSE "done")
  /\ UNCHANGED <<status, job, count, holder, old, seen, got, Sweeping>>

\* _try_reserve_capacity reads the counter without a lock ..
ReserveRead(e) ==
  /\ pc[e] = "reserve"
  /\ seen' = [seen EXCEPT ![e] = count]
  /\ Go(e, "seen")
  /\ UNCHANGED <<status, job, count, holder, old, got, Sweeping>>

\* Fault: the counter may go one over the limit.
ReservableOver(r, n) == holder[r] = Nobody /\ n <= Limit

\* The conditions of a new reservation, at a counter of n.
Reservable(r, n) == holder[r] = Nobody /\ n < Limit

\* .. inserts it if there was none, unless somebody else just did: the primary key
\* refuses the second insert, and run_claim reports the error ..
ReserveConflict(e) ==
  /\ pc[e] = "seen" /\ seen[e] = Absent /\ count # Absent /\ ~Locked
  /\ Go(e, "failing") /\ Forgets(e)
  /\ UNCHANGED <<status, job, count, holder, old, Sweeping>>

\* .. or locks it, and reserves on top of the counter it saw.
ReserveCommit(e) ==
  LET r == RunOf[e]
      n == IF seen[e] = Absent THEN 0 ELSE seen[e]
  IN /\ pc[e] = "seen" /\ ~(seen[e] = Absent /\ count # Absent) /\ ~Locked
     /\ IF Reservable(r, n)
        THEN /\ holder' = [holder EXCEPT ![r] = e]
             /\ old' = old \ {r}
             /\ count' = n + 1
             /\ Go(e, "granted")
        ELSE /\ count' = IF count = Absent THEN 0 ELSE count
             /\ \E l \in {"reserve", "refused"} : Go(e, l)     \* ADMIT_POLL_S, ADMIT_WAIT_S
             /\ UNCHANGED <<holder, old>>
     /\ Forgets(e)
     /\ UNCHANGED <<status, job, Sweeping>>

\* _has_other_reservation: another execution of the run is at it.
RefusedCheck(e) ==
  /\ pc[e] = "refused"
  /\ Go(e, IF holder[RunOf[e]] \in {Nobody, e} THEN "failing" ELSE "done")
  /\ UNCHANGED <<status, job, count, holder, old, seen, got, Sweeping>>

\* fail_run
FailRun(e) ==
  /\ pc[e] = "failing"
  /\ status' = [status EXCEPT ![RunOf[e]] = "final"]
  /\ Go(e, "done")
  /\ UNCHANGED <<job, count, holder, old, seen, got, Sweeping>>

\* The profile lease is free and JobRuntime.spawn creates or adopts the Job; or the
\* lease is taken and the run fails.
Spawn(e) ==
  /\ pc[e] = "granted"
  /\ \/ job' = job \cup {RunOf[e]} /\ Go(e, "spawned") /\ UNCHANGED status
     \/ status' = [status EXCEPT ![RunOf[e]] = "final"] /\ Go(e, "release") /\ UNCHANGED job
  /\ UNCHANGED <<count, holder, old, seen, got, Sweeping>>

\* spawn returns once the run is final, or its task is cancelled at a worker's shutdown.
SpawnReturns(e) ==
  /\ pc[e] = "spawned"
  /\ Go(e, "release")
  /\ UNCHANGED <<status, job, count, holder, old, seen, got, Sweeping>>

\* release_capacity reads the run's active reservation, whoever owns it ..
ReleaseRead(e) ==
  /\ pc[e] = "release"
  /\ got' = [got EXCEPT ![e] = holder[RunOf[e]]]
  /\ Go(e, IF holder[RunOf[e]] = Nobody THEN "done" ELSE "releasing")
  /\ UNCHANGED <<status, job, count, holder, old, seen, Sweeping>>

\* Fault: the reservation is released, the counter is not decremented.
ReleaseCommitForgets(e) ==
  /\ pc[e] = "releasing" /\ ~Locked
  /\ holder' = [holder EXCEPT ![RunOf[e]] = IF @ = got[e] THEN Nobody ELSE @]
  /\ Go(e, "done") /\ Forgets(e)
  /\ UNCHANGED <<status, job, count, old, Sweeping>>

\* Fault: the counter may go below zero.
DecrementedBelow(n, k) == n - k

\* What k releases leave of a counter of n.
Decremented(n, k) == IF n < k THEN 0 ELSE n - k     \* max(0, ..), k times

\* .. and gives back that one, and a place, without another look at the reservation.
ReleaseCommit(e) ==
  /\ pc[e] = "releasing" /\ ~Locked
  /\ holder' = [holder EXCEPT ![RunOf[e]] = IF @ = got[e] THEN Nobody ELSE @]
  /\ count' = Decremented(count, 1)
  /\ Go(e, "done") /\ Forgets(e)
  /\ UNCHANGED <<status, job, old, Sweeping>>

\* The worker dies, and the transaction it was in with it.  Between transactions an
\* execution that died is one that takes no further step: none has to.
Crash(e) ==
  /\ pc[e] \in {"seen", "releasing"}
  /\ Go(e, "done") /\ Forgets(e)
  /\ UNCHANGED <<status, job, count, holder, old, Sweeping>>

-----------------------------------------------------------------------------
(* sweep_capacity                                                           *)

\* Selects the active reservations ..
SweepSelect ==
  /\ todo = {} /\ picked = {}
  /\ todo' = Held
  /\ UNCHANGED <<status, job, count, holder, old, pc, seen, got, picked>>

\* Fault: a final run keeps its place.
JudgeForgetsFinal(x) == status[x[1]] = "queued" /\ x[1] \in old

\* The run is over, or was queued for longer than RESERVATION_STALE_S.
Released(x) == \/ status[x[1]] = "final"
               \/ status[x[1]] = "queued" /\ x[1] \in old

\* .. looks at their runs one after the other ..
SweepJudge(x) ==
  /\ x \in todo
  /\ todo' = todo \ {x}
  /\ picked' = IF Released(x) THEN picked \cup {x} ELSE picked
  /\ UNCHANGED <<status, job, count, holder, old, pc, seen, got>>

\* .. and commits.
SweepCommit ==
  /\ todo = {} /\ picked # {}
  /\ holder' = [r \in Runs |-> IF <<r, holder[r]>> \in picked THEN Nobody ELSE holder[r]]
  /\ count' = Decremented(count, Cardinality(picked))
  /\ picked' = {}
  /\ UNCHANGED <<status, job, old, pc, seen, got, todo>>

-----------------------------------------------------------------------------
(* The runs and the clock                                                   *)

\* The pod's advance(JOINING).
RunStarts(r) ==
  /\ r \in job /\ status[r] = "queued"
  /\ status' = [status EXCEPT ![r] = "live"]
  /\ UNCHANGED <<job, count, holder, old, pc, seen, got, Sweeping>>

\* The pod, the orphan sweep or the API ends the run.
RunEnds(r) ==
  /\ status[r] # "final"
  /\ status' = [status EXCEPT ![r] = "final"]
  /\ UNCHANGED <<job, count, holder, old, pc, seen, got, Sweeping>>

Ages(r) ==
  /\ holder[r] # Nobody /\ status[r] = "queued" /\ r \notin old
  /\ old' = old \cup {r}
  /\ UNCHANGED <<status, job, count, holder, pc, seen, got, Sweeping>>

Next ==
  \/ \E e \in Execs : \/ ExecuteRun(e) \/ ReserveRead(e) \/ ReserveConflict(e)
                      \/ ReserveCommit(e) \/ RefusedCheck(e) \/ FailRun(e) \/ Spawn(e)
                      \/ SpawnReturns(e) \/ ReleaseRead(e) \/ ReleaseCommit(e) \/ Crash(e)
  \/ SweepSelect \/ SweepCommit
  \/ \E x \in Reservations : SweepJudge(x)
  \/ \E r \in Runs : RunStarts(r) \/ RunEnds(r) \/ Ages(r)

Spec == Init /\ [][Next]_vars

\* The worker sweeps every SWEEP_INTERVAL_S, and a sweep goes through its list.
Fairness ==
  /\ WF_vars(SweepSelect) /\ WF_vars(SweepCommit)
  /\ \A x \in Reservations : WF_vars(SweepJudge(x))

FairSpec == Spec /\ Fairness

-----------------------------------------------------------------------------

\* The counter is bounded by the limit, whatever the executions read before.
CounterWithinLimit == count <= Limit

Current ==
  /\ \A e \in Execs : pc[e] = "seen" => seen[e] = count
  /\ \A e \in Execs : pc[e] = "releasing" => got[e] = holder[RunOf[e]]
  /\ todo \cup picked \subseteq Held

Counted(c, h) == IF c = Absent THEN {r \in Runs : h[r] # Nobody} = {}
                 ELSE c = Cardinality({r \in Runs : h[r] # Nobody})

\* Only a stale read makes the counter drift: while the reads of all open
\* transactions are current, every step keeps it equal to the active reservations.
CountsExactly == [][Counted(count, holder) /\ Current => Counted(count', holder')]_vars

\* A place that a crashed execution left behind is free again once its run is over.
StrandedPlacesFreed ==
  \A r \in Runs : holder[r] # Nobody /\ status[r] = "final" ~> holder[r] = Nobody

\* "atomic PostgreSQL capacity reservations" (PLAN.md): never more than the limit.
ActiveWithinLimit == Cardinality(Held) <= Limit
=============================================================================
