---------------------------- MODULE ProfileLease ----------------------------
(***************************************************************************)
(* The signed-in profile of a tenant, shared by the runs that RunApi       *)
(* creates and GuestPacing lets go: the Redis lease that execute_run       *)
(* (bots/runner.py) holds while JobRuntime.spawn waits for the pod's Job,  *)
(* and the archive of the profile, which the pod restores before it joins  *)
(* and stores again when it leaves (bots/runtime.py).  Guests have a       *)
(* directory each and take no lease (ADR 0011).                            *)
(*                                                                         *)
(* Left to other modules: the capacity reservation around this (Capacity), *)
(* entries delivered twice (Dispatch), and what else the pod does (Attend).*)
(***************************************************************************)
EXTENDS RunApi, GuestPacing, FiniteSets

CONSTANT Orphaned   \* the owner of a lease that nobody will give back

ASSUME LeaseConstants == Claims = Requests /\ Orphaned \notin Requests \cup {None}

VARIABLES
  task,    \* where execute_run is for each run
  raised,  \* the runs whose execution raised an exception
  pod,     \* where the run's pod is
  lease,   \* who holds the lease: the latest execution of a run, None or Orphaned
  mine,    \* the sessions in the profile of each pod: the runs that used it before
  stored,  \* those in the archive
  lapsed,  \* a lease was given up before its Job had ended
  blind    \* an archive could not be read

vars == <<apiVars, mishaps, pacingVars, task, raised, pod, lease, mine, stored, lapsed, blind>>

Signed == gap = 0
Tasks == {"new", "execute", "acquire", "spawn", "watch", "settle", "release", "delete", "failing", "done"}
UsingProfile == {"meeting", "raise", "persist", "failing persist"}
Pods == {"none", "launch", "restored", "fail", "gone"} \cup UsingProfile

TypeOK ==
  /\ ApiTypeOK /\ PacingTypeOK
  /\ task \in [Requests -> Tasks] /\ raised \subseteq Requests
  /\ pod \in [Requests -> Pods]
  /\ lease \in Requests \cup {None, Orphaned}
  /\ mine \in [Requests -> SUBSET Requests] /\ stored \subseteq Requests
  /\ lapsed \in BOOLEAN /\ blind \in BOOLEAN

Init ==
  /\ ApiInit /\ PacingInit
  /\ task = [r \in Requests |-> "new"] /\ raised = {}
  /\ pod = [r \in Requests |-> "none"] /\ lease = None
  /\ mine = [r \in Requests |-> {}] /\ stored = {}
  /\ lapsed = FALSE /\ blind = FALSE

profile == <<mine, stored, blind>>

To(r, place) == task' = [task EXCEPT ![r] = place]
PodTo(r, place) == pod' = [pod EXCEPT ![r] = place]
Ends(r) == row' = [row EXCEPT ![r] = "over"]
NoApi == UNCHANGED <<ask, pc, reply>>
NoRow == NoApi /\ UNCHANGED row

-----------------------------------------------------------------------------
(* run_claim and execute_run                                                *)

\* The run was created: its entry is claimed and paced.
Claim(r) ==
  /\ row[r] # "none" /\ task[r] = "new" /\ Reserve(r)
  /\ IF pace'[r] = "past" THEN To(r, "execute") ELSE UNCHANGED task
  /\ NoRow /\ Fine /\ UNCHANGED <<raised, pod, lease, profile, lapsed>>

LetGo(r) ==
  /\ Pass(r) /\ To(r, "execute")
  /\ NoRow /\ Fine /\ UNCHANGED <<raised, pod, lease, profile, lapsed>>

\* The look for the cancel flag, first and while it waits: a claim that came again, for a run
\* that is live, may find one; or Redis fails, and run_claim fails the run.
Withdrawn(r) ==
  /\ row[r] # "none" /\ task[r] = "new"
  /\ \/ (Drop(r) \/ Withdraw(r)) /\ row[r] = "live" /\ NoRow /\ Fine
     \/ (Drop(r) \/ WaitFails(r)) /\ Ends(r) /\ NoApi /\ Mishap
  /\ To(r, "done")
  /\ UNCHANGED <<raised, pod, lease, profile, lapsed>>

\* A run that is not queued is left alone, unless its cancel flag is seen: then it fails.
Execute(r) ==
  /\ task[r] = "execute"
  /\ \/ To(r, IF row[r] # "queued" THEN "done" ELSE IF Signed THEN "acquire" ELSE "spawn")
        /\ NoRow
     \/ row[r] = "live" /\ To(r, "done") /\ Ends(r) /\ NoApi
  /\ Fine /\ UNCHANGED <<pacingVars, raised, pod, lease, profile, lapsed>>

\* Fault: SET without NX.
AcquireAnyway(r) ==
  /\ task[r] = "acquire" /\ lease' = r /\ To(r, "spawn")
  /\ NoRow /\ Fine /\ UNCHANGED <<pacingVars, raised, pod, profile, lapsed>>

\* Fault: SET with its arguments swapped.
AcquireSwapped(r) ==
  /\ task[r] = "acquire"
  /\ IF lease = None THEN lease' = "profiles:lease" /\ To(r, "spawn") /\ NoRow
     ELSE To(r, "done") /\ Ends(r) /\ NoApi /\ UNCHANGED lease
  /\ Fine /\ UNCHANGED <<pacingVars, raised, pod, profile, lapsed>>

\* acquire_lease: SET NX EX; a run that does not get it has failed.
Acquire(r) ==
  /\ task[r] = "acquire"
  /\ IF lease = None THEN lease' = r /\ To(r, "spawn") /\ NoRow
     ELSE To(r, "done") /\ Ends(r) /\ NoApi /\ UNCHANGED lease
  /\ Fine /\ UNCHANGED <<pacingVars, raised, pod, profile, lapsed>>

\* Redis fails: the SET is not made, or it is and its answer is lost, outside the try that
\* releases; run_claim fails the run.
AcquireFails(r) ==
  /\ task[r] = "acquire" /\ To(r, "failing") /\ Mishap
  /\ UNCHANGED lease \/ (lease = None /\ lease' = Orphaned)
  /\ raised' = raised \cup {r}
  /\ NoRow /\ UNCHANGED <<pacingVars, pod, profile, lapsed>>

\* spawn: the Job is created, or the one that is there adopted.
Spawn(r) ==
  /\ task[r] = "spawn" /\ To(r, "watch")
  /\ IF pod[r] = "none" THEN PodTo(r, "launch") ELSE UNCHANGED pod
  /\ NoRow /\ Fine /\ UNCHANGED <<pacingVars, raised, lease, profile, lapsed>>

\* Fault: the row is watched instead of the Job.
WatchRow(r) ==
  /\ task[r] = "watch" /\ (row[r] = "over" \/ pod[r] = "gone") /\ To(r, "settle")
  /\ NoRow /\ Fine /\ UNCHANGED <<pacingVars, raised, pod, lease, profile, lapsed>>

\* wait_terminal: the Job has ended.
Watch(r) ==
  /\ task[r] = "watch" /\ pod[r] = "gone" /\ To(r, "settle")
  /\ NoRow /\ Fine /\ UNCHANGED <<pacingVars, raised, pod, lease, profile, lapsed>>

\* wait_terminal gives up and the Job is deleted; its pod may take its grace period.
WatchTimesOut(r) ==
  /\ task[r] = "watch" /\ pod[r] # "gone" /\ Mishap
  /\ To(r, "settle") /\ lapsed' = TRUE
  /\ NoRow /\ UNCHANGED <<pacingVars, raised, pod, lease, profile>>

\* fail_run, unless the row is over.
Settle(r) ==
  /\ task[r] = "settle" /\ Ends(r)
  /\ To(r, IF Signed THEN "release" ELSE "done")
  /\ NoApi /\ Fine /\ UNCHANGED <<pacingVars, raised, pod, lease, profile, lapsed>>

\* Fault: an exception of spawn passes the release by.
SpawnFailsHolding(r) ==
  /\ task[r] \in {"spawn", "watch"} /\ Mishap
  /\ To(r, "failing")
  /\ raised' = raised \cup {r} /\ lapsed' = (lapsed \/ pod[r] # "gone")
  /\ NoRow /\ UNCHANGED <<pacingVars, pod, lease, profile>>

\* The Kubernetes API or the database fails, perhaps once the Job is there: the finally
\* releases the lease, then run_claim fails the run.
SpawnFails(r) ==
  /\ task[r] \in {"spawn", "watch"} /\ Mishap
  /\ To(r, IF Signed THEN "release" ELSE "failing")
  /\ \/ UNCHANGED pod
     \/ task[r] = "spawn" /\ pod[r] = "none" /\ PodTo(r, "launch")
  /\ raised' = raised \cup {r} /\ lapsed' = (lapsed \/ pod'[r] \notin {"none", "gone"})
  /\ NoRow /\ UNCHANGED <<pacingVars, lease, profile>>

After(r) == To(r, IF r \in raised THEN "failing" ELSE "done")

\* release_lease: GET, and DELETE if the value is this execution's; an error is logged.
Release(r) ==
  /\ task[r] = "release" /\ Fine
  /\ IF lease = r THEN To(r, "delete") ELSE After(r)
  /\ NoRow /\ UNCHANGED <<pacingVars, raised, pod, lease, profile, lapsed>>

Delete(r) ==
  /\ task[r] = "delete" /\ After(r) /\ Fine
  /\ lease' = None
  /\ NoRow /\ UNCHANGED <<pacingVars, raised, pod, profile, lapsed>>

ReleaseFails(r) ==
  /\ task[r] \in {"release", "delete"} /\ After(r) /\ Mishap
  /\ lease' = IF lease = r THEN Orphaned ELSE lease
  /\ NoRow /\ UNCHANGED <<pacingVars, raised, pod, profile, lapsed>>

FailRun(r) ==
  /\ task[r] = "failing" /\ To(r, "done") /\ Ends(r)
  /\ NoApi /\ Fine /\ UNCHANGED <<pacingVars, raised, pod, lease, profile, lapsed>>

\* The worker is told to end: the claims that wait withdraw, and what has not ended after
\* 120 s is cancelled, which runs the finally of execute_run.
Shutdown ==
  /\ Mishap /\ NewProcess({})
  /\ task' = [r \in Requests |->
       IF pace[r] = "waiting" \/ (task[r] = "watch" /\ ~Signed) THEN "done"
       ELSE IF task[r] = "watch" THEN "release" ELSE task[r]]
  /\ lapsed' = (lapsed \/ \E r \in Requests : task[r] = "watch" /\ pod[r] # "gone")
  /\ NoRow /\ UNCHANGED <<raised, pod, lease, profile>>

\* The worker is killed, and another one claims its entries.
KillWorker ==
  /\ Mishap /\ NewProcess({r \in Requests : task[r] # "done"})
  /\ task' = [r \in Requests |-> IF task[r] = "done" THEN "done" ELSE "new"] /\ raised' = {}
  /\ lease' = IF lease = None THEN None ELSE Orphaned
  /\ NoRow /\ UNCHANGED <<pod, profile, lapsed>>

\* LEASE_TTL_S is over; nobody renews the lease.
LeaseExpires ==
  /\ lease # None /\ lease' = None
  /\ lapsed' = (lapsed \/ lease # Orphaned \/ \E r \in Requests : pod[r] \notin {"none", "gone"})
  /\ Mishap /\ NoRow /\ UNCHANGED <<pacingVars, task, raised, pod, profile>>

-----------------------------------------------------------------------------
(* attend in the pod                                                        *)

PodStep == UNCHANGED <<pacingVars, task, raised, lease, lapsed>>

\* _restore_profile; an archive that cannot be fetched is passed by, and one that cannot be
\* unpacked ends the pod, before the try whose finally would store the profile.
Restore(r) ==
  /\ pod[r] = "launch" /\ UNCHANGED stored
  /\ \/ PodTo(r, "restored") /\ Fine /\ UNCHANGED blind
        /\ mine' = IF Signed THEN [mine EXCEPT ![r] = stored] ELSE mine
     \/ PodTo(r, "restored") /\ Signed /\ Mishap /\ UNCHANGED mine /\ blind' = TRUE
     \/ PodTo(r, "fail") /\ Signed /\ Mishap /\ UNCHANGED <<mine, blind>>
  /\ NoRow /\ PodStep

\* advance to JOINING, which a run that is over refuses; then the browser uses the profile.
Join(r) ==
  /\ pod[r] = "restored" /\ Fine /\ UNCHANGED profile
  /\ IF row[r] = "over" THEN PodTo(r, "failing persist") /\ UNCHANGED row
     ELSE PodTo(r, "meeting") /\ row' = [row EXCEPT ![r] = "live"]
  /\ NoApi /\ PodStep

\* The meeting is over, and so is the run; or an exception comes up.
Leave(r) ==
  /\ pod[r] = "meeting" /\ mine' = [mine EXCEPT ![r] = @ \cup {r}]
  /\ \/ PodTo(r, "persist") /\ Ends(r)
     \/ PodTo(r, "failing persist") /\ UNCHANGED row
  /\ Fine /\ NoApi /\ PodStep /\ UNCHANGED <<stored, blind>>

\* _persist_profile, in the finally: the archive is replaced; an error is logged.
Persist(r) ==
  /\ pod[r] \in {"persist", "failing persist"}
  /\ PodTo(r, IF pod[r] = "persist" THEN "gone" ELSE "fail")
  /\ \/ stored' = (IF Signed THEN mine[r] ELSE stored) /\ Fine
     \/ UNCHANGED stored /\ Mishap
  /\ NoRow /\ PodStep /\ UNCHANGED <<mine, blind>>

\* bot_run's fail_run
PodFailsRun(r) ==
  /\ pod[r] = "fail" /\ PodTo(r, "gone") /\ Ends(r)
  /\ Fine /\ NoApi /\ PodStep /\ UNCHANGED profile

KillPod(r) ==
  /\ pod[r] \notin {"none", "gone"} /\ PodTo(r, "gone") /\ Mishap
  /\ NoRow /\ PodStep /\ UNCHANGED profile

-----------------------------------------------------------------------------

Worker(r) ==
  \/ Claim(r) \/ LetGo(r) \/ Withdrawn(r) \/ Execute(r) \/ Acquire(r)
  \/ AcquireFails(r) \/ Spawn(r) \/ Watch(r) \/ WatchTimesOut(r)
  \/ Settle(r) \/ SpawnFails(r) \/ Release(r) \/ Delete(r) \/ ReleaseFails(r) \/ FailRun(r)

Pod(r) == Restore(r) \/ Join(r) \/ Leave(r) \/ Persist(r) \/ PodFailsRun(r)

Others == UNCHANGED <<task, raised, pod, lease, profile, lapsed>>

Next ==
  \/ Api /\ UNCHANGED pacingVars /\ Others
  \/ \E r \in Requests : Worker(r) \/ Pod(r) \/ KillPod(r)
  \/ Shutdown \/ KillWorker \/ LeaseExpires
  \/ Tick /\ Fine /\ NoRow /\ Others

Spec == Init /\ [][Next]_vars

\* The worker's tasks go on, and a pod ends: its Job has activeDeadlineSeconds.  They take
\* finitely many steps, so that fairness to all of them together is enough.
FairSpec == Spec /\ WF_vars(\E r \in Requests : Worker(r) \/ Pod(r))

-----------------------------------------------------------------------------

Using == {r \in Requests : pod[r] \in UsingProfile}

\* "The same profile can never run on two bots at once" (PLAN.md): so it is as long as no
\* lease is given up before its Job has ended, whatever pods and workers are killed and
\* whatever claims come again.
OneBotPerProfile == Signed /\ ~lapsed => Cardinality(Using) <= 1

\* "download -> launch persistent context -> upload back" (PLAN.md): the archive keeps every
\* session that was stored in it, for a pod restores what its predecessor stored; unless a
\* lease was given up early or an archive could not be read.
SessionsKept == [][Signed /\ ~lapsed' /\ ~blind' => stored \subseteq stored']_vars

\* The lease does not wait for its hour to be over: an execution that holds it gives it back,
\* when pods are killed and the Kubernetes API fails too.
LeaseComesFree == []<>(lease \notin Requests)
=============================================================================
