------------------------------ MODULE Dispatch ------------------------------
(***************************************************************************)
(* How a queued run gets to a worker (bots/queue.py, worker.py and         *)
(* execute_run): its row is the intent, the relay copies it to the Redis   *)
(* stream, a worker claims the entry and handles it in a task, and the     *)
(* task acknowledges the entry whatever became of the run.                  *)
(*                                                                         *)
(* A step is one transaction, one Redis command or one Kubernetes call;    *)
(* the relay's transaction holds row locks while it writes to Redis, so it *)
(* is a select, one XADD per row and a commit.  What RunLifecycle and      *)
(* Capacity say in full is short here: a run is queued, live or final, and *)
(* a reservation is had or refused.                                         *)
(***************************************************************************)
EXTENDS Integers, Sequences, FiniteSets, FiniteSetsExt, SequencesExt

CONSTANTS
  Bots,         \* runs
  Workers,      \* worker processes, restarted when they end (two during a rollout)
  Tasks,        \* names for the run_claim tasks
  MaxRuns,      \* max_concurrent_runs: the tasks of one worker
  MaxMishaps,   \* bound: crashes, shutdowns, failing Redis commands, failing pods
  Gone,         \* the holder of a reservation whose task has died
  None

\* "busy" and "fail" are calls of fail_run, "release" and "raising" of release_capacity.
TaskPcs == {"claimed", "execute", "admit", "refused", "spawn", "watch", "busy", "release",
            "raising", "fail", "ack"}

ASSUME DispatchConstants ==
  /\ MaxRuns \in Nat \ {0} /\ MaxMishaps \in Nat
  /\ None \notin Tasks /\ Gone \notin Tasks /\ None # Gone
  /\ None \notin [worker : Workers, entry : Nat, pc : TaskPcs]

VARIABLES
  status,     \* of each run: "none", "queued", "live", "final"
  enqueued,   \* the runs whose dispatch_status is "enqueued"
  job,        \* of each run: None, "pod", "failed"
  holder,     \* the task that holds the run's reservation, Gone, or None
  stream,     \* the entries: [bot, state: "new", "pending", "acked", idle: for 300 s]
  worker,     \* "up", "stopping" (SHUTDOWN_EVENT), "failing" (main raised), "down"
  relay,      \* of each worker: [pc, todo, added], the transaction of relay_queued
  task,       \* of each task: [worker, entry, pc], or None
  mishaps     \* how many of MaxMishaps were used

runs == <<status, enqueued, job, holder>>
vars == <<runs, stream, worker, relay, task, mishaps>>

Entries == [bot : Bots, state : {"new", "pending", "acked"}, idle : BOOLEAN]
Idle == [pc |-> "idle", todo |-> {}, added |-> {}]

TypeOK ==
  /\ status \in [Bots -> {"none", "queued", "live", "final"}]
  /\ enqueued \subseteq Bots
  /\ job \in [Bots -> {None, "pod", "failed"}]
  /\ holder \in [Bots -> Tasks \cup {Gone, None}]
  /\ stream \in Seq(Entries)
  /\ worker \in [Workers -> {"up", "stopping", "failing", "down"}]
  /\ relay \in [Workers -> [pc : {"idle", "adding"}, todo : SUBSET Bots, added : SUBSET Bots]]
  /\ task \in [Tasks -> [worker : Workers, entry : 1..Len(stream), pc : TaskPcs] \cup {None}]
  /\ \A t \in Tasks : task[t] # None => stream[task[t].entry].state # "new"
  /\ mishaps \in 0..MaxMishaps

Init ==
  /\ status = [b \in Bots |-> "none"]
  /\ enqueued = {}
  /\ job = [b \in Bots |-> None]
  /\ holder = [b \in Bots |-> None]
  /\ stream = <<>>
  /\ worker = [w \in Workers |-> "up"]
  /\ relay = [w \in Workers |-> Idle]
  /\ task = [t \in Tasks |-> None]
  /\ mishaps = 0

Mishap == mishaps < MaxMishaps /\ mishaps' = mishaps + 1
TasksOf(w) == {t \in Tasks : task[t] # None /\ task[t].worker = w}
Bot(t) == stream[task[t].entry].bot
Go(t, l) == task' = [task EXCEPT ![t].pc = l]
\* The reservations of tasks that are no more.
Orphaned(T) == [b \in Bots |-> IF holder[b] \in T THEN Gone ELSE holder[b]]
InState(s) == {n \in DOMAIN stream : stream[n].state = s}

-----------------------------------------------------------------------------
(* The API                                                                  *)

\* create_bot: the row, queued and with its dispatch pending.
Create(b) ==
  /\ status[b] = "none"
  /\ status' = [status EXCEPT ![b] = "queued"]
  /\ UNCHANGED <<enqueued, job, holder, stream, worker, relay, task, mishaps>>

Locked == UNION {relay[w].todo \cup relay[w].added : w \in Workers}

\* cancel_bot, of a queued run.
Cancel(b) ==
  /\ status[b] = "queued" /\ b \notin Locked
  /\ status' = [status EXCEPT ![b] = "final"]
  /\ UNCHANGED <<enqueued, job, holder, stream, worker, relay, task, mishaps>>

-----------------------------------------------------------------------------
(* relay_queued                                                             *)

RelayUnchanged == UNCHANGED <<status, job, holder, worker, task>>

\* Fault: rows that another worker has locked are not skipped.
RelayableUnlocked == {b \in Bots : status[b] = "queued" /\ b \notin enqueued}

\* FOR UPDATE SKIP LOCKED
Relayable == {b \in Bots : status[b] = "queued" /\ b \notin enqueued} \ Locked

RelaySelect(w) ==
  /\ worker[w] = "up" /\ relay[w].pc = "idle" /\ Relayable # {}
  /\ relay' = [relay EXCEPT ![w] = [pc |-> "adding", todo |-> Relayable, added |-> {}]]
  /\ RelayUnchanged /\ UNCHANGED <<enqueued, stream, mishaps>>

RelayAdd(w, b) ==
  /\ b \in relay[w].todo
  /\ stream' = Append(stream, [bot |-> b, state |-> "new", idle |-> FALSE])
  /\ relay' = [relay EXCEPT ![w] = [pc |-> "adding", todo |-> @.todo \ {b},
                                       added |-> @.added \cup {b}]]
  /\ RelayUnchanged /\ UNCHANGED <<enqueued, mishaps>>

\* XADD fails: the row stays pending.
RelayFails(w, b) ==
  /\ b \in relay[w].todo /\ Mishap
  /\ relay' = [relay EXCEPT ![w].todo = @ \ {b}]
  /\ RelayUnchanged /\ UNCHANGED <<enqueued, stream>>

\* .. or XADD was applied and its answer is lost: the row stays pending all the same.
RelayUnheard(w, b) ==
  /\ b \in relay[w].todo /\ Mishap
  /\ stream' = Append(stream, [bot |-> b, state |-> "new", idle |-> FALSE])
  /\ relay' = [relay EXCEPT ![w].todo = @ \ {b}]
  /\ RelayUnchanged /\ UNCHANGED enqueued

RelayCommit(w) ==
  /\ relay[w].pc = "adding" /\ relay[w].todo = {}
  /\ enqueued' = enqueued \cup relay[w].added
  /\ relay' = [relay EXCEPT ![w] = Idle]
  /\ RelayUnchanged /\ UNCHANGED <<stream, mishaps>>

\* The commit fails; main logs it and goes on.
RelayRollsBack(w) ==
  /\ relay[w].pc = "adding" /\ relay[w].todo = {} /\ Mishap
  /\ relay' = [relay EXCEPT ![w] = Idle]
  /\ RelayUnchanged /\ UNCHANGED <<enqueued, stream>>

-----------------------------------------------------------------------------
(* The worker's loop                                                        *)

\* Fault: entries whose worker has died are not claimed again.
ClaimableNew == IF InState("new") # {} THEN {Min(InState("new"))} ELSE {}

\* The next entry: one that has been pending for ORPHAN_IDLE_MS, whoever has it, and
\* else a new one; in either case the oldest.
Claimable == LET stale == {n \in InState("pending") : stream[n].idle}
             IN IF stale # {} THEN {Min(stale)}
                ELSE IF InState("new") # {} THEN {Min(InState("new"))} ELSE {}

\* A free name for a task.
Free(t) == task[t] = None /\ t = CHOOSE u \in Tasks : task[u] = None

\* Fault: the entry is read past the consumer group.
ClaimUngrouped(w, t) ==
  /\ worker[w] = "up" /\ relay[w].pc = "idle" /\ Cardinality(TasksOf(w)) < MaxRuns
  /\ Free(t)
  /\ \E n \in Claimable :
       task' = [task EXCEPT ![t] = [worker |-> w, entry |-> n, pc |-> "claimed"]]
  /\ UNCHANGED <<runs, stream, worker, relay, mishaps>>

Claim(w, t) ==
  /\ worker[w] = "up" /\ relay[w].pc = "idle" /\ Cardinality(TasksOf(w)) < MaxRuns
  /\ Free(t)
  /\ \E n \in Claimable :
       /\ stream' = [stream EXCEPT ![n] = [@ EXCEPT !.state = "pending", !.idle = FALSE]]
       /\ task' = [task EXCEPT ![t] = [worker |-> w, entry |-> n, pc |-> "claimed"]]
  /\ UNCHANGED <<runs, worker, relay, mishaps>>

WorkerOnly == UNCHANGED <<runs, stream, relay, task>>

Sigterm(w) ==
  /\ worker[w] = "up" /\ relay[w].pc = "idle" /\ Mishap
  /\ worker' = [worker EXCEPT ![w] = "stopping"]
  /\ WorkerOnly

\* A Redis command of the loop fails: main goes to its finally.
MainFails(w) ==
  /\ worker[w] = "up" /\ relay[w].pc = "idle" /\ Mishap
  /\ worker' = [worker EXCEPT ![w] = "failing"]
  /\ WorkerOnly

\* main returns when its tasks are done.
Exit(w) ==
  /\ worker[w] \in {"stopping", "failing"} /\ TasksOf(w) = {}
  /\ worker' = [worker EXCEPT ![w] = "down"]
  /\ WorkerOnly /\ UNCHANGED mishaps

\* The process is killed: its transactions roll back, its entries stay pending.
Crash(w) ==
  /\ worker[w] # "down" /\ Mishap
  /\ worker' = [worker EXCEPT ![w] = "down"]
  /\ relay' = [relay EXCEPT ![w] = Idle]
  /\ task' = [t \in Tasks |-> IF t \in TasksOf(w) THEN None ELSE task[t]]
  /\ holder' = Orphaned(TasksOf(w))
  /\ UNCHANGED <<status, enqueued, job, stream>>

Restart(w) ==
  /\ worker[w] = "down"
  /\ worker' = [worker EXCEPT ![w] = "up"]
  /\ WorkerOnly /\ UNCHANGED mishaps

-----------------------------------------------------------------------------
(* run_claim and execute_run                                                *)

TaskUnchanged == UNCHANGED <<enqueued, worker, relay>>
At(t, l) == task[t] # None /\ task[t].pc = l

\* Before and while it waits for its pacing slot a task gives up on a shutdown.
Begin(t) ==
  /\ At(t, "claimed")
  /\ Go(t, IF worker[task[t].worker] = "stopping" THEN "ack" ELSE "execute")
  /\ TaskUnchanged /\ UNCHANGED <<status, job, holder, stream, mishaps>>

Execute(t) ==
  /\ At(t, "execute")
  /\ Go(t, IF status[Bot(t)] = "queued" THEN "admit" ELSE "ack")
  /\ TaskUnchanged /\ UNCHANGED <<status, job, holder, stream, mishaps>>

\* reserve_capacity: a place for the run, or none within ADMIT_WAIT_S.  That is longer
\* than the sweep takes to free the reservation of a task that has died.
Admit(t) ==
  /\ At(t, "admit")
  /\ \/ /\ holder[Bot(t)] = None
        /\ holder' = [holder EXCEPT ![Bot(t)] = t]
        /\ Go(t, "spawn")
     \/ holder[Bot(t)] # Gone /\ Go(t, "refused") /\ UNCHANGED holder
  /\ TaskUnchanged /\ UNCHANGED <<status, job, stream, mishaps>>

\* Fault: a run that found no place is left as it is.
RefusedAcks(t) ==
  /\ At(t, "refused")
  /\ Go(t, "ack")
  /\ TaskUnchanged /\ UNCHANGED <<status, job, holder, stream, mishaps>>

\* Another task of the run has the reservation, or the run fails.
Refused(t) ==
  /\ At(t, "refused")
  /\ Go(t, IF holder[Bot(t)] = None THEN "fail" ELSE "ack")
  /\ TaskUnchanged /\ UNCHANGED <<status, job, holder, stream, mishaps>>

\* spawn adopts the run's Job or creates it; or the profile lease is taken.
Spawn(t) ==
  /\ At(t, "spawn")
  /\ \/ job' = [job EXCEPT ![Bot(t)] = IF @ = None THEN "pod" ELSE @] /\ Go(t, "watch")
     \/ Go(t, "busy") /\ UNCHANGED job
  /\ TaskUnchanged /\ UNCHANGED <<status, holder, stream, mishaps>>

\* spawn returns once the run is final, and raises if the Job has failed.
Watch(t) ==
  /\ At(t, "watch")
  /\ \/ status[Bot(t)] = "final" /\ Go(t, "release")
     \/ status[Bot(t)] # "final" /\ job[Bot(t)] = "failed" /\ Go(t, "raising")
  /\ TaskUnchanged /\ UNCHANGED <<status, job, holder, stream, mishaps>>

\* release_capacity releases the run's reservation, whoever has it.
Release(t) ==
  /\ \/ At(t, "release") /\ Go(t, "ack")
     \/ At(t, "raising") /\ Go(t, "fail")
  /\ holder' = [holder EXCEPT ![Bot(t)] = None]
  /\ TaskUnchanged /\ UNCHANGED <<status, job, stream, mishaps>>

\* fail_run, in execute_run or for what execute_run raised.
FailRun(t) ==
  /\ \/ At(t, "busy") /\ Go(t, "release")
     \/ At(t, "fail") /\ Go(t, "ack")
  /\ Bot(t) \notin Locked
  /\ status' = [status EXCEPT ![Bot(t)] = "final"]
  /\ TaskUnchanged /\ UNCHANGED <<job, holder, stream, mishaps>>

\* ack_run
Ack(t) ==
  /\ At(t, "ack")
  /\ stream' = [stream EXCEPT ![task[t].entry] = [@ EXCEPT !.state = "acked", !.idle = FALSE]]
  /\ task' = [task EXCEPT ![t] = None]
  /\ TaskUnchanged /\ UNCHANGED <<status, job, holder, mishaps>>

\* A database or Redis command fails: run_claim fails the run, and if fail_run fails
\* too it acknowledges the entry all the same.
TaskRaises(t) ==
  /\ task[t] # None /\ Mishap
  /\ \/ /\ task[t].pc \in {"claimed", "execute", "admit", "refused"}
        /\ Go(t, "fail") /\ UNCHANGED holder
     \/ task[t].pc \in {"spawn", "busy"} /\ Go(t, "raising") /\ UNCHANGED holder
     \/ task[t].pc \in {"release", "raising"} /\ Go(t, "fail") /\ holder' = Orphaned({t})
     \/ task[t].pc = "fail" /\ Go(t, "ack") /\ UNCHANGED holder
  /\ TaskUnchanged /\ UNCHANGED <<status, job, stream>>

\* 120 s after the loop has ended the task is cancelled wherever it is.  It runs its
\* finally blocks if there is still time.
CancelTask(t) ==
  /\ task[t] # None /\ worker[task[t].worker] \in {"stopping", "failing"}
  /\ \/ task[t].pc \in {"spawn", "watch", "busy"} /\ Go(t, "release") /\ UNCHANGED holder
     \/ task[t].pc \notin {"spawn", "watch", "busy"} /\ Go(t, "ack") /\ UNCHANGED holder
     \/ task' = [task EXCEPT ![t] = None] /\ holder' = Orphaned({t})
  /\ TaskUnchanged /\ UNCHANGED <<status, job, stream, mishaps>>

-----------------------------------------------------------------------------
(* The pod, the sweep of reservations and the clock                         *)

Others == UNCHANGED <<enqueued, stream, worker, relay, task>>

RunStarts(b) ==
  /\ job[b] = "pod" /\ status[b] = "queued"
  /\ status' = [status EXCEPT ![b] = "live"]
  /\ Others /\ UNCHANGED <<job, holder, mishaps>>

RunEnds(b) ==
  /\ status[b] = "live"
  /\ status' = [status EXCEPT ![b] = "final"]
  /\ Others /\ UNCHANGED <<job, holder, mishaps>>

PodFails(b) ==
  /\ job[b] = "pod" /\ status[b] = "queued" /\ Mishap
  /\ job' = [job EXCEPT ![b] = "failed"]
  /\ Others /\ UNCHANGED <<status, holder>>

\* sweep_capacity: the run is over, or queued for RESERVATION_STALE_S.
SweepReservation(b) ==
  /\ holder[b] # None /\ status[b] \in {"final", "queued"}
  /\ holder' = [holder EXCEPT ![b] = None]
  /\ Others /\ UNCHANGED <<status, job, mishaps>>

\* An entry has been pending for ORPHAN_IDLE_MS.
GetsIdle(n) ==
  /\ stream[n].state = "pending" /\ ~stream[n].idle
  /\ stream' = [stream EXCEPT ![n] = [@ EXCEPT !.idle = TRUE]]
  /\ UNCHANGED <<runs, worker, relay, task, mishaps>>

-----------------------------------------------------------------------------

Attended(n) == \E t \in Tasks : task[t] # None /\ task[t].entry = n
Relays(w) == RelaySelect(w) \/ RelayCommit(w) \/ \E b \in Bots : RelayAdd(w, b)
RelayFaults(w) == RelayRollsBack(w) \/ \E b \in Bots : RelayFails(w, b) \/ RelayUnheard(w, b)

TaskStep(t) ==
  \/ Begin(t) \/ Execute(t) \/ Admit(t) \/ Refused(t) \/ FailRun(t) \/ Spawn(t)
  \/ Watch(t) \/ Release(t) \/ Ack(t)

Next ==
  \/ \E b \in Bots : \/ Create(b) \/ Cancel(b) \/ RunStarts(b) \/ RunEnds(b) \/ PodFails(b)
                     \/ SweepReservation(b)
  \/ \E w \in Workers : \/ Relays(w) \/ RelayFaults(w) \/ Sigterm(w) \/ MainFails(w) \/ Exit(w)
                        \/ Crash(w) \/ Restart(w)
                        \/ \E t \in Tasks : Claim(w, t)
  \/ \E t \in Tasks : TaskStep(t) \/ TaskRaises(t) \/ CancelTask(t)
  \/ \E n \in DOMAIN stream : GetsIdle(n)

Spec == Init /\ [][Next]_vars

\* Workers are restarted, relay every 2 s, poll the stream and run their tasks; a pod
\* starts; entries get old.
Fairness ==
  /\ \A w \in Workers : /\ WF_vars(Relays(w)) /\ WF_vars(\E t \in Tasks : Claim(w, t))
                        /\ WF_vars(Exit(w)) /\ WF_vars(Restart(w))
  /\ \A t \in Tasks : WF_vars(TaskStep(t))
  /\ \A b \in Bots : /\ WF_vars(RunStarts(b)) /\ WF_vars(RunEnds(b))
                     /\ WF_vars(holder[b] = Gone /\ SweepReservation(b))
  /\ WF_vars(\E n \in DOMAIN stream : GetsIdle(n) /\ ~Attended(n))

FairSpec == Spec /\ Fairness

\* The days on which nothing is lost: a worker is stopped, or loses Redis, when the runs
\* of its tasks have left the queue; fail_run does not fail; and a run leaves the queue
\* before its entry has been pending for ORPHAN_IDLE_MS.
Calm ==
  /\ \A w \in Workers : worker[w] = "up" /\ worker'[w] \in {"stopping", "failing"} =>
       \A t \in TasksOf(w) : status[Bot(t)] # "queued"
  /\ \A t \in Tasks : At(t, "fail") /\ task'[t] # None /\ task'[t].pc = "ack" =>
       status'[Bot(t)] = "final"
  /\ \A n \in DOMAIN stream : stream'[n].idle /\ ~stream[n].idle /\ Attended(n) =>
       status[stream[n].bot] # "queued"

CalmSpec == Init /\ [][Next /\ Calm]_vars

-----------------------------------------------------------------------------

\* Workers that relay at the same time add a run once: however their relays interleave,
\* there are at most as many entries more as there were mishaps (a relay killed between an
\* XADD and its commit, a commit that failed, an XADD whose answer was lost).
AddedOnce ==
  \A b \in Bots : Cardinality({n \in DOMAIN stream : stream[n].bot = b}) <= 1 + mishaps

\* A queued run is on its way: the relay will find it, an entry is to be claimed or to be
\* claimed again, a pod has been started, or a task will fail it.
OnItsWay ==
  \A b \in Bots : status[b] = "queued" =>
    \/ b \notin enqueued
    \/ job[b] = "pod"
    \/ \E n \in DOMAIN stream : stream[n].bot = b /\ stream[n].state # "acked"

\* "claim queued runs, run lifecycle, release on shutdown" (PLAN.md): a run that was
\* created does not stay queued.
QueuedRunsLeave == \A b \in Bots : status[b] = "queued" ~> status[b] # "queued"
=============================================================================
