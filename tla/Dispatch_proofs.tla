-------------------------- MODULE Dispatch_proofs --------------------------
(***************************************************************************)
(* Theorems about Dispatch, with their proofs: its type invariant, that    *)
(* relays add a run once but for the mishaps (AddedOnce), and that on calm *)
(* days no queued run is forgotten (OnItsWay).  The lemmas sort the steps  *)
(* by who takes them: a task, a relay, a worker's loop, or the world       *)
(* around them.                                                            *)
(***************************************************************************)
EXTENDS Dispatch, LibraryLemmas

\* What a task knows.
Records == [worker : Workers, entry : 1..Len(stream), pc : TaskPcs]

\* Writing over one entry changes that entry.
LEMMA WrittenEntry ==
  ASSUME stream \in Seq(Entries), NEW n \in 1..Len(stream), NEW x \in Entries,
         stream' = [stream EXCEPT ![n] = x]
  PROVE  /\ stream' \in Seq(Entries) /\ Len(stream') = Len(stream) /\ stream'[n] = x
         /\ \A m \in 1..Len(stream) : m # n => stream'[m] = stream[m]
         /\ DOMAIN stream' = 1..Len(stream) /\ DOMAIN stream = 1..Len(stream)
BY ExceptSeq, LenProperties

\* Marking an entry changes its state and its age only.
LEMMA MarkedEntry ==
  ASSUME stream \in Seq(Entries), NEW n \in 1..Len(stream),
         NEW s \in {"new", "pending", "acked"}, NEW i \in BOOLEAN,
         stream' = [stream EXCEPT ![n] = [@ EXCEPT !.state = s, !.idle = i]]
  PROVE  /\ stream' \in Seq(Entries) /\ Len(stream') = Len(stream)
         /\ stream'[n].bot = stream[n].bot /\ stream'[n].state = s /\ stream'[n].idle = i
         /\ \A m \in 1..Len(stream) : m # n => stream'[m] = stream[m]
         /\ DOMAIN stream' = 1..Len(stream) /\ DOMAIN stream = 1..Len(stream)
<1> DEFINE x == [stream[n] EXCEPT !.state = s, !.idle = i]
<1>1. stream[n] \in Entries
  BY ElementOfSeq
<1>2. x \in Entries /\ x.bot = stream[n].bot /\ x.state = s /\ x.idle = i
  BY <1>1 DEF Entries
<1>3. stream' = [stream EXCEPT ![n] = x]
  OBVIOUS
<1> HIDE DEF x
<1> QED
  BY <1>2, <1>3, WrittenEntry

\* A record of a task is not None, so Go keeps a task a task.
LEMMA GoMoves ==
  ASSUME TypeOK, NEW t \in Tasks, task[t] # None, NEW l \in TaskPcs, Go(t, l)
  PROVE  /\ task' \in [Tasks -> Records \cup {None}]
         /\ task'[t] # None
         /\ task'[t].worker = task[t].worker /\ task'[t].entry = task[t].entry /\ task'[t].pc = l
         /\ \A u \in Tasks : u # t => task'[u] = task[u]
         /\ \A u \in Tasks : task'[u] # None <=> task[u] # None
<1> DEFINE r == [task[t] EXCEPT !.pc = l]
<1>1. task[t] \in Records
  BY DEF TypeOK, Records
<1>2. r \in Records /\ r.worker = task[t].worker /\ r.entry = task[t].entry /\ r.pc = l
  BY <1>1 DEF Records
<1>3. r # None
  <2>1. Records \subseteq [worker : Workers, entry : Nat, pc : TaskPcs]
    BY LenProperties DEF Records, TypeOK
  <2> QED
    BY <1>2, <2>1, DispatchConstants
<1>4. task' = [task EXCEPT ![t] = r]
  BY DEF Go
<1> HIDE DEF r
<1> QED
  BY <1>1, <1>2, <1>3, <1>4 DEF TypeOK, Records

\* A task's entry is in the stream, and its run is a run.
LEMMA TaskEntry ==
  ASSUME TypeOK, NEW t \in Tasks, task[t] # None
  PROVE  /\ task[t].entry \in 1..Len(stream) /\ task[t].entry \in DOMAIN stream
         /\ task[t].worker \in Workers /\ task[t].pc \in TaskPcs
         /\ stream[task[t].entry] \in Entries /\ Bot(t) \in Bots
         /\ stream[task[t].entry].state # "new"
<1>1. task[t] \in Records
  BY DEF TypeOK, Records
<1>2. stream \in Seq(Entries) /\ stream[task[t].entry].state # "new"
  BY DEF TypeOK
<1>3. task[t].entry \in 1..Len(stream) /\ task[t].worker \in Workers /\ task[t].pc \in TaskPcs
  BY <1>1 DEF Records
<1>4. stream[task[t].entry] \in Entries /\ task[t].entry \in DOMAIN stream
  BY <1>2, <1>3
<1> QED
  BY <1>2, <1>3, <1>4 DEF Bot, Entries

\* Nothing has been queued at first.
LEMMA InitType == Init => TypeOK
BY DispatchConstants DEF Init, TypeOK, Idle

\* The reservations stay those of tasks, of the dead, or nobody's.
LEMMA OrphanedType ==
  ASSUME TypeOK, NEW T, holder' = Orphaned(T)
  PROVE  holder' \in [Bots -> Tasks \cup {Gone, None}]
BY DEF TypeOK, Orphaned

\* The steps of a task keep the types.
LEMMA TaskStepType ==
  ASSUME TypeOK, NEW t \in Tasks, TaskStep(t) \/ TaskRaises(t) \/ CancelTask(t)
  PROVE  TypeOK'
<1>0. UNCHANGED <<enqueued, worker, relay>>
  BY DEF TaskStep, TaskRaises, CancelTask, TaskUnchanged, Begin, Execute, Admit, Refused, FailRun,
         Spawn, Watch, Release, Ack
<1>1. ASSUME task[t] # None, UNCHANGED stream, NEW l \in TaskPcs, Go(t, l),
             status' \in [Bots -> {"none", "queued", "live", "final"}],
             job' \in [Bots -> {None, "pod", "failed"}],
             holder' \in [Bots -> Tasks \cup {Gone, None}],
             mishaps' \in 0..MaxMishaps
      PROVE  TypeOK'
  <2>1. /\ task' \in [Tasks -> Records \cup {None}]
        /\ \A u \in Tasks : task'[u] # None => task[u] # None /\ task'[u].entry = task[u].entry
    BY <1>1, GoMoves
  <2> QED
    BY <1>0, <1>1, <2>1 DEF TypeOK, Records
<1>2. Mishap => mishaps' \in 0..MaxMishaps
  BY DispatchConstants DEF Mishap, TypeOK
<1>3. CASE Begin(t) \/ Execute(t)
  <2>1. task[t] # None /\ UNCHANGED <<stream, status, job, holder, mishaps>>
    BY <1>3 DEF Begin, Execute, At
  <2>2. \E l \in {"ack", "execute", "admit"} : Go(t, l)
    BY <1>3 DEF Begin, Execute
  <2> QED
    BY <1>1, <2>1, <2>2 DEF TypeOK, TaskPcs
<1>4. CASE Admit(t)
  <2>1. task[t] # None /\ UNCHANGED <<stream, status, job, mishaps>>
    BY <1>4 DEF Admit, At
  <2>2. \E l \in {"spawn", "refused"} : Go(t, l)
    BY <1>4 DEF Admit
  <2>3. holder' \in [Bots -> Tasks \cup {Gone, None}]
    BY <1>4 DEF Admit, TypeOK
  <2> QED
    BY <1>1, <2>1, <2>2, <2>3 DEF TypeOK, TaskPcs
<1>5. CASE Refused(t)
  <2>1. task[t] # None /\ UNCHANGED <<stream, status, job, holder, mishaps>>
    BY <1>5 DEF Refused, At
  <2>2. \E l \in {"fail", "ack"} : Go(t, l)
    BY <1>5 DEF Refused
  <2> QED
    BY <1>1, <2>1, <2>2 DEF TypeOK, TaskPcs
<1>6. CASE FailRun(t)
  <2>1. task[t] # None /\ UNCHANGED <<stream, job, holder, mishaps>>
    BY <1>6 DEF FailRun, At
  <2>2. \E l \in {"release", "ack"} : Go(t, l)
    BY <1>6 DEF FailRun
  <2>3. status' \in [Bots -> {"none", "queued", "live", "final"}]
    BY <1>6 DEF FailRun, TypeOK
  <2> QED
    BY <1>1, <2>1, <2>2, <2>3 DEF TypeOK, TaskPcs
<1>7. CASE Spawn(t)
  <2>1. task[t] # None /\ UNCHANGED <<stream, status, holder, mishaps>>
    BY <1>7 DEF Spawn, At
  <2>2. \E l \in {"watch", "busy"} : Go(t, l)
    BY <1>7 DEF Spawn
  <2>3. job' \in [Bots -> {None, "pod", "failed"}]
    BY <1>7 DEF Spawn, TypeOK
  <2> QED
    BY <1>1, <2>1, <2>2, <2>3 DEF TypeOK, TaskPcs
<1>8. CASE Watch(t)
  <2>1. task[t] # None /\ UNCHANGED <<stream, status, job, holder, mishaps>>
    BY <1>8 DEF Watch, At
  <2>2. \E l \in {"release", "raising"} : Go(t, l)
    BY <1>8 DEF Watch
  <2> QED
    BY <1>1, <2>1, <2>2 DEF TypeOK, TaskPcs
<1>9. CASE Release(t)
  <2>1. task[t] # None /\ UNCHANGED <<stream, status, job, mishaps>>
    BY <1>9 DEF Release, At
  <2>2. \E l \in {"fail", "ack"} : Go(t, l)
    BY <1>9 DEF Release
  <2>3. holder' \in [Bots -> Tasks \cup {Gone, None}]
    BY <1>9 DEF Release, TypeOK
  <2> QED
    BY <1>1, <2>1, <2>2, <2>3 DEF TypeOK, TaskPcs
<1>10. CASE Ack(t)
  <2>1. /\ task[t] # None /\ UNCHANGED <<status, job, holder, mishaps>>
        /\ task' = [task EXCEPT ![t] = None]
        /\ stream' = [stream EXCEPT ![task[t].entry] = [@ EXCEPT !.state = "acked", !.idle = FALSE]]
    BY <1>10 DEF Ack, At
  <2>2. /\ stream' \in Seq(Entries) /\ Len(stream') = Len(stream)
        /\ stream'[task[t].entry].state = "acked"
        /\ \A m \in 1..Len(stream) : m # task[t].entry => stream'[m] = stream[m]
    BY <2>1, TaskEntry, MarkedEntry DEF TypeOK
  <2>3. task' \in [Tasks -> Records \cup {None}]
    BY <2>1 DEF TypeOK, Records
  <2>4. \A u \in Tasks : task'[u] # None => stream'[task'[u].entry].state # "new"
    BY <2>1, <2>2, TaskEntry DEF TypeOK
  <2> QED
    BY <1>0, <2>1, <2>2, <2>3, <2>4 DEF TypeOK, Records
<1>11. CASE TaskRaises(t)
  <2>1. task[t] # None /\ UNCHANGED <<stream, status, job>> /\ Mishap
    BY <1>11 DEF TaskRaises
  <2>2. \E l \in {"fail", "raising", "ack"} : Go(t, l)
    BY <1>11 DEF TaskRaises
  <2>3. holder' \in [Bots -> Tasks \cup {Gone, None}]
    BY <1>11, OrphanedType DEF TaskRaises, TypeOK
  <2> QED
    BY <1>1, <1>2, <2>1, <2>2, <2>3 DEF TypeOK, TaskPcs
<1>12. CASE CancelTask(t)
  <2>1. task[t] # None /\ UNCHANGED <<stream, status, job, mishaps>>
    BY <1>12 DEF CancelTask
  <2>2. holder' \in [Bots -> Tasks \cup {Gone, None}]
    BY <1>12, OrphanedType DEF CancelTask, TypeOK
  <2>3. CASE Go(t, "release") \/ Go(t, "ack")
    BY <1>1, <2>1, <2>2, <2>3 DEF TypeOK, TaskPcs
  <2>4. CASE task' = [task EXCEPT ![t] = None]
    BY <1>0, <2>1, <2>2, <2>4 DEF TypeOK
  <2> QED
    BY <1>12, <2>3, <2>4 DEF CancelTask
<1> QED
  BY <1>3, <1>4, <1>5, <1>6, <1>7, <1>8, <1>9, <1>10, <1>11, <1>12 DEF TaskStep

\* What a worker may claim is an entry that is new, or pending for long.
LEMMA ClaimableEntry ==
  ASSUME TypeOK, NEW n \in Claimable
  PROVE  /\ n \in 1..Len(stream)
         /\ stream[n].state = "new" \/ (stream[n].state = "pending" /\ stream[n].idle)
<1> DEFINE stale == {m \in InState("pending") : stream[m].idle}
<1>1. DOMAIN stream = 1..Len(stream) /\ Len(stream) \in Nat
  BY LenProperties DEF TypeOK
<1>2. IsFiniteSet(1..Len(stream)) /\ 1..Len(stream) \subseteq Int
  BY <1>1, FS_Interval
<1>3. stale \in SUBSET (1..Len(stream)) /\ InState("new") \in SUBSET (1..Len(stream))
  BY <1>1 DEF InState
<1>4. /\ IsFiniteSet(stale) /\ IsFiniteSet(InState("new"))
      /\ stale \in SUBSET Int /\ InState("new") \in SUBSET Int
  BY <1>2, <1>3, FS_Subset
<1>5. CASE stale # {}
  <2>1. n = Min(stale)
    BY <1>5 DEF Claimable
  <2> HIDE DEF stale
  <2>2. n \in stale
    BY <1>4, <1>5, <2>1, MinOfFinite
  <2> QED
    BY <1>3, <2>2 DEF stale, InState
<1>6. CASE stale = {}
  <2>1. n = Min(InState("new")) /\ InState("new") # {}
    BY <1>6 DEF Claimable
  <2>2. n \in InState("new")
    BY <1>4, <2>1, MinOfFinite
  <2> QED
    BY <1>3, <2>2 DEF InState
<1> QED
  BY <1>5, <1>6

\* A claim gives a task an entry that is pending from now on.
Claims(w, t, n) ==
  /\ task[t] = None
  /\ stream[n].state = "new" \/ (stream[n].state = "pending" /\ stream[n].idle)
  /\ stream' = [stream EXCEPT ![n] = [@ EXCEPT !.state = "pending", !.idle = FALSE]]
  /\ task' = [task EXCEPT ![t] = [worker |-> w, entry |-> n, pc |-> "claimed"]]
  /\ task'[t] # None

\* Claim does that to some entry of the stream.
LEMMA ClaimEffect ==
  ASSUME TypeOK, NEW w \in Workers, NEW t \in Tasks, Claim(w, t)
  PROVE  \E n \in 1..Len(stream) : Claims(w, t, n)
<1>1. PICK n \in Claimable :
        /\ stream' = [stream EXCEPT ![n] = [@ EXCEPT !.state = "pending", !.idle = FALSE]]
        /\ task' = [task EXCEPT ![t] = [worker |-> w, entry |-> n, pc |-> "claimed"]]
  BY DEF Claim
<1>2. n \in 1..Len(stream) /\ task[t] = None
  BY ClaimableEntry DEF Claim, Free
<1>3. [worker |-> w, entry |-> n, pc |-> "claimed"] \in [worker : Workers, entry : Nat, pc : TaskPcs]
  BY <1>2, LenProperties DEF TypeOK, TaskPcs
<1>4. task'[t] # None
  BY <1>1, <1>3, DispatchConstants DEF TypeOK
<1> QED
  BY <1>1, <1>2, <1>4, ClaimableEntry DEF Claims

\* What a relay that has tried to add a run has left in its hands.
LEMMA RelayMoves ==
  ASSUME TypeOK, NEW w \in Workers, NEW b \in Bots,
         RelayAdd(w, b) \/ RelayFails(w, b) \/ RelayUnheard(w, b)
  PROVE  /\ relay' \in [Workers -> [pc : {"idle", "adding"}, todo : SUBSET Bots, added : SUBSET Bots]]
         /\ \A v \in Workers : v # w => relay'[v] = relay[v]
         /\ relay'[w].todo = relay[w].todo \ {b}
         /\ relay'[w].pc # relay[w].pc => relay'[w].pc = "adding"
         /\ RelayAdd(w, b) => relay'[w].added = relay[w].added \cup {b}
         /\ ~RelayAdd(w, b) => relay'[w].added = relay[w].added
<1> DEFINE R == [pc : {"idle", "adding"}, todo : SUBSET Bots, added : SUBSET Bots]
<1>1. relay \in [Workers -> R] /\ relay[w] \in R
  BY DEF TypeOK
<1>2. ASSUME NEW r \in R, relay' = [relay EXCEPT ![w] = r]
      PROVE  relay' \in [Workers -> R] /\ relay'[w] = r /\ \A v \in Workers : v # w => relay'[v] = relay[v]
  BY <1>1, <1>2
<1>3. CASE RelayAdd(w, b)
  <2> DEFINE r == [pc |-> "adding", todo |-> relay[w].todo \ {b}, added |-> relay[w].added \cup {b}]
  <2>1. /\ r \in R /\ r.pc = "adding" /\ r.todo = relay[w].todo \ {b}
        /\ r.added = relay[w].added \cup {b}
    BY <1>1
  <2>2. relay' = [relay EXCEPT ![w] = r]
    BY <1>3 DEF RelayAdd
  <2> HIDE DEF r
  <2> QED
    BY <1>2, <1>3, <2>1, <2>2
<1>4. CASE ~RelayAdd(w, b)
  <2> DEFINE r == [relay[w] EXCEPT !.todo = @ \ {b}]
  <2>1. /\ r \in R /\ r.todo = relay[w].todo \ {b} /\ r.pc = relay[w].pc
        /\ r.added = relay[w].added
    BY <1>1
  <2>2. relay' = [relay EXCEPT ![w] = r]
    BY <1>4 DEF RelayFails, RelayUnheard
  <2> HIDE DEF r
  <2> QED
    BY <1>2, <1>4, <2>1, <2>2
<1> QED
  BY <1>3, <1>4

\* The steps of the relay keep the types.
LEMMA RelayType ==
  ASSUME TypeOK, NEW w \in Workers, Relays(w) \/ RelayFaults(w)
  PROVE  TypeOK'
<1>0. UNCHANGED <<status, job, holder, worker, task>>
  BY DEF Relays, RelaySelect, RelayCommit, RelayAdd, RelayFaults, RelayFails, RelayUnheard,
         RelayRollsBack, RelayUnchanged
<1>1. CASE RelaySelect(w)
  <2>1. Relayable \subseteq Bots
    BY DEF Relayable
  <2> QED
    BY <1>0, <1>1, <2>1 DEF RelaySelect, TypeOK
<1>2. CASE RelayCommit(w)
  BY <1>0, <1>2 DEF RelayCommit, Idle, TypeOK
<1>3. ASSUME NEW b \in Bots, RelayAdd(w, b) \/ RelayUnheard(w, b)
      PROVE  TypeOK'
  <2> DEFINE x == [bot |-> b, state |-> "new", idle |-> FALSE]
  <2>1. x \in Entries
    BY DEF Entries
  <2>2. stream' = Append(stream, x) /\ UNCHANGED enqueued
    BY <1>3 DEF RelayAdd, RelayUnheard
  <2> HIDE DEF x
  <2>3. /\ stream' \in Seq(Entries) /\ Len(stream') = Len(stream) + 1 /\ Len(stream) \in Nat
        /\ \A n \in 1..Len(stream) : stream'[n] = stream[n]
    BY <2>1, <2>2 DEF TypeOK
  <2>4. relay' \in [Workers -> [pc : {"idle", "adding"}, todo : SUBSET Bots, added : SUBSET Bots]]
    BY <1>3, RelayMoves
  <2>5. 1..Len(stream) \subseteq 1..Len(stream')
    BY <2>3
  <2>6. task' \in [Tasks -> [worker : Workers, entry : 1..Len(stream'), pc : TaskPcs] \cup {None}]
    BY <1>0, <2>5 DEF TypeOK
  <2>7. \A t \in Tasks : task'[t] # None => stream'[task'[t].entry].state # "new"
    BY <1>0, <2>3, TaskEntry
  <2>8. mishaps' \in 0..MaxMishaps
    BY <1>3, DispatchConstants DEF RelayAdd, RelayUnheard, Mishap, TypeOK
  <2> QED
    BY <1>0, <2>2, <2>3, <2>4, <2>6, <2>7, <2>8 DEF TypeOK
<1>4. ASSUME NEW b \in Bots, RelayFails(w, b)
      PROVE  TypeOK'
  <2>1. relay' \in [Workers -> [pc : {"idle", "adding"}, todo : SUBSET Bots, added : SUBSET Bots]]
    BY <1>4, RelayMoves
  <2>2. UNCHANGED <<enqueued, stream>> /\ mishaps' \in 0..MaxMishaps
    BY <1>4, DispatchConstants DEF RelayFails, Mishap, TypeOK
  <2> QED
    BY <1>0, <2>1, <2>2 DEF TypeOK
<1>5. CASE RelayRollsBack(w)
  <2>1. mishaps' \in 0..MaxMishaps
    BY <1>5, DispatchConstants DEF RelayRollsBack, Mishap, TypeOK
  <2> QED
    BY <1>0, <1>5, <2>1 DEF RelayRollsBack, Idle, TypeOK
<1> QED
  BY <1>1, <1>2, <1>3, <1>4, <1>5 DEF Relays, RelayFaults

\* The steps of a worker's loop.
WorkerStep(w) == \/ Sigterm(w) \/ MainFails(w) \/ Exit(w) \/ Crash(w) \/ Restart(w)
                 \/ \E t \in Tasks : Claim(w, t)

\* The steps of a worker's loop keep the types.
LEMMA WorkerType ==
  ASSUME TypeOK, NEW w \in Workers, WorkerStep(w)
  PROVE  TypeOK'
<1> USE DispatchConstants
<1>1. CASE Sigterm(w) \/ MainFails(w) \/ Exit(w) \/ Restart(w)
  <2>1. UNCHANGED <<status, enqueued, job, holder, stream, relay, task>>
    BY <1>1 DEF Sigterm, MainFails, Exit, Restart, WorkerOnly, runs
  <2>2. worker' \in [Workers -> {"up", "stopping", "failing", "down"}] /\ mishaps' \in 0..MaxMishaps
    BY <1>1 DEF Sigterm, MainFails, Exit, Restart, Mishap, TypeOK
  <2> QED
    BY <2>1, <2>2 DEF TypeOK
<1>2. CASE Crash(w)
  <2>1. task' \in [Tasks -> Records \cup {None}]
        /\ \A u \in Tasks : task'[u] # None => task'[u] = task[u]
    BY <1>2 DEF Crash, TypeOK, Records
  <2>2. holder' \in [Bots -> Tasks \cup {Gone, None}]
    BY <1>2, OrphanedType DEF Crash
  <2> QED
    BY <1>2, <2>1, <2>2 DEF Crash, Mishap, TypeOK, Records, Idle
<1>3. ASSUME NEW t \in Tasks, Claim(w, t)
      PROVE  TypeOK'
  <2>0. PICK n \in 1..Len(stream) : Claims(w, t, n)
    BY <1>3, ClaimEffect
  <2>1. /\ stream' = [stream EXCEPT ![n] = [@ EXCEPT !.state = "pending", !.idle = FALSE]]
        /\ task' = [task EXCEPT ![t] = [worker |-> w, entry |-> n, pc |-> "claimed"]]
    BY <2>0 DEF Claims
  <2>2. /\ stream' \in Seq(Entries) /\ Len(stream') = Len(stream)
        /\ stream'[n].state = "pending"
        /\ \A m \in 1..Len(stream) : m # n => stream'[m] = stream[m]
    BY <2>1, MarkedEntry DEF TypeOK
  <2>3. [worker |-> w, entry |-> n, pc |-> "claimed"] \in Records
    BY DEF Records, TaskPcs
  <2>4. task' \in [Tasks -> Records \cup {None}]
    BY <2>1, <2>3 DEF TypeOK, Records
  <2>5. \A u \in Tasks : task'[u] # None => stream'[task'[u].entry].state # "new"
    <3> SUFFICES ASSUME NEW u \in Tasks, task'[u] # None
                 PROVE  stream'[task'[u].entry].state # "new"
      OBVIOUS
    <3>1. CASE u = t
      BY <2>1, <2>2, <3>1 DEF TypeOK
    <3>2. CASE u # t
      <4>1. task'[u] = task[u] /\ task[u] # None
        BY <2>1, <3>2 DEF TypeOK
      <4>2. task[u].entry \in 1..Len(stream) /\ stream[task[u].entry].state # "new"
        BY <4>1, TaskEntry
      <4> QED
        BY <2>2, <4>1, <4>2
    <3> QED
      BY <3>1, <3>2
  <2> QED
    BY <1>3, <2>2, <2>4, <2>5 DEF Claim, runs, TypeOK, Records
<1> QED
  BY <1>1, <1>2, <1>3 DEF WorkerStep

\* The steps of the API, the pods, the sweep of reservations and the clock.
WorldStep == \/ \E b \in Bots : \/ Create(b) \/ Cancel(b) \/ RunStarts(b) \/ RunEnds(b) \/ PodFails(b)
                                \/ SweepReservation(b)
             \/ \E n \in DOMAIN stream : GetsIdle(n)

\* The steps of the API, the pods, the sweep and the clock keep the types.
LEMMA WorldType ==
  ASSUME TypeOK, WorldStep
  PROVE  TypeOK'
<1> USE DispatchConstants
<1>1. ASSUME NEW b \in Bots,
             \/ Create(b) \/ Cancel(b) \/ RunStarts(b) \/ RunEnds(b) \/ PodFails(b)
             \/ SweepReservation(b)
      PROVE  TypeOK'
  <2>1. UNCHANGED <<enqueued, stream, worker, relay, task>>
    BY <1>1 DEF Create, Cancel, RunStarts, RunEnds, PodFails, SweepReservation, Others
  <2>2. /\ status' \in [Bots -> {"none", "queued", "live", "final"}]
        /\ job' \in [Bots -> {None, "pod", "failed"}]
        /\ holder' \in [Bots -> Tasks \cup {Gone, None}]
        /\ mishaps' \in 0..MaxMishaps
    BY <1>1 DEF Create, Cancel, RunStarts, RunEnds, PodFails, SweepReservation, Mishap, TypeOK
  <2> QED
    BY <2>1, <2>2 DEF TypeOK
<1>2. ASSUME NEW n \in DOMAIN stream, GetsIdle(n)
      PROVE  TypeOK'
  <2>1. n \in 1..Len(stream) /\ stream[n] \in Entries
    BY LenProperties, ElementOfSeq DEF TypeOK
  <2>2. [stream[n] EXCEPT !.idle = TRUE] \in Entries
        /\ [stream[n] EXCEPT !.idle = TRUE].state = stream[n].state
    BY <2>1 DEF Entries
  <2>3. stream' = [stream EXCEPT ![n] = [stream[n] EXCEPT !.idle = TRUE]]
    BY <1>2 DEF GetsIdle
  <2>4. /\ stream' \in Seq(Entries) /\ Len(stream') = Len(stream)
        /\ \A m \in 1..Len(stream) : stream'[m].state = stream[m].state
    BY <2>1, <2>2, <2>3, WrittenEntry DEF TypeOK
  <2>5. \A u \in Tasks : task[u] # None => stream'[task[u].entry].state # "new"
    BY <2>4, TaskEntry
  <2> QED
    BY <1>2, <2>4, <2>5 DEF GetsIdle, runs, TypeOK
<1> QED
  BY <1>1, <1>2 DEF WorldStep

\* Next, sorted by who takes the step.
LEMMA NextSorted ==
  Next => \/ \E t \in Tasks : TaskStep(t) \/ TaskRaises(t) \/ CancelTask(t)
          \/ \E w \in Workers : \/ Relays(w) \/ RelayFaults(w)
                                \/ WorkerStep(w)
          \/ WorldStep
BY DEF Next, WorkerStep, WorldStep

\* Every step keeps the types.
LEMMA NextType == TypeOK /\ [Next]_vars => TypeOK'
<1> SUFFICES ASSUME TypeOK, [Next]_vars PROVE TypeOK'
  OBVIOUS
<1>1. CASE UNCHANGED vars
  BY <1>1 DEF vars, runs, TypeOK
<1> QED
  BY <1>1, NextSorted, TaskStepType, RelayType, WorkerType, WorldType

\* The variables keep their types: a task's entry is in the stream and is not new.
THEOREM TypeCorrect == Spec => []TypeOK
BY InitType, NextType, PTL DEF Spec

-----------------------------------------------------------------------------
(* AddedOnce.  A relay that runs to its commit adds a run once and marks   *)
(* it: what is owed is counted before the XADD, between the XADD and the   *)
(* commit, and after it.                                                   *)

\* The rows that a relay's transaction has locked.
Hands(w) == relay[w].todo \cup relay[w].added

\* Relays hold rows that are not enqueued, and no two hold the same row.
RelayExclusive ==
  /\ \A w \in Workers : relay[w].todo \cap relay[w].added = {} /\ Hands(w) \cap enqueued = {}
  /\ \A w \in Workers : relay[w].pc = "idle" => Hands(w) = {}
  /\ \A v, w \in Workers : v # w => Hands(v) \cap Hands(w) = {}

EntriesOf(b) == {n \in DOMAIN stream : stream[n].bot = b}

\* A row that is neither enqueued nor added by a relay now has only entries of relays that
\* met a mishap.
AddsCounted ==
  \A b \in Bots : b \notin enqueued /\ (\A w \in Workers : b \notin relay[w].added)
                    => Cardinality(EntriesOf(b)) <= mishaps

AInv == TypeOK /\ RelayExclusive /\ AddsCounted /\ AddedOnce

\* The stream keeps its entries' runs.
SameBots == /\ Len(stream') = Len(stream)
            /\ \A n \in 1..Len(stream) : stream'[n].bot = stream[n].bot

\* A stream is a finite sequence, and its entries of a run are finitely many.
LEMMA EntriesFinite ==
  ASSUME TypeOK, NEW b \in Bots
  PROVE  /\ DOMAIN stream = 1..Len(stream) /\ Len(stream) \in Nat
         /\ EntriesOf(b) \subseteq 1..Len(stream)
         /\ IsFiniteSet(EntriesOf(b)) /\ Cardinality(EntriesOf(b)) \in Nat
<1>1. DOMAIN stream = 1..Len(stream) /\ Len(stream) \in Nat
  BY LenProperties DEF TypeOK
<1>2. IsFiniteSet(1..Len(stream))
  BY <1>1, FS_Interval
<1>3. EntriesOf(b) \subseteq 1..Len(stream)
  BY <1>1 DEF EntriesOf
<1> QED
  BY <1>1, <1>2, <1>3, FS_Subset, FS_CardinalityType

\* Only the relay adds to the stream: what tasks do leaves the runs of the entries.
LEMMA TaskKeepsBots ==
  ASSUME TypeOK, NEW t \in Tasks, TaskStep(t) \/ TaskRaises(t) \/ CancelTask(t)
  PROVE  SameBots /\ UNCHANGED <<enqueued, relay>> /\ mishaps' \in {mishaps, mishaps + 1}
<1>1. CASE Ack(t)
  <2>1. /\ task[t] # None /\ UNCHANGED <<enqueued, relay, mishaps>>
        /\ stream' = [stream EXCEPT ![task[t].entry] = [@ EXCEPT !.state = "acked", !.idle = FALSE]]
    BY <1>1 DEF Ack, At, TaskUnchanged
  <2>2. /\ Len(stream') = Len(stream)
        /\ stream'[task[t].entry].bot = stream[task[t].entry].bot
        /\ \A m \in 1..Len(stream) : m # task[t].entry => stream'[m] = stream[m]
    BY <2>1, TaskEntry, MarkedEntry DEF TypeOK
  <2> QED
    BY <2>1, <2>2 DEF SameBots
<1>2. CASE ~Ack(t)
  <2>1. UNCHANGED <<stream, enqueued, relay>> /\ mishaps' \in {mishaps, mishaps + 1}
    BY <1>2 DEF TaskStep, TaskRaises, CancelTask, TaskUnchanged, Begin, Execute, Admit, Refused,
                FailRun, Spawn, Watch, Release, Mishap
  <2> QED
    BY <2>1 DEF SameBots
<1> QED
  BY <1>1, <1>2

\* .. and so does what a worker's loop does, ..
LEMMA WorkerKeepsBots ==
  ASSUME TypeOK, NEW w \in Workers, WorkerStep(w)
  PROVE  /\ SameBots /\ UNCHANGED enqueued /\ mishaps' \in {mishaps, mishaps + 1}
         /\ ~Crash(w) => UNCHANGED relay
<1>1. ASSUME NEW t \in Tasks, Claim(w, t)
      PROVE  SameBots
  <2>1. PICK n \in 1..Len(stream) : Claims(w, t, n)
    BY <1>1, ClaimEffect
  <2>2. stream' = [stream EXCEPT ![n] = [@ EXCEPT !.state = "pending", !.idle = FALSE]]
    BY <2>1 DEF Claims
  <2>3. /\ Len(stream') = Len(stream) /\ stream'[n].bot = stream[n].bot
        /\ \A m \in 1..Len(stream) : m # n => stream'[m] = stream[m]
    BY <2>2, MarkedEntry DEF TypeOK
  <2> QED
    BY <2>3 DEF SameBots
<1>2. ~(\E t \in Tasks : Claim(w, t)) => UNCHANGED stream
  BY DEF WorkerStep, Sigterm, MainFails, Exit, Restart, Crash, WorkerOnly
<1> QED
  BY <1>1, <1>2 DEF WorkerStep, Sigterm, MainFails, Exit, Restart, Crash, Claim, WorkerOnly, Mishap,
                    SameBots, runs

\* .. and what the API, the pods, the sweep and the clock do.
LEMMA WorldKeepsBots ==
  ASSUME TypeOK, WorldStep
  PROVE  SameBots /\ UNCHANGED <<enqueued, relay>> /\ mishaps' \in {mishaps, mishaps + 1}
<1>1. ASSUME NEW n \in DOMAIN stream, GetsIdle(n)
      PROVE  SameBots
  <2>1. n \in 1..Len(stream) /\ stream[n] \in Entries
    BY LenProperties, ElementOfSeq DEF TypeOK
  <2>2. [stream[n] EXCEPT !.idle = TRUE] \in Entries
        /\ [stream[n] EXCEPT !.idle = TRUE].bot = stream[n].bot
    BY <2>1 DEF Entries
  <2>3. stream' = [stream EXCEPT ![n] = [stream[n] EXCEPT !.idle = TRUE]]
    BY <1>1 DEF GetsIdle
  <2> QED
    BY <2>1, <2>2, <2>3, WrittenEntry DEF TypeOK, SameBots
<1>2. ~(\E n \in DOMAIN stream : GetsIdle(n)) => UNCHANGED stream
  BY DEF WorldStep, Create, Cancel, RunStarts, RunEnds, PodFails, SweepReservation, Others
<1> QED
  BY <1>1, <1>2 DEF WorldStep, Create, Cancel, RunStarts, RunEnds, PodFails, SweepReservation, Others,
                    GetsIdle, Mishap, SameBots, runs

\* Where no entry is added the counts go on, unless a relay loses what it has added.
LEMMA CountsKept ==
  ASSUME AInv, SameBots, mishaps' \in {mishaps, mishaps + 1},
         \A b \in Bots \ enqueued' : \A w \in Workers :
            b \in relay[w].added => b \in relay'[w].added \/ mishaps' = mishaps + 1,
         enqueued \subseteq enqueued'
  PROVE  AddsCounted' /\ AddedOnce'
<1>1. mishaps \in Nat /\ mishaps' \in Nat /\ mishaps <= mishaps'
  BY DispatchConstants DEF AInv, TypeOK
<1>2. ASSUME NEW b \in Bots
      PROVE  EntriesOf(b)' = EntriesOf(b)
  <2>1. DOMAIN stream = 1..Len(stream) /\ DOMAIN stream' = 1..Len(stream)
    BY LenProperties DEF AInv, TypeOK, SameBots
  <2> QED
    BY <2>1 DEF SameBots, EntriesOf
<1>3. \A b \in Bots : Cardinality(EntriesOf(b)) \in Nat /\ Cardinality(EntriesOf(b)) <= 1 + mishaps
  BY EntriesFinite DEF AInv, AddedOnce, EntriesOf
<1>4. ASSUME NEW b \in Bots, b \notin enqueued', \A w \in Workers : b \notin relay'[w].added
      PROVE  Cardinality(EntriesOf(b)') <= mishaps'
  <2>1. CASE mishaps' = mishaps + 1
    BY <1>1, <1>2, <1>3, <2>1
  <2>2. CASE mishaps' # mishaps + 1
    BY <1>1, <1>2, <1>3, <1>4, <2>2 DEF AInv, AddsCounted
  <2> QED
    BY <2>1, <2>2
<1>5. \A b \in Bots : Cardinality(EntriesOf(b)') <= 1 + mishaps'
  BY <1>1, <1>2, <1>3
<1> QED
  BY <1>4, <1>5 DEF AddsCounted, AddedOnce, EntriesOf

\* The steps of a relay.
LEMMA RelayCounts ==
  ASSUME AInv, NEW w \in Workers, Relays(w) \/ RelayFaults(w)
  PROVE  RelayExclusive' /\ AddsCounted' /\ AddedOnce'
<1>0. /\ TypeOK /\ RelayExclusive /\ mishaps \in Nat
      /\ relay \in [Workers -> [pc : {"idle", "adding"}, todo : SUBSET Bots, added : SUBSET Bots]]
  BY DispatchConstants DEF AInv, TypeOK
<1> DEFINE Kept == \A b \in Bots \ enqueued' : \A v \in Workers :
                     b \in relay[v].added => b \in relay'[v].added \/ mishaps' = mishaps + 1
<1>1. CASE RelaySelect(w)
  <2>1. /\ relay[w].pc = "idle" /\ UNCHANGED <<enqueued, stream, mishaps>>
        /\ relay' = [relay EXCEPT ![w] = [pc |-> "adding", todo |-> Relayable, added |-> {}]]
    BY <1>1 DEF RelaySelect
  <2>2. Hands(w) = {}
    BY <1>0, <2>1 DEF RelayExclusive
  <2>3. /\ relay'[w].todo = Relayable /\ relay'[w].added = {} /\ relay'[w].pc = "adding"
        /\ \A v \in Workers : v # w => relay'[v] = relay[v]
    BY <1>0, <2>1
  <2>4. Relayable \cap enqueued = {} /\ \A v \in Workers : Relayable \cap Hands(v) = {}
    BY DEF Relayable, Locked, Hands
  <2>5. RelayExclusive'
    BY <1>0, <2>1, <2>3, <2>4 DEF RelayExclusive, Hands
  <2>6. Kept
    BY <2>2, <2>3 DEF Hands
  <2> QED
    BY <2>1, <2>5, <2>6, CountsKept DEF SameBots
<1>2. CASE RelayCommit(w)
  <2>1. /\ UNCHANGED <<stream, mishaps>> /\ enqueued' = enqueued \cup relay[w].added
        /\ relay' = [relay EXCEPT ![w] = Idle]
    BY <1>2 DEF RelayCommit
  <2>2. /\ relay'[w].todo = {} /\ relay'[w].added = {}
        /\ \A v \in Workers : v # w => relay'[v] = relay[v]
    BY <1>0, <2>1 DEF Idle
  <2>3. RelayExclusive'
    BY <1>0, <2>1, <2>2 DEF RelayExclusive, Hands
  <2>4. Kept
    BY <2>1, <2>2
  <2> QED
    BY <2>1, <2>3, <2>4, CountsKept DEF SameBots
<1>3. ASSUME NEW b \in Bots, RelayFails(w, b), ~RelayAdd(w, b)
      PROVE  RelayExclusive' /\ AddsCounted' /\ AddedOnce'
  <2>1. UNCHANGED <<enqueued, stream>> /\ mishaps' = mishaps + 1
    BY <1>3 DEF RelayFails, Mishap
  <2>2. /\ relay'[w].todo = relay[w].todo \ {b} /\ relay'[w].added = relay[w].added
        /\ relay'[w].pc # relay[w].pc => relay'[w].pc = "adding"
        /\ \A v \in Workers : v # w => relay'[v] = relay[v]
    BY <1>0, <1>3, RelayMoves
  <2>3. RelayExclusive'
    BY <1>0, <2>1, <2>2 DEF RelayExclusive, Hands
  <2> QED
    BY <2>1, <2>3, CountsKept DEF SameBots
<1>4. ASSUME NEW b \in Bots, RelayAdd(w, b) \/ RelayUnheard(w, b)
      PROVE  RelayExclusive' /\ AddsCounted' /\ AddedOnce'
  <2> DEFINE x == [bot |-> b, state |-> "new", idle |-> FALSE]
  <2>1. /\ UNCHANGED enqueued /\ b \in relay[w].todo /\ stream' = Append(stream, x)
        /\ mishaps' \in {mishaps, mishaps + 1}
        /\ ~RelayAdd(w, b) => mishaps' = mishaps + 1
    BY <1>4 DEF RelayAdd, RelayUnheard, Mishap
  <2>2. /\ relay'[w].todo = relay[w].todo \ {b}
        /\ relay'[w].added \in {relay[w].added, relay[w].added \cup {b}}
        /\ mishaps' = mishaps => b \in relay'[w].added
        /\ relay'[w].pc = "adding"
        /\ \A v \in Workers : v # w => relay'[v] = relay[v]
    <3>1. relay[w].pc \in {"idle", "adding"} /\ relay[w].pc # "idle"
      BY <1>0, <2>1 DEF RelayExclusive, Hands
    <3>2. /\ relay'[w].todo = relay[w].todo \ {b}
          /\ relay'[w].pc # relay[w].pc => relay'[w].pc = "adding"
          /\ \A v \in Workers : v # w => relay'[v] = relay[v]
      BY <1>0, <1>4, RelayMoves
    <3>3. CASE RelayAdd(w, b)
      <4>1. relay'[w].added = relay[w].added \cup {b}
        BY <1>0, <3>3, RelayMoves
      <4> QED
        BY <3>1, <3>2, <4>1
    <3>4. CASE ~RelayAdd(w, b)
      <4>1. relay'[w].added = relay[w].added /\ mishaps' # mishaps
        BY <1>0, <1>4, <2>1, <3>4, RelayMoves
      <4> QED
        BY <3>1, <3>2, <4>1
    <3> QED
      BY <3>3, <3>4
  <2>3. RelayExclusive'
    BY <1>0, <2>1, <2>2 DEF RelayExclusive, Hands
  <2>4. b \notin enqueued /\ \A v \in Workers : b \notin relay[v].added
    BY <1>0, <2>1 DEF RelayExclusive, Hands
  <2>5. /\ x \in Entries /\ x.bot = b
    BY DEF Entries
  <2> HIDE DEF x
  <2>6. /\ Len(stream') = Len(stream) + 1 /\ stream'[Len(stream) + 1] = x
        /\ \A n \in 1..Len(stream) : stream'[n] = stream[n]
        /\ DOMAIN stream' = 1..(Len(stream) + 1) /\ DOMAIN stream = 1..Len(stream)
        /\ Len(stream) \in Nat
    BY <1>0, <2>1, <2>5 DEF TypeOK
  <2>7. /\ IsFiniteSet(EntriesOf(b)) /\ Cardinality(EntriesOf(b)) \in Nat
        /\ Cardinality(EntriesOf(b)) <= mishaps
    BY <1>0, <2>4, EntriesFinite DEF AInv, AddsCounted
  <2>8. EntriesOf(b)' = EntriesOf(b) \cup {Len(stream) + 1} /\ Len(stream) + 1 \notin EntriesOf(b)
    <3>1. PICK k \in Nat : k = Len(stream)
      BY <2>6
    <3>2. EntriesOf(b)' = {n \in 1..(k + 1) : stream'[n].bot = b}
      BY <2>6, <3>1 DEF EntriesOf
    <3>3. EntriesOf(b) = {n \in 1..k : stream[n].bot = b} /\ stream'[k + 1].bot = b
      BY <2>5, <2>6, <3>1 DEF EntriesOf
    <3>4. \A n \in 1..k : stream'[n] = stream[n]
      BY <2>6, <3>1
    <3>5. 1..(k + 1) = (1..k) \cup {k + 1} /\ k + 1 \notin 1..k
      OBVIOUS
    <3> QED
      BY <3>1, <3>2, <3>3, <3>4, <3>5
  <2>9. Cardinality(EntriesOf(b)') <= 1 + mishaps /\ Cardinality(EntriesOf(b)') \in Nat
    <3>1. Cardinality(EntriesOf(b)') = Cardinality(EntriesOf(b)) + 1
      BY <2>7, <2>8, FS_AddElement
    <3> QED
      BY <1>0, <2>7, <3>1
  <2>10. ASSUME NEW c \in Bots, c # b
         PROVE  EntriesOf(c)' = EntriesOf(c)
    <3>1. PICK k \in Nat : k = Len(stream)
      BY <2>6
    <3>2. EntriesOf(c)' = {n \in 1..(k + 1) : stream'[n].bot = c}
      BY <2>6, <3>1 DEF EntriesOf
    <3>3. EntriesOf(c) = {n \in 1..k : stream[n].bot = c} /\ stream'[k + 1].bot # c
      BY <2>5, <2>6, <2>10, <3>1 DEF EntriesOf
    <3>4. \A n \in 1..k : stream'[n] = stream[n]
      BY <2>6, <3>1
    <3>5. 1..(k + 1) = (1..k) \cup {k + 1}
      OBVIOUS
    <3> QED
      BY <3>2, <3>3, <3>4, <3>5
  <2>11. \A c \in Bots : Cardinality(EntriesOf(c)') <= 1 + mishaps'
    <3>1. \A c \in Bots : Cardinality(EntriesOf(c)) \in Nat
                           /\ Cardinality(EntriesOf(c)) <= 1 + mishaps
      BY <1>0, EntriesFinite DEF AInv, AddedOnce, EntriesOf
    <3>2. mishaps <= mishaps' /\ mishaps' \in Nat
      BY <1>0, <2>1
    <3>3. \A c \in Bots : c # b => Cardinality(EntriesOf(c)') <= 1 + mishaps'
      BY <1>0, <2>10, <3>1, <3>2
    <3> QED
      BY <1>0, <2>9, <3>2, <3>3
  <2>12. ASSUME NEW c \in Bots, c \notin enqueued', \A v \in Workers : c \notin relay'[v].added
         PROVE  Cardinality(EntriesOf(c)') <= mishaps'
    <3>1. c \notin enqueued /\ \A v \in Workers : c \notin relay[v].added
      BY <2>1, <2>2, <2>12
    <3>2. Cardinality(EntriesOf(c)) \in Nat /\ Cardinality(EntriesOf(c)) <= mishaps
      BY <1>0, <3>1, EntriesFinite DEF AInv, AddsCounted
    <3>3. CASE c = b
      <4>1. mishaps' = mishaps + 1
        BY <2>1, <2>2, <2>12, <3>3
      <4>2. Cardinality(EntriesOf(b)') = Cardinality(EntriesOf(b)) + 1
        BY <2>7, <2>8, FS_AddElement
      <4> QED
        BY <1>0, <3>2, <3>3, <4>1, <4>2
    <3>4. CASE c # b
      <4>1. Cardinality(EntriesOf(c)') = Cardinality(EntriesOf(c))
        BY <2>10, <3>4
      <4> QED
        BY <1>0, <2>1, <3>2, <4>1
    <3> QED
      BY <3>3, <3>4
  <2> QED
    BY <2>3, <2>11, <2>12 DEF AddsCounted, AddedOnce, EntriesOf
<1>5. CASE RelayRollsBack(w)
  <2>1. /\ UNCHANGED <<enqueued, stream>> /\ mishaps' = mishaps + 1
        /\ relay' = [relay EXCEPT ![w] = Idle]
    BY <1>5 DEF RelayRollsBack, Mishap
  <2>2. /\ relay'[w].todo = {} /\ relay'[w].added = {}
        /\ \A v \in Workers : v # w => relay'[v] = relay[v]
    BY <1>0, <2>1 DEF Idle
  <2>3. RelayExclusive'
    BY <1>0, <2>1, <2>2 DEF RelayExclusive, Hands
  <2> QED
    BY <2>1, <2>3, CountsKept DEF SameBots
<1> QED
  BY <1>1, <1>2, <1>3, <1>4, <1>5 DEF Relays, RelayFaults

\* A worker that is killed loses what its relay holds.
LEMMA CrashCounts ==
  ASSUME AInv, NEW w \in Workers, Crash(w)
  PROVE  RelayExclusive' /\ AddsCounted' /\ AddedOnce'
<1>1. /\ UNCHANGED <<enqueued, stream>> /\ mishaps' = mishaps + 1
      /\ relay' = [relay EXCEPT ![w] = Idle]
  BY DEF Crash, Mishap
<1>2. /\ relay'[w].todo = {} /\ relay'[w].added = {}
      /\ \A v \in Workers : v # w => relay'[v] = relay[v]
  BY <1>1 DEF Idle, AInv, TypeOK
<1>3. RelayExclusive'
  BY <1>1, <1>2 DEF AInv, RelayExclusive, Hands
<1> QED
  BY <1>1, <1>3, CountsKept DEF SameBots

\* Every step keeps AInv.
LEMMA NextCounts == AInv /\ [Next]_vars => AInv'
<1> SUFFICES ASSUME AInv, [Next]_vars PROVE AInv'
  OBVIOUS
<1>1. TypeOK /\ TypeOK'
  BY NextType DEF AInv
<1> SUFFICES RelayExclusive' /\ AddsCounted' /\ AddedOnce'
  BY <1>1 DEF AInv
<1>2. ASSUME SameBots, UNCHANGED <<enqueued, relay>>, mishaps' \in {mishaps, mishaps + 1}
      PROVE  RelayExclusive' /\ AddsCounted' /\ AddedOnce'
  BY <1>2, CountsKept DEF AInv, RelayExclusive, Hands
<1>3. CASE UNCHANGED vars
  BY <1>2, <1>3 DEF vars, runs, SameBots
<1>4. ASSUME NEW t \in Tasks, TaskStep(t) \/ TaskRaises(t) \/ CancelTask(t)
      PROVE  RelayExclusive' /\ AddsCounted' /\ AddedOnce'
  BY <1>1, <1>2, <1>4, TaskKeepsBots
<1>5. ASSUME NEW w \in Workers, WorkerStep(w)
      PROVE  RelayExclusive' /\ AddsCounted' /\ AddedOnce'
  BY <1>1, <1>2, <1>5, WorkerKeepsBots, CrashCounts
<1>6. CASE WorldStep
  BY <1>1, <1>2, <1>6, WorldKeepsBots
<1> QED
  BY <1>1, <1>3, <1>4, <1>5, <1>6, NextSorted, RelayCounts

\* Workers that relay at the same time add a run once, and at most once more for each mishap.
THEOREM RelayedOnce == Spec => []AddedOnce
<1>1. Init => AInv
  <2> SUFFICES ASSUME Init PROVE AInv
    OBVIOUS
  <2>1. \A b \in Bots : EntriesOf(b) = {}
    BY DEF Init, EntriesOf
  <2>2. \A b \in Bots : Cardinality(EntriesOf(b)) = 0
    BY <2>1, FS_EmptySet
  <2> QED
    BY <2>2, InitType DEF Init, Idle, AInv, RelayExclusive, Hands, AddsCounted, AddedOnce, EntriesOf
<1>2. AInv => AddedOnce
  BY DEF AInv
<1> QED
  BY <1>1, <1>2, NextCounts, PTL DEF Spec

-----------------------------------------------------------------------------
(* OnItsWay, on calm days: an entry that is not acknowledged, and that no  *)
(* task is about to acknowledge, carries each queued run that was relayed. *)

\* Task t attends entry n.
Attends(t, n) == task[t] # None /\ task[t].entry = n

\* Entry n is there for run b, and no task that attends it is at one of L.
Carries(n, b, L) ==
  /\ n \in 1..Len(stream) /\ stream[n].bot = b /\ stream[n].state # "acked"
  /\ \A t \in Tasks : Attends(t, n) => task[t].pc \notin L

QueuedTask(t) == task[t] # None /\ status[Bot(t)] = "queued"

\* Only runs that were created have entries, are relayed or hold a reservation.
Created ==
  /\ \A n \in 1..Len(stream) : status[stream[n].bot] # "none"
  /\ \A w \in Workers : \A b \in Hands(w) : status[b] # "none"
  /\ \A b \in enqueued : status[b] # "none"
  /\ \A b \in Bots : status[b] = "none" => holder[b] = None

\* A task of a queued run is alone with its entry, and its worker is up.
TasksAlone ==
  /\ \A t \in Tasks : QueuedTask(t) => /\ worker[task[t].worker] = "up"
                                       /\ task[t].pc # "release"
                                       /\ stream[task[t].entry].state = "pending"
                                       /\ ~stream[task[t].entry].idle
  /\ \A t, u \in Tasks : QueuedTask(t) /\ QueuedTask(u) /\ task[t].entry = task[u].entry => t = u

HolderPcs == {"spawn", "watch", "busy", "raising"}

\* The reservation of a queued run is its task's.  If that has died another task will
\* come to the entry, and it is not turned away.
HolderCarries ==
  \A b \in Bots : status[b] = "queued" =>
    /\ holder[b] \in Tasks => /\ task[holder[b]] # None /\ Bot(holder[b]) = b
                              /\ task[holder[b]].pc \in HolderPcs
    /\ holder[b] = Gone => \E n \in 1..Len(stream) : Carries(n, b, {"refused", "ack"})

Relayed(b) == b \in enqueued \/ \E w \in Workers : b \in relay[w].added

Carried ==
  \A b \in Bots : status[b] = "queued" /\ Relayed(b)
    => \E n \in 1..Len(stream) : Carries(n, b, {"ack"})

CInv == TypeOK /\ Created /\ TasksAlone /\ HolderCarries /\ Carried

\* The entry of a queued run's task carries the run unless the task is at one of L.
LEMMA TaskCarries ==
  ASSUME TypeOK, TasksAlone, NEW t \in Tasks, QueuedTask(t), NEW L, task[t].pc \notin L
  PROVE  Carries(task[t].entry, Bot(t), L)
<1>1. task[t].entry \in 1..Len(stream) /\ task[t] # None
  BY TaskEntry DEF QueuedTask
<1>2. ASSUME NEW u \in Tasks, Attends(u, task[t].entry)
      PROVE  u = t
  BY <1>2 DEF TasksAlone, QueuedTask, Attends, Bot
<1> QED
  BY <1>1, <1>2 DEF Carries, TasksAlone, Bot

\* What a task's move may be, while its run stays queued.
CalmMove(t, l) ==
  status'[Bot(t)] = "queued" =>
    /\ l # "release"
    /\ l = "ack" => task[t].pc = "refused" /\ holder[Bot(t)] # None
    /\ l = "refused" => holder'[Bot(t)] # Gone

\* What may become of the reservations of queued runs when a task moves.
CalmHolder(t, l) ==
  \A b \in Bots : status'[b] = "queued" =>
    /\ holder'[b] \in Tasks => IF holder'[b] = t THEN Bot(t) = b /\ l \in HolderPcs
                               ELSE holder'[b] = holder[b]
    /\ holder'[b] = Gone => holder[b] = Gone \/ (b = Bot(t) /\ l \notin {"refused", "ack"})

\* A run that is queued was queued, or is created now.
StatusMoves ==
  \A b \in Bots : /\ status[b] # "none" => status'[b] # "none"
                  /\ status'[b] = "queued" => status[b] = "queued"

\* A task's move keeps the queued runs on their way.
LEMMA MoveKeeps ==
  ASSUME CInv, NEW t \in Tasks, task[t] # None, NEW l \in TaskPcs, Go(t, l),
         UNCHANGED <<enqueued, stream, worker, relay>>, StatusMoves,
         CalmMove(t, l), CalmHolder(t, l), \A b \in Bots : status'[b] = "none" => holder'[b] = None
  PROVE  Created' /\ TasksAlone' /\ HolderCarries' /\ Carried'
<1>0. /\ TypeOK /\ Created /\ TasksAlone /\ HolderCarries /\ Carried
      /\ \A u \in Tasks : task[u] # None => Bot(u) \in Bots
  BY TaskEntry DEF CInv
<1>1. /\ task'[t] # None /\ task'[t].worker = task[t].worker /\ task'[t].entry = task[t].entry
      /\ task'[t].pc = l /\ \A u \in Tasks : u # t => task'[u] = task[u]
      /\ \A u \in Tasks : task'[u] # None <=> task[u] # None
  BY <1>0, GoMoves
<1>2. \A u \in Tasks : task'[u] # None => /\ task'[u].entry = task[u].entry
                                          /\ task'[u].worker = task[u].worker
                                          /\ Bot(u)' = Bot(u)
  BY <1>1 DEF Bot
<1>3. \A u \in Tasks : QueuedTask(u)' => QueuedTask(u)
  BY <1>0, <1>1, <1>2 DEF QueuedTask, StatusMoves
<1>4. Created'
  <2>1. \A w \in Workers : Hands(w)' = Hands(w) /\ Hands(w) \subseteq Bots
    BY <1>0 DEF Hands, TypeOK
  <2>2. ASSUME NEW n \in 1..Len(stream)
        PROVE  stream[n].bot \in Bots
    <3>1. stream[n] \in Entries
      BY <1>0, ElementOfSeq DEF TypeOK
    <3> QED
      BY <3>1 DEF Entries
  <2>3. enqueued \subseteq Bots
    BY <1>0 DEF TypeOK
  <2> QED
    BY <1>0, <2>1, <2>2, <2>3 DEF Created, StatusMoves
<1>5. TasksAlone'
  <2>1. ASSUME NEW u \in Tasks, QueuedTask(u)'
        PROVE  /\ worker'[task'[u].worker] = "up" /\ task'[u].pc # "release"
               /\ stream'[task'[u].entry].state = "pending" /\ ~stream'[task'[u].entry].idle
    <3>1. QueuedTask(u) /\ task'[u] # None /\ status'[Bot(u)] = "queued"
      BY <1>2, <1>3, <2>1 DEF QueuedTask
    <3>2. task'[u].pc # "release"
      BY <1>0, <1>1, <3>1 DEF TasksAlone, CalmMove
    <3> QED
      BY <1>0, <1>2, <3>1, <3>2 DEF TasksAlone
  <2>2. ASSUME NEW u \in Tasks, NEW v \in Tasks, QueuedTask(u)', QueuedTask(v)',
               task'[u].entry = task'[v].entry
        PROVE  u = v
    <3>1. QueuedTask(u) /\ QueuedTask(v) /\ task[u].entry = task[v].entry
      BY <1>2, <1>3, <2>2 DEF QueuedTask
    <3> QED
      BY <1>0, <3>1 DEF TasksAlone
  <2> QED
    BY <2>1, <2>2 DEF TasksAlone
<1>6. ASSUME NEW n \in 1..Len(stream), NEW b \in Bots, NEW L, Carries(n, b, L),
             Attends(t, n) => l \notin L
      PROVE  Carries(n, b, L)'
  <2>1. \A u \in Tasks : Attends(u, n)' => Attends(u, n)
    BY <1>1, <1>2 DEF Attends
  <2>2. \A u \in Tasks : Attends(u, n)' => task'[u].pc \notin L
    BY <1>1, <1>6, <2>1 DEF Carries, Attends
  <2> QED
    BY <1>6, <2>2 DEF Carries
<1>7. HolderCarries'
  <2> SUFFICES ASSUME NEW b \in Bots, status'[b] = "queued"
               PROVE  /\ holder'[b] \in Tasks => /\ task'[holder'[b]] # None /\ Bot(holder[b])' = b
                                                 /\ task'[holder'[b]].pc \in HolderPcs
                      /\ holder'[b] = Gone =>
                           \E n \in 1..Len(stream) : Carries(n, b, {"refused", "ack"})'
    BY DEF HolderCarries
  <2>1. status[b] = "queued"
    BY DEF StatusMoves
  <2>2. ASSUME holder'[b] \in Tasks
        PROVE  task'[holder'[b]] # None /\ Bot(holder[b])' = b /\ task'[holder'[b]].pc \in HolderPcs
    <3>1. CASE holder'[b] = t
      BY <1>1, <1>2, <2>2, <3>1 DEF CalmHolder, Bot
    <3>2. CASE holder'[b] # t
      <4>1. holder'[b] = holder[b]
        BY <2>2, <3>2 DEF CalmHolder
      <4>2. task[holder[b]] # None /\ Bot(holder[b]) = b /\ task[holder[b]].pc \in HolderPcs
        BY <1>0, <2>1, <2>2, <4>1 DEF HolderCarries
      <4> QED
        BY <1>1, <1>2, <2>2, <3>2, <4>1, <4>2 DEF Bot
    <3> QED
      BY <3>1, <3>2
  <2>3. ASSUME holder'[b] = Gone
        PROVE  \E n \in 1..Len(stream) : Carries(n, b, {"refused", "ack"})'
    <3>0. holder[b] = Gone \/ (b = Bot(t) /\ l \notin {"refused", "ack"})
      BY <2>3 DEF CalmHolder
    <3>1. CASE holder[b] = Gone
      <4>1. PICK n \in 1..Len(stream) : Carries(n, b, {"refused", "ack"})
        BY <1>0, <2>1, <3>1 DEF HolderCarries
      <4>2. Attends(t, n) => l \notin {"refused", "ack"}
        <5>1. Attends(t, n) => Bot(t) = b /\ task[t].pc # "refused"
          BY <4>1 DEF Attends, Carries, Bot
        <5> QED
          BY <2>3, <5>1 DEF CalmMove
      <4> QED
        BY <1>6, <4>1, <4>2
    <3>2. CASE b = Bot(t) /\ l \notin {"refused", "ack"} /\ holder[b] # Gone
      <4>1. QueuedTask(t)
        BY <2>1, <3>2 DEF QueuedTask
      <4>2. task[t].entry \in 1..Len(stream) /\ Carries(task[t].entry, b, {})
        <5>1. Carries(task[t].entry, Bot(t), {})
          BY <1>0, <4>1, TaskCarries
        <5> QED
          BY <3>2, <5>1 DEF Carries
      <4>3. PICK n \in 1..Len(stream) : n = task[t].entry
        BY <4>2
      <4>4. \A u \in Tasks : Attends(u, n) => u = t
        BY <1>0, <4>1, <4>3 DEF TasksAlone, Attends, QueuedTask, Bot
      <4>5. \A u \in Tasks : Attends(u, n)' => u = t
        BY <1>1, <1>2, <4>4 DEF Attends
      <4>6. Carries(n, b, {"refused", "ack"})'
        BY <1>1, <3>2, <4>2, <4>3, <4>5 DEF Carries
      <4> QED
        BY <4>6
    <3> QED
      BY <3>0, <3>1, <3>2
  <2> QED
    BY <2>2, <2>3
<1>8. Carried'
  <2> SUFFICES ASSUME NEW b \in Bots, status'[b] = "queued", Relayed(b)'
               PROVE  \E n \in 1..Len(stream) : Carries(n, b, {"ack"})'
    BY DEF Carried
  <2>1. status[b] = "queued" /\ Relayed(b)
    BY DEF StatusMoves, Relayed
  <2>2. PICK n \in 1..Len(stream) : Carries(n, b, {"ack"})
    BY <1>0, <2>1 DEF Carried
  <2>3. CASE Attends(t, n) => l # "ack"
    BY <1>6, <2>2, <2>3
  <2>4. CASE Attends(t, n) /\ l = "ack"
    <3>1. Bot(t) = b /\ task[t].pc = "refused" /\ holder[b] # None
      BY <2>2, <2>4 DEF Carries, Attends, Bot, CalmMove
    <3>2. CASE holder[b] = Gone
      <4>1. PICK m \in 1..Len(stream) : Carries(m, b, {"refused", "ack"})
        BY <1>0, <2>1, <3>2 DEF HolderCarries
      <4>2. ~Attends(t, m) /\ Carries(m, b, {"ack"})
        BY <3>1, <4>1 DEF Carries, Attends
      <4> QED
        BY <1>6, <4>2
    <3>3. CASE holder[b] # Gone
      <4> DEFINE h == holder[b]
      <4>1. h \in Tasks
        BY <1>0, <3>1, <3>3 DEF TypeOK
      <4>2. task[h] # None /\ Bot(h) = b /\ task[h].pc \in HolderPcs
        BY <1>0, <2>1, <4>1 DEF HolderCarries
      <4>3. QueuedTask(h) /\ h # t /\ task[h].pc \notin {"ack"} /\ QueuedTask(t)
        BY <2>1, <3>1, <4>2 DEF QueuedTask, HolderPcs
      <4> HIDE DEF h
      <4>4. Carries(task[h].entry, b, {"ack"})
        BY <1>0, <4>1, <4>2, <4>3, TaskCarries
      <4>5. ~Attends(t, task[h].entry)
        BY <1>0, <4>1, <4>3 DEF TasksAlone, Attends
      <4>6. task[h].entry \in 1..Len(stream)
        BY <4>4 DEF Carries
      <4> QED
        BY <1>6, <4>4, <4>5, <4>6
    <3> QED
      BY <3>2, <3>3
  <2> QED
    BY <2>3, <2>4
<1> QED
  BY <1>4, <1>5, <1>7, <1>8

\* A reservation that a move leaves alone: its holder is still at a place where it holds.
LEMMA HolderStays ==
  ASSUME CInv, NEW t \in Tasks, task[t] # None, NEW l, StatusMoves, UNCHANGED holder,
         status'[Bot(t)] = "queued" /\ task[t].pc \in HolderPcs => l \in HolderPcs
  PROVE  CalmHolder(t, l) /\ \A b \in Bots : status'[b] = "none" => holder'[b] = None
BY DEF CInv, Created, HolderCarries, CalmHolder, StatusMoves

\* A move that frees the reservation of the task's run.
LEMMA HolderFreed ==
  ASSUME CInv, NEW t \in Tasks, task[t] # None, NEW l, StatusMoves,
         holder' = [holder EXCEPT ![Bot(t)] = None]
  PROVE  CalmHolder(t, l) /\ \A b \in Bots : status'[b] = "none" => holder'[b] = None
<1>1. \A b \in Bots : holder'[b] = IF b = Bot(t) THEN None ELSE holder[b]
  BY DEF CInv, TypeOK
<1> QED
  BY <1>1, DispatchConstants DEF CInv, Created, HolderCarries, CalmHolder, StatusMoves

\* A move that leaves the task's reservation to the sweep.
LEMMA HolderLost ==
  ASSUME CInv, NEW t \in Tasks, task[t] # None, NEW l, StatusMoves, UNCHANGED status,
         holder' = Orphaned({t}), l \notin {"refused", "ack"}
  PROVE  CalmHolder(t, l) /\ \A b \in Bots : status'[b] = "none" => holder'[b] = None
<1>1. \A b \in Bots : holder'[b] = IF holder[b] = t THEN Gone ELSE holder[b]
  BY DEF Orphaned
<1> QED
  BY <1>1, DispatchConstants DEF CInv, Created, HolderCarries, CalmHolder, StatusMoves

\* On a calm day the moves of a task keep the queued runs on their way, ..
LEMMA CalmTask ==
  ASSUME CInv, Calm, NEW t \in Tasks, TaskStep(t) \/ TaskRaises(t) \/ CancelTask(t), ~Ack(t),
         ~(CancelTask(t) /\ task' = [task EXCEPT ![t] = None])
  PROVE  Created' /\ TasksAlone' /\ HolderCarries' /\ Carried'
<1> USE DEF HolderPcs, TaskPcs
<1>0. TypeOK /\ TasksAlone /\ status \in [Bots -> {"none", "queued", "live", "final"}]
  BY DEF CInv, TypeOK
<1>1. task[t] # None /\ UNCHANGED <<enqueued, stream, worker, relay>>
  BY DEF TaskStep, TaskRaises, CancelTask, TaskUnchanged, Begin, Execute, Admit, Refused, FailRun,
         Spawn, Watch, Release, At
<1>2. Bot(t) \in Bots /\ task[t] \in [worker : Workers, entry : 1..Len(stream), pc : TaskPcs]
  BY <1>0, <1>1, TaskEntry DEF TypeOK
<1>3. status[Bot(t)] = "queued" => worker[task[t].worker] = "up" /\ task[t].pc # "release"
  BY <1>0, <1>1 DEF TasksAlone, QueuedTask
<1>4. UNCHANGED status => StatusMoves
  BY DEF StatusMoves
<1>5. CASE Begin(t)
  <2>1. PICK l \in {"ack", "execute"} :
          Go(t, l) /\ (l = "ack" => worker[task[t].worker] = "stopping")
    BY <1>5 DEF Begin
  <2>2. UNCHANGED <<status, holder>> /\ task[t].pc = "claimed"
    BY <1>5 DEF Begin, At
  <2>3. CalmMove(t, l)
    BY <1>3, <2>1, <2>2 DEF CalmMove
  <2> QED
    BY <1>1, <1>4, <2>1, <2>2, <2>3, HolderStays, MoveKeeps
<1>6. CASE Execute(t)
  <2>1. PICK l \in {"ack", "admit"} : Go(t, l) /\ (l = "ack" => status[Bot(t)] # "queued")
    BY <1>6 DEF Execute
  <2>2. UNCHANGED <<status, holder>> /\ task[t].pc = "execute"
    BY <1>6 DEF Execute, At
  <2>3. CalmMove(t, l)
    BY <2>1, <2>2 DEF CalmMove
  <2> QED
    BY <1>1, <1>4, <2>1, <2>2, <2>3, HolderStays, MoveKeeps
<1>7. CASE Admit(t) /\ Go(t, "spawn") /\ holder' = [holder EXCEPT ![Bot(t)] = t]
  <2>1. UNCHANGED status /\ task[t].pc = "admit"
    BY <1>7 DEF Admit, At
  <2>2. \A b \in Bots : holder'[b] = IF b = Bot(t) THEN t ELSE holder[b]
    BY <1>7 DEF CInv, TypeOK
  <2>3. status[Bot(t)] # "none"
    BY <1>2 DEF CInv, Created, Bot
  <2>4. CalmHolder(t, "spawn") /\ \A b \in Bots : status'[b] = "none" => holder'[b] = None
    BY <2>1, <2>2, <2>3, DispatchConstants DEF CInv, Created, HolderCarries, CalmHolder
  <2>5. CalmMove(t, "spawn")
    BY DEF CalmMove
  <2> QED
    BY <1>1, <1>4, <1>7, <2>1, <2>4, <2>5, MoveKeeps
<1>8. CASE Admit(t) /\ Go(t, "refused") /\ UNCHANGED holder /\ holder[Bot(t)] # Gone
  <2>1. UNCHANGED status /\ task[t].pc = "admit"
    BY <1>8 DEF Admit, At
  <2>2. CalmMove(t, "refused")
    BY <1>8 DEF CalmMove
  <2> QED
    BY <1>1, <1>4, <1>8, <2>1, <2>2, HolderStays, MoveKeeps
<1>9. CASE Refused(t)
  <2>1. PICK l \in {"fail", "ack"} : Go(t, l) /\ (l = "ack" => holder[Bot(t)] # None)
    BY <1>9 DEF Refused
  <2>2. UNCHANGED <<status, holder>> /\ task[t].pc = "refused"
    BY <1>9 DEF Refused, At
  <2>3. CalmMove(t, l)
    BY <2>1, <2>2 DEF CalmMove
  <2> QED
    BY <1>1, <1>4, <2>1, <2>2, <2>3, HolderStays, MoveKeeps
<1>10. CASE FailRun(t)
  <2>1. PICK l \in {"release", "ack"} : Go(t, l)
    BY <1>10 DEF FailRun
  <2>2. UNCHANGED holder /\ status' = [status EXCEPT ![Bot(t)] = "final"]
    BY <1>10 DEF FailRun
  <2>3. StatusMoves /\ status'[Bot(t)] = "final"
    BY <1>0, <1>2, <2>2 DEF StatusMoves
  <2>4. CalmMove(t, l)
    BY <2>3 DEF CalmMove
  <2> QED
    BY <1>1, <2>1, <2>2, <2>3, <2>4, HolderStays, MoveKeeps
<1>11. CASE Spawn(t)
  <2>1. PICK l \in {"watch", "busy"} : Go(t, l)
    BY <1>11 DEF Spawn
  <2>2. UNCHANGED <<status, holder>>
    BY <1>11 DEF Spawn
  <2>3. CalmMove(t, l)
    BY <2>1 DEF CalmMove
  <2> QED
    BY <1>1, <1>4, <2>1, <2>2, <2>3, HolderStays, MoveKeeps
<1>12. CASE Watch(t)
  <2>1. PICK l \in {"release", "raising"} : Go(t, l) /\ (l = "release" => status[Bot(t)] = "final")
    BY <1>12 DEF Watch
  <2>2. UNCHANGED <<status, holder>>
    BY <1>12 DEF Watch
  <2>3. CalmMove(t, l)
    BY <2>1, <2>2 DEF CalmMove
  <2> QED
    BY <1>1, <1>4, <2>1, <2>2, <2>3, HolderStays, MoveKeeps
<1>13. CASE Release(t)
  <2>1. PICK l \in {"ack", "fail"} : Go(t, l) /\ (l = "ack" => task[t].pc = "release")
    BY <1>13 DEF Release, At
  <2>2. UNCHANGED status /\ holder' = [holder EXCEPT ![Bot(t)] = None]
    BY <1>13 DEF Release
  <2>3. CalmMove(t, l)
    BY <1>3, <2>1, <2>2 DEF CalmMove
  <2> QED
    BY <1>1, <1>4, <2>1, <2>2, <2>3, HolderFreed, MoveKeeps
<1>14. CASE TaskRaises(t)
  <2>1. UNCHANGED status
    BY <1>14 DEF TaskRaises
  <2>2. CASE Go(t, "fail") /\ task[t].pc \in {"claimed", "execute", "admit", "refused"} /\ UNCHANGED holder
    BY <1>1, <1>4, <2>1, <2>2, HolderStays, MoveKeeps DEF CalmMove
  <2>3. CASE Go(t, "raising") /\ UNCHANGED holder
    BY <1>1, <1>4, <2>1, <2>3, HolderStays, MoveKeeps DEF CalmMove
  <2>4. CASE Go(t, "fail") /\ holder' = Orphaned({t})
    BY <1>1, <1>4, <2>1, <2>4, HolderLost, MoveKeeps DEF CalmMove
  <2>5. CASE task[t].pc = "fail" /\ Go(t, "ack") /\ UNCHANGED holder
    <3>1. task'[t] # None /\ task'[t].pc = "ack"
      BY <1>0, <1>1, <2>5, GoMoves
    <3>2. status'[Bot(t)] = "final"
      BY <1>1, <2>5, <3>1 DEF Calm, At
    <3> QED
      BY <1>1, <1>4, <2>1, <2>5, <3>2, HolderStays, MoveKeeps DEF CalmMove
  <2> QED
    BY <1>14, <2>2, <2>3, <2>4, <2>5 DEF TaskRaises
<1>15. CASE CancelTask(t)
  <2>1. UNCHANGED <<status, holder>> /\ \E l \in {"release", "ack"} : Go(t, l)
    BY <1>15 DEF CancelTask
  <2>2. status'[Bot(t)] # "queued"
    BY <1>3, <1>15, <2>1 DEF CancelTask
  <2>3. PICK l \in {"release", "ack"} : Go(t, l)
    BY <2>1
  <2>4. CalmMove(t, l)
    BY <2>2 DEF CalmMove
  <2> QED
    BY <1>1, <1>4, <2>1, <2>2, <2>3, <2>4, HolderStays, MoveKeeps
<1> QED
  BY <1>5, <1>6, <1>7, <1>8, <1>9, <1>10, <1>11, <1>12, <1>13, <1>14, <1>15 DEF TaskStep, Admit

\* A step that starts no task and adds no entry keeps the queued runs on their way if it
\* leaves their tasks, their entries and their reservations alone.
LEMMA QuietKeeps ==
  ASSUME CInv, SameBots, StatusMoves,
         \A u \in Tasks : task'[u] # None => task'[u] = task[u],
         \A w \in Workers : \A b \in Hands(w)' : b \in Bots /\ status[b] # "none",
         \A b \in enqueued' : b \in Bots /\ status[b] # "none",
         \A b \in Bots : Relayed(b)' => Relayed(b),
         \A u \in Tasks : QueuedTask(u) /\ task'[u] # None /\ status'[Bot(u)] = "queued" =>
            /\ worker'[task[u].worker] = "up"
            /\ stream'[task[u].entry].state = "pending" /\ ~stream'[task[u].entry].idle,
         \A n \in 1..Len(stream) : stream'[n].state = "acked" =>
            \/ stream[n].state = "acked"
            \/ \E u \in Tasks : Attends(u, n) /\ task[u].pc = "ack",
         \A b \in Bots : status'[b] = "queued" =>
            /\ holder'[b] \in Tasks => holder'[b] = holder[b] /\ task'[holder[b]] # None
            /\ holder'[b] = Gone =>
                 holder[b] = Gone \/ \E n \in 1..Len(stream) : Carries(n, b, {"refused", "ack"})',
         \A b \in Bots : status'[b] = "none" => holder'[b] = None
  PROVE  Created' /\ TasksAlone' /\ HolderCarries' /\ Carried'
<1>0. /\ TypeOK /\ Created /\ TasksAlone /\ HolderCarries /\ Carried
      /\ \A u \in Tasks : task[u] # None => /\ task[u].entry \in 1..Len(stream)
                                            /\ Bot(u) \in Bots
      /\ Len(stream') = Len(stream)
      /\ \A n \in 1..Len(stream) : stream'[n].bot = stream[n].bot
  BY TaskEntry DEF CInv, SameBots
<1>1. ASSUME NEW n \in 1..Len(stream)
      PROVE  stream[n].bot \in Bots
  <2>1. stream[n] \in Entries
    BY <1>0, ElementOfSeq DEF TypeOK
  <2> QED
    BY <2>1 DEF Entries
<1>2. \A u \in Tasks : task'[u] # None => /\ task'[u] = task[u] /\ task[u] # None
                                          /\ Bot(u)' = Bot(u)
  BY <1>0 DEF Bot
<1>3. \A u \in Tasks : QueuedTask(u)' => QueuedTask(u) /\ task'[u] # None /\ status'[Bot(u)] = "queued"
  BY <1>0, <1>2 DEF QueuedTask, StatusMoves
<1>4. Created'
  BY <1>0, <1>1 DEF Created, StatusMoves
<1>5. TasksAlone'
  <2>1. ASSUME NEW u \in Tasks, QueuedTask(u)'
        PROVE  /\ worker'[task'[u].worker] = "up" /\ task'[u].pc # "release"
               /\ stream'[task'[u].entry].state = "pending" /\ ~stream'[task'[u].entry].idle
    BY <1>0, <1>2, <1>3, <2>1 DEF TasksAlone
  <2>2. ASSUME NEW u \in Tasks, NEW v \in Tasks, QueuedTask(u)', QueuedTask(v)',
               task'[u].entry = task'[v].entry
        PROVE  u = v
    <3>1. QueuedTask(u) /\ QueuedTask(v) /\ task[u].entry = task[v].entry
      BY <1>2, <1>3, <2>2 DEF QueuedTask
    <3> QED
      BY <1>0, <3>1 DEF TasksAlone
  <2> QED
    BY <2>1, <2>2 DEF TasksAlone
<1>6. ASSUME NEW n \in 1..Len(stream), NEW b \in Bots, NEW L, Carries(n, b, L), "ack" \in L
      PROVE  Carries(n, b, L)'
  <2>1. \A u \in Tasks : Attends(u, n)' => Attends(u, n) /\ task'[u].pc = task[u].pc
    BY <1>2 DEF Attends
  <2>2. stream'[n].state # "acked"
    BY <1>6 DEF Carries
  <2> QED
    BY <1>0, <1>6, <2>1, <2>2 DEF Carries
<1>7. HolderCarries'
  <2> SUFFICES ASSUME NEW b \in Bots, status'[b] = "queued"
               PROVE  /\ holder'[b] \in Tasks => /\ task'[holder'[b]] # None /\ Bot(holder[b])' = b
                                                 /\ task'[holder'[b]].pc \in HolderPcs
                      /\ holder'[b] = Gone =>
                           \E n \in 1..Len(stream) : Carries(n, b, {"refused", "ack"})'
    BY <1>0 DEF HolderCarries
  <2>1. status[b] = "queued"
    BY DEF StatusMoves
  <2>2. ASSUME holder'[b] \in Tasks
        PROVE  task'[holder'[b]] # None /\ Bot(holder[b])' = b /\ task'[holder'[b]].pc \in HolderPcs
    <3>1. holder'[b] = holder[b] /\ task'[holder[b]] # None /\ holder[b] \in Tasks
      BY <2>2
    <3>2. task'[holder[b]] = task[holder[b]] /\ stream'[task[holder[b]].entry].bot = Bot(holder[b])
      BY <1>0, <1>2, <3>1 DEF Bot
    <3>3. Bot(holder[b]) = b /\ task[holder[b]].pc \in HolderPcs
      BY <1>0, <2>1, <3>1 DEF HolderCarries
    <3> QED
      BY <3>1, <3>2, <3>3 DEF Bot
  <2>3. ASSUME holder'[b] = Gone
        PROVE  \E n \in 1..Len(stream) : Carries(n, b, {"refused", "ack"})'
    <3>1. CASE holder[b] = Gone
      BY <1>0, <1>6, <2>1, <3>1 DEF HolderCarries
    <3>2. CASE holder[b] # Gone
      BY <2>3, <3>2
    <3> QED
      BY <3>1, <3>2
  <2> QED
    BY <2>2, <2>3
<1>8. Carried'
  <2> SUFFICES ASSUME NEW b \in Bots, status'[b] = "queued", Relayed(b)'
               PROVE  \E n \in 1..Len(stream) : Carries(n, b, {"ack"})'
    BY <1>0 DEF Carried
  <2>1. status[b] = "queued" /\ Relayed(b)
    BY DEF StatusMoves
  <2> QED
    BY <1>0, <1>6, <2>1 DEF Carried
<1> QED
  BY <1>4, <1>5, <1>7, <1>8

\* .. so does the end of a task, ..
LEMMA CalmEnd ==
  ASSUME CInv, NEW t \in Tasks,
         Ack(t) \/ (CancelTask(t) /\ task' = [task EXCEPT ![t] = None])
  PROVE  Created' /\ TasksAlone' /\ HolderCarries' /\ Carried'
<1>0. /\ TypeOK /\ Created /\ TasksAlone /\ HolderCarries
      /\ task[t] # None /\ UNCHANGED <<enqueued, status, worker, relay>>
      /\ task' = [task EXCEPT ![t] = None]
  BY DEF CInv, Ack, CancelTask, At, TaskUnchanged
<1>1. task'[t] = None /\ \A u \in Tasks : u # t => task'[u] = task[u]
  BY <1>0 DEF TypeOK
<1>2. SameBots
  BY <1>0, TaskKeepsBots DEF TaskStep
<1>3. /\ StatusMoves /\ \A b \in Bots : Relayed(b)' => Relayed(b)
      /\ \A w \in Workers : Hands(w)' = Hands(w) /\ Hands(w) \subseteq Bots
      /\ enqueued' = enqueued /\ enqueued \subseteq Bots
  BY <1>0 DEF StatusMoves, Relayed, Hands, TypeOK
<1>4. CASE Ack(t)
  <2>1. /\ UNCHANGED holder /\ task[t].pc = "ack"
        /\ stream' = [stream EXCEPT ![task[t].entry] = [@ EXCEPT !.state = "acked", !.idle = FALSE]]
    BY <1>4 DEF Ack, At
  <2>2. /\ task[t].entry \in 1..Len(stream)
        /\ \A m \in 1..Len(stream) : m # task[t].entry => stream'[m] = stream[m]
    BY <1>0, <2>1, TaskEntry, MarkedEntry DEF TypeOK
  <2>3. \A n \in 1..Len(stream) : stream'[n].state = "acked" =>
            \/ stream[n].state = "acked"
            \/ \E u \in Tasks : Attends(u, n) /\ task[u].pc = "ack"
    BY <1>0, <2>1, <2>2 DEF Attends
  <2>4. ASSUME NEW u \in Tasks, QueuedTask(u), task'[u] # None
        PROVE  /\ worker'[task[u].worker] = "up"
               /\ stream'[task[u].entry].state = "pending" /\ ~stream'[task[u].entry].idle
    <3>1. task[u].entry \in 1..Len(stream) /\ u # t
      BY <1>0, <1>1, <2>4, TaskEntry DEF QueuedTask
    <3>2. task[u].entry # task[t].entry
      <4>1. task[u].entry = task[t].entry => QueuedTask(t)
        BY <1>0, <2>4 DEF QueuedTask, Bot
      <4> QED
        BY <1>0, <2>4, <3>1, <4>1 DEF TasksAlone
    <3> QED
      BY <1>0, <2>2, <2>4, <3>1, <3>2 DEF TasksAlone
  <2>5. ASSUME NEW b \in Bots, status'[b] = "queued", holder'[b] \in Tasks
        PROVE  holder'[b] = holder[b] /\ task'[holder[b]] # None
    <3>1. holder[b] # t /\ task[holder[b]] # None
      BY <1>0, <2>1, <2>5 DEF HolderCarries, HolderPcs
    <3> QED
      BY <1>1, <2>1, <2>5, <3>1
  <2> QED
    BY <1>0, <1>1, <1>2, <1>3, <2>1, <2>3, <2>4, <2>5, QuietKeeps DEF Created
<1>5. CASE CancelTask(t) /\ ~Ack(t)
  <2>1. UNCHANGED stream /\ worker[task[t].worker] # "up" /\ task[t].entry \in 1..Len(stream)
    BY <1>0, <1>5, TaskEntry DEF CancelTask
  <2>2. status[Bot(t)] # "queued"
    BY <1>0, <2>1 DEF TasksAlone, QueuedTask
  <2>3. \A b \in Bots : holder'[b] = holder[b] \/ (holder[b] = t /\ holder'[b] = Gone)
    BY <1>5 DEF CancelTask, Orphaned
  <2>4. ASSUME NEW b \in Bots, status'[b] = "queued"
        PROVE  /\ holder'[b] = holder[b]
               /\ holder'[b] \in Tasks => task'[holder[b]] # None
    <3>1. holder[b] # t
      BY <1>0, <2>2, <2>4 DEF HolderCarries
    <3>2. holder'[b] = holder[b]
      BY <2>3, <3>1
    <3>3. holder[b] \in Tasks => task[holder[b]] # None
      BY <1>0, <2>4 DEF HolderCarries
    <3> QED
      BY <1>1, <3>1, <3>2, <3>3
  <2>5. \A b \in Bots : status'[b] = "none" => holder'[b] = None
    BY <1>0, <2>3, DispatchConstants DEF Created
  <2>6. \A u \in Tasks : QueuedTask(u) => /\ worker'[task[u].worker] = "up"
                                          /\ stream'[task[u].entry].state = "pending"
                                          /\ ~stream'[task[u].entry].idle
    BY <1>0, <2>1 DEF TasksAlone
  <2> QED
    BY <1>0, <1>1, <1>2, <1>3, <2>1, <2>4, <2>5, <2>6, QuietKeeps DEF Created
<1> QED
  BY <1>4, <1>5

\* .. the steps of a worker's loop that claim nothing, ..
LEMMA CalmLoop ==
  ASSUME CInv, Calm, NEW w \in Workers, WorkerStep(w), ~\E t \in Tasks : Claim(w, t)
  PROVE  Created' /\ TasksAlone' /\ HolderCarries' /\ Carried'
<1>0. /\ TypeOK /\ Created /\ TasksAlone /\ HolderCarries
      /\ UNCHANGED <<enqueued, status, stream>>
      /\ Sigterm(w) \/ MainFails(w) \/ Exit(w) \/ Crash(w) \/ Restart(w)
  BY DEF CInv, WorkerStep, Sigterm, MainFails, Exit, Crash, Restart, WorkerOnly, runs
<1>1. /\ SameBots /\ StatusMoves /\ \A b \in Bots : status'[b] = status[b]
      /\ enqueued' = enqueued /\ enqueued \subseteq Bots
  BY <1>0 DEF SameBots, StatusMoves, TypeOK
<1>2. CASE ~Crash(w)
  <2>1. UNCHANGED <<holder, relay, task>>
    BY <1>0, <1>2 DEF Sigterm, MainFails, Exit, Restart, WorkerOnly, runs
  <2>2. /\ \A b \in Bots : Relayed(b)' => Relayed(b)
        /\ \A v \in Workers : Hands(v)' = Hands(v) /\ Hands(v) \subseteq Bots
    BY <1>0, <2>1 DEF Relayed, Hands, TypeOK
  <2>3. ASSUME NEW u \in Tasks, QueuedTask(u)
        PROVE  /\ worker'[task[u].worker] = "up"
               /\ stream'[task[u].entry].state = "pending" /\ ~stream'[task[u].entry].idle
    <3>1. worker[task[u].worker] = "up" /\ task[u].worker \in Workers
      BY <1>0, <2>3, TaskEntry DEF TasksAlone, QueuedTask
    <3>2. CASE task[u].worker # w
      BY <1>0, <1>2, <2>3, <3>1, <3>2 DEF TasksAlone, Sigterm, MainFails, Exit, Restart, TypeOK
    <3>3. CASE task[u].worker = w
      <4>1. worker'[w] \in {"stopping", "failing"}
        BY <1>0, <1>2, <3>1, <3>3 DEF Sigterm, MainFails, Exit, Restart, TypeOK
      <4> QED
        BY <2>3, <3>1, <3>3, <4>1 DEF Calm, TasksOf, QueuedTask
    <3> QED
      BY <3>2, <3>3
  <2> QED
    BY <1>0, <1>1, <2>1, <2>2, <2>3, QuietKeeps DEF Created, HolderCarries
<1>3. CASE Crash(w)
  <2>1. /\ relay' = [relay EXCEPT ![w] = Idle] /\ worker' = [worker EXCEPT ![w] = "down"]
        /\ task' = [t \in Tasks |-> IF t \in TasksOf(w) THEN None ELSE task[t]]
        /\ holder' = Orphaned(TasksOf(w))
    BY <1>3 DEF Crash
  <2>2. /\ \A b \in Bots : Relayed(b)' => Relayed(b)
        /\ \A v \in Workers : Hands(v)' \subseteq Hands(v) /\ Hands(v) \subseteq Bots
    BY <1>0, <2>1 DEF Relayed, Hands, Idle, TypeOK
  <2>3. \A u \in Tasks : task'[u] # None => /\ task'[u] = task[u] /\ task[u] # None
                                            /\ task[u].worker # w
    BY <2>1 DEF TasksOf
  <2>4. ASSUME NEW u \in Tasks, QueuedTask(u), task'[u] # None
        PROVE  /\ worker'[task[u].worker] = "up"
               /\ stream'[task[u].entry].state = "pending" /\ ~stream'[task[u].entry].idle
    <3>1. task[u].worker \in Workers /\ task[u].worker # w
      BY <1>0, <2>3, <2>4, TaskEntry
    <3> QED
      BY <1>0, <2>1, <2>4, <3>1 DEF TasksAlone, TypeOK
  <2>5. \A b \in Bots : holder'[b] = IF holder[b] \in TasksOf(w) THEN Gone ELSE holder[b]
    BY <2>1 DEF Orphaned
  <2>6. ASSUME NEW b \in Bots, status'[b] = "queued"
        PROVE  /\ holder'[b] \in Tasks => holder'[b] = holder[b] /\ task'[holder[b]] # None
               /\ holder'[b] = Gone =>
                    holder[b] = Gone \/ \E n \in 1..Len(stream) : Carries(n, b, {"refused", "ack"})'
    <3>1. status[b] = "queued"
      BY <1>0, <2>6
    <3>2. ASSUME holder'[b] \in Tasks
          PROVE  holder'[b] = holder[b] /\ task'[holder[b]] # None
      <4>1. holder[b] \notin TasksOf(w) /\ holder'[b] = holder[b]
        BY <2>5, <3>2, DispatchConstants
      <4>2. task[holder[b]] # None
        BY <1>0, <3>1, <3>2, <4>1 DEF HolderCarries
      <4> QED
        BY <2>1, <3>2, <4>1, <4>2
    <3>3. ASSUME holder[b] \in TasksOf(w)
          PROVE  \E n \in 1..Len(stream) : Carries(n, b, {"refused", "ack"})'
      <4> DEFINE h == holder[b]
      <4>1. h \in Tasks /\ h \in TasksOf(w)
        BY <3>3 DEF TasksOf
      <4>2. Bot(h) = b /\ task[h].pc \in HolderPcs /\ task[h] # None
        BY <1>0, <3>1, <4>1 DEF HolderCarries
      <4>3. QueuedTask(h)
        BY <3>1, <4>2 DEF QueuedTask
      <4> HIDE DEF h
      <4>4. Carries(task[h].entry, b, {})
        <5>1. Carries(task[h].entry, Bot(h), {})
          BY <1>0, <4>1, <4>3, TaskCarries
        <5> QED
          BY <4>2, <5>1
      <4>5. PICK n \in 1..Len(stream) : n = task[h].entry
        BY <4>4 DEF Carries
      <4>6. \A u \in Tasks : Attends(u, n) => u = h
        BY <1>0, <4>1, <4>3, <4>5 DEF TasksAlone, Attends, QueuedTask, Bot
      <4>7. \A u \in Tasks : ~Attends(u, n)'
        BY <2>1, <2>3, <4>1, <4>6 DEF Attends
      <4>8. Carries(n, b, {"refused", "ack"})'
        BY <1>0, <4>4, <4>5, <4>7 DEF Carries
      <4> QED
        BY <4>8
    <3> QED
      BY <2>5, <3>2, <3>3
  <2>7. \A b \in Bots : status'[b] = "none" => holder'[b] = None
    BY <1>0, <2>5, DispatchConstants DEF Created, TasksOf
  <2> QED
    BY <1>0, <1>1, <2>2, <2>3, <2>4, <2>6, <2>7, QuietKeeps DEF Created
<1> QED
  BY <1>2, <1>3

\* .. a claim, ..
LEMMA CalmClaim ==
  ASSUME CInv, NEW w \in Workers, NEW t \in Tasks, Claim(w, t)
  PROVE  Created' /\ TasksAlone' /\ HolderCarries' /\ Carried'
<1>0. /\ TypeOK /\ Created /\ TasksAlone /\ HolderCarries /\ Carried
      /\ worker[w] = "up" /\ UNCHANGED <<status, enqueued, job, holder, worker, relay>>
  BY DEF CInv, Claim, runs
<1>1. PICK n \in 1..Len(stream) : Claims(w, t, n)
  BY <1>0, ClaimEffect
<1>2. /\ stream' = [stream EXCEPT ![n] = [@ EXCEPT !.state = "pending", !.idle = FALSE]]
      /\ task' = [task EXCEPT ![t] = [worker |-> w, entry |-> n, pc |-> "claimed"]]
      /\ task[t] = None /\ task'[t] # None
      /\ stream[n].state = "new" \/ (stream[n].state = "pending" /\ stream[n].idle)
  BY <1>1 DEF Claims
<1>3. /\ Len(stream') = Len(stream)
      /\ stream'[n].bot = stream[n].bot /\ stream'[n].state = "pending" /\ stream'[n].idle = FALSE
      /\ \A m \in 1..Len(stream) : m # n => stream'[m] = stream[m]
  BY <1>0, <1>2, MarkedEntry DEF TypeOK
<1>4. /\ \A u \in Tasks : u # t => task'[u] = task[u]
      /\ task'[t].worker = w /\ task'[t].entry = n /\ task'[t].pc = "claimed"
  BY <1>0, <1>2 DEF TypeOK
<1>5. \A u \in Tasks : task[u] # None => /\ u # t /\ task[u].entry \in 1..Len(stream)
                                         /\ stream[task[u].entry].state # "new"
                                         /\ Bot(u)' = Bot(u)
  BY <1>0, <1>2, <1>3, <1>4, TaskEntry DEF Bot
<1>6. \A u \in Tasks : QueuedTask(u) => task[u].entry # n
  BY <1>0, <1>2, <1>5 DEF TasksAlone, QueuedTask
<1>7. \A u \in Tasks : u # t /\ QueuedTask(u)' => QueuedTask(u)
  BY <1>0, <1>4, <1>5 DEF QueuedTask
<1>8. Created'
  BY <1>0, <1>3 DEF Created, Hands
<1>9. TasksAlone'
  <2>1. ASSUME NEW u \in Tasks, QueuedTask(u)'
        PROVE  /\ worker'[task'[u].worker] = "up" /\ task'[u].pc # "release"
               /\ stream'[task'[u].entry].state = "pending" /\ ~stream'[task'[u].entry].idle
    <3>1. CASE u = t
      BY <1>0, <1>3, <1>4, <3>1
    <3>2. CASE u # t
      <4>1. QueuedTask(u) /\ task'[u] = task[u] /\ task[u].entry # n /\ task[u].entry \in 1..Len(stream)
        BY <1>4, <1>5, <1>6, <1>7, <2>1, <3>2 DEF QueuedTask
      <4> QED
        BY <1>0, <1>3, <4>1 DEF TasksAlone
    <3> QED
      BY <3>1, <3>2
  <2>2. ASSUME NEW u \in Tasks, NEW v \in Tasks, QueuedTask(u)', QueuedTask(v)',
               task'[u].entry = task'[v].entry
        PROVE  u = v
    <3>1. \A x \in Tasks : x # t /\ QueuedTask(x)' =>
            QueuedTask(x) /\ task'[x] = task[x] /\ task[x].entry # n
      BY <1>4, <1>6, <1>7
    <3>2. u # t /\ v # t => u = v
      BY <1>0, <2>2, <3>1 DEF TasksAlone
    <3> QED
      BY <1>4, <2>2, <3>1, <3>2
  <2> QED
    BY <2>1, <2>2 DEF TasksAlone
<1>10. ASSUME NEW m \in 1..Len(stream), NEW b \in Bots, NEW L, Carries(m, b, L), "claimed" \notin L
       PROVE  Carries(m, b, L)'
  <2>1. \A u \in Tasks : u # t => (Attends(u, m)' <=> Attends(u, m))
    BY <1>4 DEF Attends
  <2>2. \A u \in Tasks : Attends(u, m)' => task'[u].pc \notin L
    BY <1>4, <1>10, <2>1 DEF Carries, Attends
  <2> QED
    BY <1>3, <1>10, <2>2 DEF Carries
<1>11. HolderCarries'
  <2> SUFFICES ASSUME NEW b \in Bots, status'[b] = "queued"
               PROVE  /\ holder'[b] \in Tasks => /\ task'[holder'[b]] # None /\ Bot(holder[b])' = b
                                                 /\ task'[holder'[b]].pc \in HolderPcs
                      /\ holder'[b] = Gone =>
                           \E m \in 1..Len(stream) : Carries(m, b, {"refused", "ack"})'
    BY <1>3 DEF HolderCarries
  <2>1. ASSUME holder[b] \in Tasks
        PROVE  /\ task'[holder[b]] # None /\ Bot(holder[b])' = b
               /\ task'[holder[b]].pc \in HolderPcs
    <3>1. task[holder[b]] # None /\ Bot(holder[b]) = b /\ task[holder[b]].pc \in HolderPcs
      BY <1>0, <2>1 DEF HolderCarries
    <3>2. stream'[task[holder[b]].entry].bot = stream[task[holder[b]].entry].bot
      BY <1>3, <1>5, <2>1, <3>1
    <3>3. task'[holder[b]] = task[holder[b]]
      BY <1>4, <1>5, <2>1, <3>1
    <3> QED
      BY <1>0, <3>1, <3>2, <3>3 DEF Bot
  <2>2. ASSUME holder[b] = Gone
        PROVE  \E m \in 1..Len(stream) : Carries(m, b, {"refused", "ack"})'
    BY <1>0, <1>10, <2>2 DEF HolderCarries
  <2> QED
    BY <1>0, <2>1, <2>2
<1>12. Carried'
  BY <1>0, <1>3, <1>10 DEF Carried, Relayed
<1> QED
  BY <1>8, <1>9, <1>11, <1>12

\* .. the relay's steps other than an XADD that adds an entry, ..
LEMMA CalmRelay ==
  ASSUME CInv, NEW w \in Workers,
         \/ RelaySelect(w) \/ RelayCommit(w) \/ RelayRollsBack(w)
         \/ \E b \in Bots : RelayFails(w, b) /\ ~RelayAdd(w, b)
  PROVE  Created' /\ TasksAlone' /\ HolderCarries' /\ Carried'
<1>0. /\ TypeOK /\ Created /\ TasksAlone /\ HolderCarries
      /\ UNCHANGED <<status, job, holder, worker, task, stream>>
      /\ enqueued \subseteq Bots /\ \A v \in Workers : Hands(v) \subseteq Bots
  BY DEF CInv, RelaySelect, RelayCommit, RelayRollsBack, RelayFails, RelayUnchanged, TypeOK, Hands
<1>1. SameBots /\ StatusMoves
  BY <1>0 DEF SameBots, StatusMoves
<1>2. ASSUME \A v \in Workers : \A b \in Hands(v)' : b \in Bots /\ status[b] # "none",
             \A b \in enqueued' : b \in Bots /\ status[b] # "none",
             \A b \in Bots : Relayed(b)' => Relayed(b)
      PROVE  Created' /\ TasksAlone' /\ HolderCarries' /\ Carried'
  BY <1>0, <1>1, <1>2, QuietKeeps DEF Created, HolderCarries, TasksAlone
<1>3. CASE RelaySelect(w)
  <2>1. /\ enqueued' = enqueued
        /\ relay' = [relay EXCEPT ![w] = [pc |-> "adding", todo |-> Relayable, added |-> {}]]
    BY <1>3 DEF RelaySelect
  <2>2. /\ relay'[w].todo = Relayable /\ relay'[w].added = {}
        /\ \A v \in Workers : v # w => relay'[v] = relay[v]
    BY <1>0, <2>1 DEF TypeOK
  <2>3. \A b \in Relayable : b \in Bots /\ status[b] # "none"
    BY DEF Relayable
  <2> QED
    BY <1>0, <1>2, <2>1, <2>2, <2>3 DEF Created, Hands, Relayed
<1>4. CASE RelayCommit(w)
  <2>1. enqueued' = enqueued \cup relay[w].added /\ relay' = [relay EXCEPT ![w] = Idle]
    BY <1>4 DEF RelayCommit
  <2>2. /\ relay'[w].todo = {} /\ relay'[w].added = {}
        /\ \A v \in Workers : v # w => relay'[v] = relay[v]
    BY <1>0, <2>1 DEF TypeOK, Idle
  <2> QED
    BY <1>0, <1>2, <2>1, <2>2 DEF Created, Hands, Relayed
<1>5. ASSUME NEW b \in Bots, RelayFails(w, b), ~RelayAdd(w, b)
      PROVE  Created' /\ TasksAlone' /\ HolderCarries' /\ Carried'
  <2>1. enqueued' = enqueued
    BY <1>5 DEF RelayFails
  <2>2. /\ relay'[w].todo = relay[w].todo \ {b} /\ relay'[w].added = relay[w].added
        /\ \A v \in Workers : v # w => relay'[v] = relay[v]
    BY <1>0, <1>5, RelayMoves
  <2> QED
    BY <1>0, <1>2, <2>1, <2>2 DEF Created, Hands, Relayed
<1>6. CASE RelayRollsBack(w)
  <2>1. enqueued' = enqueued /\ relay' = [relay EXCEPT ![w] = Idle]
    BY <1>6 DEF RelayRollsBack
  <2>2. /\ relay'[w].todo = {} /\ relay'[w].added = {}
        /\ \A v \in Workers : v # w => relay'[v] = relay[v]
    BY <1>0, <2>1 DEF TypeOK, Idle
  <2> QED
    BY <1>0, <1>2, <2>1, <2>2 DEF Created, Hands, Relayed
<1> QED
  BY <1>3, <1>4, <1>5, <1>6

\* .. one that does, heard of or not, ..
LEMMA CalmAdd ==
  ASSUME CInv, NEW w \in Workers, NEW b \in Bots, RelayAdd(w, b) \/ RelayUnheard(w, b)
  PROVE  Created' /\ TasksAlone' /\ HolderCarries' /\ Carried'
<1> DEFINE x == [bot |-> b, state |-> "new", idle |-> FALSE]
<1>0. /\ TypeOK /\ Created /\ TasksAlone /\ HolderCarries /\ Carried
      /\ UNCHANGED <<status, job, holder, worker, task, enqueued>>
      /\ b \in relay[w].todo /\ stream' = Append(stream, x)
  BY DEF CInv, RelayAdd, RelayUnheard, RelayUnchanged
<1>1. x \in Entries /\ x.bot = b /\ x.state = "new"
  BY DEF Entries
<1> HIDE DEF x
<1>2. PICK k \in Nat : k = Len(stream)
  BY <1>0, LenProperties DEF TypeOK
<1>3. /\ Len(stream') = k + 1 /\ stream'[k + 1] = x /\ \A n \in 1..k : stream'[n] = stream[n]
      /\ \A n \in 1..(k + 1) : n \in 1..k \/ n = k + 1
      /\ 1..k \subseteq 1..(k + 1) /\ k + 1 \in 1..(k + 1) /\ k + 1 \notin 1..k
  BY <1>0, <1>1, <1>2 DEF TypeOK
<1>4. \A u \in Tasks : task[u] # None => task[u].entry \in 1..k /\ Bot(u)' = Bot(u)
  <2>1. \A u \in Tasks : task[u] # None => task[u].entry \in 1..k
    BY <1>0, <1>2, TaskEntry
  <2> QED
    BY <1>0, <1>3, <2>1 DEF Bot
<1>5. /\ relay'[w].todo = relay[w].todo \ {b}
      /\ relay'[w].added \in {relay[w].added, relay[w].added \cup {b}}
      /\ \A v \in Workers : v # w => relay'[v] = relay[v]
  BY <1>0, RelayMoves
<1>6. \A v \in Workers : Hands(v)' \subseteq Hands(v)
  BY <1>0, <1>5 DEF Hands
<1>7. Created'
  <2>1. status[b] # "none"
    BY <1>0 DEF Created, Hands
  <2>2. \A n \in 1..(k + 1) : status[stream'[n].bot] # "none"
    BY <1>0, <1>1, <1>2, <1>3, <2>1 DEF Created
  <2> QED
    BY <1>0, <1>3, <1>6, <2>2 DEF Created
<1>8. TasksAlone'
  <2>1. \A u \in Tasks : QueuedTask(u)' <=> QueuedTask(u)
    BY <1>0, <1>4 DEF QueuedTask
  <2> QED
    BY <1>0, <1>3, <1>4, <2>1 DEF TasksAlone, QueuedTask
<1>9. ASSUME NEW n \in 1..k, NEW c \in Bots, NEW L, Carries(n, c, L)
      PROVE  Carries(n, c, L)'
  BY <1>0, <1>3, <1>9 DEF Carries, Attends
<1>10. ASSUME NEW L
       PROVE  Carries(k + 1, b, L)'
  BY <1>0, <1>1, <1>3, <1>4 DEF Carries, Attends
<1>11. HolderCarries'
  <2> SUFFICES ASSUME NEW c \in Bots, status'[c] = "queued"
               PROVE  /\ holder'[c] \in Tasks => /\ task'[holder'[c]] # None /\ Bot(holder[c])' = c
                                                 /\ task'[holder'[c]].pc \in HolderPcs
                      /\ holder'[c] = Gone =>
                           \E m \in 1..(k + 1) : Carries(m, c, {"refused", "ack"})'
    BY <1>3 DEF HolderCarries
  <2>1. ASSUME holder[c] \in Tasks
        PROVE  /\ task'[holder[c]] # None /\ Bot(holder[c])' = c
               /\ task'[holder[c]].pc \in HolderPcs
    <3>1. task[holder[c]] # None /\ Bot(holder[c]) = c /\ task[holder[c]].pc \in HolderPcs
      BY <1>0, <2>1 DEF HolderCarries
    <3>2. stream'[task[holder[c]].entry].bot = stream[task[holder[c]].entry].bot
      BY <1>3, <1>4, <2>1, <3>1
    <3> QED
      BY <1>0, <3>1, <3>2 DEF Bot
  <2>2. ASSUME holder[c] = Gone
        PROVE  \E m \in 1..(k + 1) : Carries(m, c, {"refused", "ack"})'
    <3>1. PICK m \in 1..k : Carries(m, c, {"refused", "ack"})
      BY <1>0, <1>2, <2>2 DEF HolderCarries
    <3> QED
      BY <1>3, <1>9, <3>1
  <2> QED
    BY <1>0, <2>1, <2>2
<1>12. Carried'
  <2> SUFFICES ASSUME NEW c \in Bots, status'[c] = "queued", Relayed(c)'
               PROVE  \E n \in 1..(k + 1) : Carries(n, c, {"ack"})'
    BY <1>3 DEF Carried
  <2>1. CASE c = b
    BY <1>3, <1>10, <2>1
  <2>2. CASE c # b
    <3>1. Relayed(c)
      BY <1>0, <1>5, <2>2 DEF Relayed
    <3>2. PICK n \in 1..k : Carries(n, c, {"ack"})
      BY <1>0, <1>2, <3>1 DEF Carried
    <3> QED
      BY <1>3, <1>9, <3>2
  <2> QED
    BY <2>1, <2>2
<1> QED
  BY <1>7, <1>8, <1>11, <1>12

\* .. and what the API, the pods, the sweep and the clock do.
LEMMA CalmWorld ==
  ASSUME CInv, Calm, WorldStep
  PROVE  Created' /\ TasksAlone' /\ HolderCarries' /\ Carried'
<1>0. /\ TypeOK /\ Created /\ TasksAlone /\ HolderCarries /\ Carried
      /\ enqueued \subseteq Bots /\ \A v \in Workers : Hands(v) \subseteq Bots
      /\ UNCHANGED <<enqueued, worker, relay, task>>
      /\ SameBots
  BY WorldKeepsBots DEF CInv, TypeOK, Hands, WorldStep, Create, Cancel, RunStarts, RunEnds, PodFails,
     SweepReservation, Others, GetsIdle, runs
<1>1. /\ \A v \in Workers : Hands(v)' = Hands(v)
      /\ \A b \in Bots : Relayed(b)' <=> Relayed(b)
  BY <1>0 DEF Hands, Relayed
<1>2. ASSUME NEW b \in Bots, Create(b)
      PROVE  Created' /\ TasksAlone' /\ HolderCarries' /\ Carried'
  <2>1. /\ status[b] = "none" /\ UNCHANGED <<holder, stream>>
        /\ \A c \in Bots : status'[c] = IF c = b THEN "queued" ELSE status[c]
    BY <1>0, <1>2 DEF Create, TypeOK
  <2>2. \A u \in Tasks : task[u] # None => /\ Bot(u) \in Bots /\ Bot(u) # b /\ Bot(u)' = Bot(u)
                                           /\ task[u].entry \in 1..Len(stream)
    BY <1>0, <2>1, TaskEntry DEF Created, Bot
  <2>3. \A n \in 1..Len(stream) : stream[n].bot \in Bots
    <3> SUFFICES ASSUME NEW n \in 1..Len(stream) PROVE stream[n].bot \in Bots
      OBVIOUS
    <3>1. stream[n] \in Entries
      BY <1>0, ElementOfSeq DEF TypeOK
    <3> QED
      BY <3>1 DEF Entries
  <2>4. Created'
    BY <1>0, <1>1, <2>1, <2>3 DEF Created
  <2>5. \A u \in Tasks : QueuedTask(u)' <=> QueuedTask(u)
    BY <1>0, <2>1, <2>2 DEF QueuedTask
  <2>6. TasksAlone'
    BY <1>0, <2>1, <2>5 DEF TasksAlone
  <2>7. \A n, c, L : Carries(n, c, L)' <=> Carries(n, c, L)
    BY <1>0, <2>1 DEF Carries, Attends
  <2>8. HolderCarries'
    <3> SUFFICES ASSUME NEW c \in Bots, status'[c] = "queued"
                 PROVE  /\ holder[c] \in Tasks => /\ task[holder[c]] # None /\ Bot(holder[c])' = c
                                                  /\ task[holder[c]].pc \in HolderPcs
                        /\ holder[c] = Gone =>
                             \E n \in 1..Len(stream) : Carries(n, c, {"refused", "ack"})'
      BY <1>0, <2>1 DEF HolderCarries
    <3>1. CASE c = b
      BY <1>0, <2>1, <3>1, DispatchConstants DEF Created
    <3>2. CASE c # b
      <4>1. status[c] = "queued"
        BY <2>1, <3>2
      <4> QED
        BY <1>0, <2>1, <2>7, <4>1 DEF HolderCarries, Bot
    <3> QED
      BY <3>1, <3>2
  <2>9. Carried'
    <3> SUFFICES ASSUME NEW c \in Bots, status'[c] = "queued", Relayed(c)
                 PROVE  \E n \in 1..Len(stream) : Carries(n, c, {"ack"})'
      BY <1>1, <2>1 DEF Carried
    <3>1. c # b
      BY <1>0, <2>1 DEF Created, Relayed, Hands
    <3> QED
      BY <1>0, <2>1, <2>7, <3>1 DEF Carried
  <2> QED
    BY <2>4, <2>6, <2>8, <2>9
<1>3. ASSUME NEW b \in Bots,
             Cancel(b) \/ RunStarts(b) \/ RunEnds(b) \/ PodFails(b) \/ SweepReservation(b)
      PROVE  Created' /\ TasksAlone' /\ HolderCarries' /\ Carried'
  <2>1. UNCHANGED stream /\ StatusMoves
    BY <1>0, <1>3 DEF Cancel, RunStarts, RunEnds, PodFails, SweepReservation, Others, StatusMoves, TypeOK
  <2>2. \A c \in Bots : holder'[c] = holder[c] \/ holder'[c] = None
    BY <1>0, <1>3 DEF Cancel, RunStarts, RunEnds, PodFails, SweepReservation, Others, TypeOK
  <2>3. \A c \in Bots : status'[c] = "none" => holder'[c] = None
    BY <1>0, <2>1, <2>2 DEF Created, StatusMoves
  <2>4. ASSUME NEW c \in Bots, status'[c] = "queued"
        PROVE  /\ holder'[c] \in Tasks => holder'[c] = holder[c] /\ task'[holder[c]] # None
               /\ holder'[c] = Gone => holder[c] = Gone
    <3>1. status[c] = "queued"
      BY <2>1, <2>4 DEF StatusMoves
    <3> QED
      BY <1>0, <2>2, <3>1, DispatchConstants DEF HolderCarries
  <2> QED
    BY <1>0, <1>1, <2>1, <2>3, <2>4, QuietKeeps DEF Created, TasksAlone
<1>4. ASSUME NEW n \in DOMAIN stream, GetsIdle(n)
      PROVE  Created' /\ TasksAlone' /\ HolderCarries' /\ Carried'
  <2>1. UNCHANGED <<status, holder>> /\ stream[n].state = "pending" /\ ~stream[n].idle
    BY <1>4 DEF GetsIdle, runs
  <2>2. n \in 1..Len(stream) /\ stream[n] \in Entries
    BY <1>0, LenProperties, ElementOfSeq DEF TypeOK
  <2>3. [stream[n] EXCEPT !.idle = TRUE] \in Entries
        /\ [stream[n] EXCEPT !.idle = TRUE].state = stream[n].state
        /\ [stream[n] EXCEPT !.idle = TRUE].idle
    BY <2>2 DEF Entries
  <2>4. stream' = [stream EXCEPT ![n] = [stream[n] EXCEPT !.idle = TRUE]]
    BY <1>4 DEF GetsIdle
  <2>5. /\ stream'[n].idle /\ \A m \in 1..Len(stream) : stream'[m].state = stream[m].state
        /\ \A m \in 1..Len(stream) : m # n => stream'[m] = stream[m]
    BY <1>0, <2>2, <2>3, <2>4, WrittenEntry DEF TypeOK
  <2>6. ASSUME NEW u \in Tasks, QueuedTask(u)
        PROVE  /\ worker'[task[u].worker] = "up"
               /\ stream'[task[u].entry].state = "pending" /\ ~stream'[task[u].entry].idle
    <3>1. task[u].entry \in 1..Len(stream) /\ task[u].entry # n
      <4>1. task[u].entry = n => Attended(n) /\ status[stream[n].bot] = "queued"
        BY <2>6 DEF Attended, QueuedTask, Bot
      <4>2. task[u].entry # n
        BY <1>4, <2>1, <2>5, <4>1 DEF Calm
      <4> QED
        BY <1>0, <2>6, <4>2, TaskEntry DEF QueuedTask
    <3> QED
      BY <1>0, <2>5, <2>6, <3>1 DEF TasksAlone
  <2>7. StatusMoves
    BY <2>1 DEF StatusMoves
  <2> QED
    BY <1>0, <1>1, <2>1, <2>5, <2>6, <2>7, QuietKeeps DEF Created, HolderCarries
<1> QED
  BY <1>2, <1>3, <1>4 DEF WorldStep

\* Every calm step keeps CInv.
LEMMA NextCalm == CInv /\ [Next /\ Calm]_vars => CInv'
<1> SUFFICES ASSUME CInv, [Next /\ Calm]_vars PROVE CInv'
  OBVIOUS
<1>1. TypeOK'
  BY NextType DEF CInv
<1> SUFFICES Created' /\ TasksAlone' /\ HolderCarries' /\ Carried'
  BY <1>1 DEF CInv
<1>2. CASE UNCHANGED vars
  <2>1. UNCHANGED <<status, enqueued, job, holder, stream, worker, relay, task, mishaps>>
    BY <1>2 DEF vars, runs
  <2>2. Created' <=> Created
    BY <2>1 DEF Created, Hands
  <2>3. TasksAlone' <=> TasksAlone
    BY <2>1 DEF TasksAlone, QueuedTask, Bot
  <2>4. \A n, b, L : Carries(n, b, L)' <=> Carries(n, b, L)
    BY <2>1 DEF Carries, Attends
  <2>5. HolderCarries' <=> HolderCarries
    BY <2>1, <2>4 DEF HolderCarries, Bot
  <2>6. Carried' <=> Carried
    BY <2>1, <2>4 DEF Carried, Relayed
  <2> QED
    BY <2>2, <2>3, <2>5, <2>6 DEF CInv
<1>3. CASE Next /\ Calm
  <2>1. ASSUME NEW t \in Tasks, TaskStep(t) \/ TaskRaises(t) \/ CancelTask(t)
        PROVE  Created' /\ TasksAlone' /\ HolderCarries' /\ Carried'
    BY <1>3, <2>1, CalmTask, CalmEnd
  <2>2. ASSUME NEW w \in Workers, WorkerStep(w)
        PROVE  Created' /\ TasksAlone' /\ HolderCarries' /\ Carried'
    BY <1>3, <2>2, CalmLoop, CalmClaim
  <2>3. ASSUME NEW w \in Workers, Relays(w) \/ RelayFaults(w)
        PROVE  Created' /\ TasksAlone' /\ HolderCarries' /\ Carried'
    BY <2>3, CalmRelay, CalmAdd DEF Relays, RelayFaults
  <2> QED
    BY <1>3, <2>1, <2>2, <2>3, NextSorted, CalmWorld
<1> QED
  BY <1>2, <1>3

\* On calm days a queued run is on its way: the relay has yet to find it, or there is an
\* entry for it that no worker has acknowledged.
THEOREM OnCalmDays == CalmSpec => []OnItsWay
<1>1. Init => CInv
  <2> SUFFICES ASSUME Init PROVE CInv
    OBVIOUS
  <2>1. TypeOK
    BY InitType
  <2>2. Len(stream) = 0 /\ 1..0 = {}
    BY DEF Init
  <2> QED
    BY <2>1, <2>2 DEF Init, CInv, Created, TasksAlone, HolderCarries, Carried, Hands, Idle, QueuedTask,
       Relayed
<1>2. CInv => OnItsWay
  <2> SUFFICES ASSUME CInv, NEW b \in Bots, status[b] = "queued", b \in enqueued
               PROVE  \E n \in DOMAIN stream : stream[n].bot = b /\ stream[n].state # "acked"
    BY DEF OnItsWay
  <2>1. PICK n \in 1..Len(stream) : Carries(n, b, {"ack"})
    BY DEF CInv, Carried, Relayed
  <2>2. n \in DOMAIN stream
    BY LenProperties DEF CInv, TypeOK
  <2> QED
    BY <2>1, <2>2 DEF Carries
<1> QED
  BY <1>1, <1>2, NextCalm, PTL DEF CalmSpec
=============================================================================
