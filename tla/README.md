# A verification of twin's run orchestration

twin sends a bot into a Google Meet call, records it, transcribes it, writes
notes, and tells subscribers what happened. This directory holds TLA+ models of
the parts in which several processes share state, the TLC configurations that
check them on small instances, and TLAPS proofs of what matters most.

All paths below are relative to the repository; `bots/runner.py` is short for
`src/twin/bots/runner.py`, and likewise for the other packages.

* [1. The system](#1-the-system): components, state, interactions
* [2. What is hard, and what must be true](#2-what-is-hard-and-what-must-be-true)
* [3. The modules](#3-the-modules): which models which code, and how
* [4. The runs](#4-the-runs): what TLC checks, bounds, fairness
* [5. The proofs](#5-the-proofs)
* [6. What the models found](#6-what-the-models-found)
* [7. What is not modelled](#7-what-is-not-modelled)
* [8. Plan](#8-plan)

To check a run: `tlc -config MCRecording.cfg MCRecording.tla`. To check a proof
module: `tlapm Capacity_proofs.tla`.

## 1. The system

Six kinds of process share one PostgreSQL database, one Redis and one object
store. Every Deployment has one replica, but a rolling update runs the old and
the new one side by side, so nothing may assume to be alone.

| process | code | what it does |
|---|---|---|
| API | `main.py`, `api/` | creates, lists, cancels runs; replays and skips deliveries |
| worker | `worker.py`, `bots/queue.py`, `bots/runner.py`, `bots/jobs.py` | relays queued runs to a Redis stream, claims them, reserves capacity, starts a Kubernetes Job per run and watches it, sweeps orphans |
| pod | `bot_run.py`, `bots/runtime.py`, `meet/` | one per run: joins, waits for admission, records, stores, transcribes, summarizes, completes |
| sender | `sender.py`, `webhooks/dispatch.py` | posts the webhook outbox |
| finalizer | `finalizer.py` | restores recordings of failed runs from their checkpoints |
| retention | `retention.py` | nightly: purges recordings that are a month old |

### Components

**Run state machine** (`bots/state.py`, `BotService.advance`). State: the row of
table `bots` (status, stop and failure codes, joined_at, left_at). Operation:
`advance(target)`, which locks the row, checks the transition table, writes the
status and emits the status event in the same transaction. Every other
component changes a status through it. Correct when a run walks the pipeline
queued, joining, joined, recording, processing, completed, may fail anywhere,
and never leaves a final status.

**Run lifecycle in the pod** (`bots/runtime.py`). State: the pod's place in
`attend`, its heartbeat in Redis, the cancel flag it polls. Operations: joining,
the admission wait, the recording loop, stop requests, `_persist_recording`,
`_complete`, `fail_run`. Correct when there is one participant in the meeting, the
row and the pod agree, and each ending leaves a row that makes sense.

**Supervision in the worker** (`bots/runner.py`, `bots/jobs.py`). `execute_run`
reserves one of `max_concurrent_runs` places, starts the Job, watches it, and
fails the run if the Job ended without ending it. `sweep_orphans` fails live
runs whose row is stale and whose heartbeat is gone; `sweep_capacity` releases
places of finished runs. State: `capacity_reservations` and the counter in
`capacity_counters`. Correct when the number of pods stays within the limit, a
place left behind is freed, and a run whose pod died ends.

**Run queue and worker loop** (`bots/queue.py`, `worker.py`). The row with
`dispatch_status = "pending"` is the intent. `relay_queued` copies it to a Redis
stream, `claim` and `reclaim_stale` hand entries to tasks, `run_claim`
acknowledges. Correct when every queued run is executed at last, whichever
worker dies, and is not executed twice at once.

**Run API** (`api/routes/bots.py`, `BotService.create_or_get`). Creation with an
idempotency key and a look for an active run of the meeting, both backed by
unique indexes; the answer is sent before the session commits. Cancellation (in
the queue: ends the run; live: sets a flag in Redis). Correct when a meeting has
one active run and a key one run.

**Webhook outbox** (`webhooks/dispatch.py`, `api/routes/deliveries.py`). State:
`webhook_deliveries` (sequence, status, attempts, lease) and, in Redis, a gate
per stream of bot and subscription. `_store_in_session` writes rows in the
caller's transaction; `run_once` selects, takes the gate, leases, posts, records.
Correct when a receiver hears the events of a stream in order and at least once,
and one stream does not hold up another.

**Recorder and checkpoints** (`meet/recorder.py`, `storage/checkpoints.py`).
State: chunks on the page, the spool file, the checkpoint buffer, the manifest in
the object store and its address in the row. Correct when a normal stop keeps
everything, and a killed pod loses at most one checkpoint.

**Recovery, finalizer, retention** (`fail_run` in `bots/runtime.py`,
`finalizer.py`, `retention.py`). Three processes restore a prefix and write the
same object and the same columns; a fourth deletes them by date. Correct when
what can be restored is, the row describes the stored object, and nothing
fresh is deleted.

**Join flow** (`meet/join_flow.py`). State: the page as Meet shows it, the polls
left, the count of looks that missed the leave control. Operations: opening the
link, the knock, the wait for the host, the wait for the end; a stop request or a
failing look may come anywhere. Correct when a bot that takes itself for admitted
was let in, and one bad look does not end a meeting.

**Live transcription, coverage, notes** (`transcription/`, `notes/`, the end of
`attend`). State: the queue between the recorder's sink and the live stream, the
rows of `transcript_segments`, the status columns. Operations: push, feed, finals,
drain, the batch transcript, the merge, the naming of speakers, the notes with
their attempts. Correct when what was said is in the rows once, under a fitting
name, the statuses tell what happened, and the pod comes to an end.

**Guest pacing** (`GuestPacer` in `worker.py`). State: the next free slot of a
worker process. Operations: reserve, wait, give back. Correct when guests are let
go a gap apart, though slots are given back while others wait.

**Profile lease** (`bots/queue.py`, `execute_run`). State: one Redis key per tenant,
the archive of the signed-in profile, its copy in each pod. Correct when one bot
uses the profile at a time, the archive loses no session, and the lease is
given back.

**Browser, blob storage, clients, HTTP surface, core, schema**: I/O and
plumbing; see section 7.

### Interactions

* API to worker: a row, which the relay turns into a stream entry.
* Worker to pod: a Kubernetes Job; back: the row's status, the heartbeat key,
  the Job's state.
* API to pod: a cancel key in Redis; Kubernetes to pod: SIGTERM.
* Everybody to the sender: outbox rows written together with the status.
* Pod to finalizer and worker: the manifest's address in the row and the chunks.
* Everybody to retention: `recording_expires_at` and the age of objects.

## 2. What is hard, and what must be true

* *Stale reads under a lock.* `session.get(..., with_for_update=True)` and
  `SELECT .. FOR UPDATE` lock the row but, when the session already holds the
  object, leave its attributes as they were first read. Code that reads, then
  locks, then decides, decides on the first read. The models therefore give
  such a transaction two steps, a read and a commit, and the commit uses what the
  read saw. What must survive: no resurrection of final runs, a bounded counter.
* *Two of everything.* Redelivered entries, reclaimed entries, restarted workers
  and deleted Jobs put two tasks and two pods on one run. One participant.
* *Crashes between transactions.* Of the pod (its row stays live, its audio is in
  checkpoints), of a task (its place stays taken, its entry pending), of the
  relay (entry added, row not marked), of the sender (lease held).
* *Late answers.* A POST that outlasts its lease, a put whose caller was
  cancelled but whose thread goes on, a sweep whose list is old.
* *Cancellation.* `Task.cancel` strikes at whichever await the task has come to.
* *Two clocks.* The live stream has a timeline of its own, which runs behind the
  recording once a chunk was dropped; the lease has a TTL, the meeting a longer
  deadline.
* *A page that changes between two looks.* Meet shows the leave control on the
  waiting screen too, and any look may fail.
* *Limits.* Selections with LIMIT that count what cannot be processed.

`PROJECT.json` lists each hazard at its line with the properties that watch it.

## 3. The modules

| module | what it is | code |
|---|---|---|
| `BotStatus` | statuses, transition table | `bots/state.py` |
| `RunLifecycle` | one run: row, pods, tasks, API, sweep | `bots/runtime.py`, `bots/runner.py`, `bots/jobs.py`, `bots/service.py`, `api/routes/bots.py` |
| `Capacity` | reservations and their counter | `bots/runner.py` |
| `Dispatch` | intent, relay, stream, tasks, worker processes | `bots/queue.py`, `worker.py` |
| `OrderedDelivery` | abstract: what a stream promises its receiver | |
| `Outbox` | the outbox and its senders, which implements it | `webhooks/dispatch.py`, `api/routes/deliveries.py` |
| `Recording` | audio from the page to the archive | `meet/recorder.py`, `storage/checkpoints.py`, `bots/runtime.py`, `finalizer.py`, `retention.py` |
| `JoinFlow` | a visit to the meeting page | `meet/join_flow.py` |
| `Transcription` | live stream, batch transcript, merge, names, notes | `bots/runtime.py`, `transcription/`, `notes/`, `bots/service.py` |
| `Attend` | `JoinFlow` and `Transcription` composed, with the run's status | `bots/runtime.py` |
| `RunApi` | requests that create runs | `api/routes/bots.py`, `bots/service.py`, `api/deps.py`, migration 0005 |
| `GuestPacing` | the pacer of a worker process | `worker.py` |
| `ProfileLease` | `RunApi` and `GuestPacing` composed with executions, pods, the lease and the archive | `bots/runner.py`, `bots/queue.py`, `bots/runtime.py`, `worker.py` |
| `MC...` | instances for TLC | |
| `..._proofs` | theorems | |

`RunLifecycle` extends `BotStatus`; `Outbox` instantiates `OrderedDelivery`
under a refinement mapping (`Promise == INSTANCE OrderedDelivery WITH ...`);
`Attend` and `ProfileLease` compose the modules they extend: their actions are
joint steps (`Record` is `BeginWatch /\ StartTranscript`, `Claim` contains
`Reserve`) or steps of one part that leave the other alone. The others meet at
narrow interfaces, and each takes the
others' part as an environment that does everything they can do: `Capacity`
and `Dispatch` know of a run only that it is queued, live or final, and
`Recording` sees one status for all before the recording is stored.

**A step** is one transaction, one Redis command, one request to Kubernetes, to the
object store or to a receiver. Between two steps anything may happen. A
transaction is two steps where it reads before it locks.

### RunLifecycle

`row` is the row's status with the facts the properties need (joined, left, error,
stop code, recording); `events` the status events in commit order; `beat` and
`flag` the heartbeat and the cancel key. `pc` has the place of each Job
incarnation in `attend` and of each worker task in `execute_run` and the watch, and
so tells what an open transaction has concluded; `mem` the error code each hands to
`fail_run` and whether it was told to stop. `JobAdvance` is
`advance` in a session that has just read the row, and `Advanced`,
`FailedUnmapped`, `CommitQuietly` what it writes. `CompleteRead`/`CompleteCommit`,
`FailRead`/`FailCommit`, `CancelGet`/`CancelCommit`, `SweepSelect`/`SweepCommit` are
the transactions that decide on an old read. `_persist_recording` also calls two
operations in one session, but nothing refers to the first object any more when
the second begins, so its read is fresh and it is one step.

Abstracted: `updated_at` (the sweep may choose any live run at any time, which
includes every moment the code chooses); stop codes other than the ones that
change control; "ready", "partial" and "degraded" are all "stored". A deleted Job may
or may not reach its pod in time, so SIGTERM may come or not. The end of a
heartbeat while its pod lives is Redis trouble, or another pod's `clear_beat`.
A `JoinError` of "cancelled" goes to `fail_run` in the code and to the end of a cancelled run
here, with the same effect on the row. `fail_run` may raise as anything else may
(`TaskRaises`). `ProcessRuntime` is `JobRuntime` without the Job and has no module.

### Capacity

`count` is the counter, `holder` the active reservation of each run: a function,
because of the unique index on active reservations (migrations 0007 and 0009).
`seen`, `got` and `picked` hold what open transactions have read. `ReserveRead` is
`session.get` of the counter without a lock, `ReserveCommit` the rest, which writes
what was seen plus one. `SweepSelect` to `SweepCommit` is one transaction that
judges each reservation and holds the lock meanwhile. A crash between transactions
is an execution that takes no more steps.

### Dispatch

`stream` is the consumer group's view: entries new, claimed (with an owner in
`task`), acknowledged, and whether they have been idle for 300 s. `relay` is the
transaction of `relay_queued`, whose row locks (`SKIP LOCKED`) last while it writes to
Redis; an XADD may fail (`RelayFails`) or lose its answer (`RelayUnheard`), and the commit
may fail (`RelayRollsBack`). A task goes through `run_claim` with each early return, exception and
cancellation, and every way out passes through the acknowledgement. Left out: the
cancel flag (set for live runs only); the capacity limit (a task may be refused at
any time, unless its run's reservation is stranded: the sweep frees it before the
task gives up, 300 s + 60 s against 600 s). The batch limits (50 rows, 10 scanned
entries) are not reached by these instances.

### Outbox and OrderedDelivery

`OrderedDelivery` says: events of a stream are emitted, an operator may skip some,
and first receipts come in the order of emission. `Outbox` has the rows of each
stream, the gates and leases, and for each sender its place in `_attempt`: select,
gate, lease, POST, read, commit. A POST has every answer, including one that is
lost. The commit writes the columns that the session changed, as the ORM does
(`Flushed`); one that records a 4xx and fails does so inside the try that guards the POST, and
the answer is recorded again as one to retry (`RecordFails`). The purge selects old rows
without a lock (`PurgeRead`) and deletes them (`PurgeCommit`), after which the count from which
sequences are taken starts again. Time is three environment actions: a lease runs out, a
retry falls due, a row ages (in the order of creation).

### Recording

A chunk is a number, audio is an increasing sequence of them (`Audio`), a manifest a
sequence of audio, each piece after the one before it (`Checkpoints`), a checksum is the
content. That every piece of audio in the system has that form is `TypeOK`: what is
restored from checkpoints of which some failed or overtook each other may have gaps,
but is in order and has no chunk twice.
`rec` is the recorder's memory: the batch taken from the page, the spool, the
buffer, the checkpoint being flushed (chunk, manifest, row) and
`checkpoint_failed`. `Stop` cancels the poll loop at the await it has come to; a put
that is under way may go on in its thread and land later (`late`), or was not begun. `Restorable` is
`restore_prefix`: it stops at the first chunk with a wrong checksum and raises, so
that nothing is restored, when an object is missing. `recovery` has one place for
each process that runs it, the pod's and the worker's `fail_run` and the
finalizer. `purge` is the retention job with the expiry date it read and the keys it
has yet to remove, which it takes in the order of their names (`First`). "recording" stands for every status before the recording is stored;
`finalization_status` and the dry run (which deletes nothing) are left out.

A month passes (`Month`) when the run is final and no attempt of anybody is in hand, for
none takes as long; the finalizer may have left something to recover all the while. After
it the retention job starts whenever it likes (`ReadExpiry`), also while the finalizer is at
work: a job that was killed is started again within seconds (`backoffLimit: 1` in
`deploy/k8s/base/retention-cronjob.yaml`), when nothing says that the finalizer has had its turn. A pod may be killed at any step; failing requests and transactions, false
alarms of the worker and kills of the other processes are counted in `faults`.

### JoinFlow

`at` is the place in `join_meeting`, `wait_admitted` or `wait_meeting_ended`, and each
step is one look at the page, one click or one check of the stop request, so that
the host acts between any two. `page` is what Meet shows, reduced to what the
selectors can tell apart: `LeaveShown` is true of the waiting screen and of the
call, as ADR 0014 says. A look that fails sees nothing (`FindsNot`), which is how
the helpers in the code treat an exception. `left` counts the polls that remain
before a deadline; `misses` is `leave_misses`. `found` remembers the latest look, for
`EndsWhenGone`. Typing, the mouse and overlays change nothing here.

### Transcription and Attend

Time is counted in chunks. `heard` chunks were recorded, `queue` holds those on
their way to the live stream, `live` is the task of `_transcribe_live` (the audio it
has sent, how far the service is, the finals it counts). A segment is an interval
of the timeline of its result, and the batch a set of them, gone through in the order of their
beginnings (`First`); `words` are the chunks whose speech it really is, and
that is what the properties judge by: the code sees only intervals. The service ends a sentence
of the recording in a silence and wherever else it likes, so that several may speak in one
(`Sentences`); the code names it after the `Majority` of its words, and of several after the one
who begins. `Ingest` is
`ingest_segment`, `CoveredByLive` is `_covered_by_live` with its percentage,
`ConfidentSplit` and `Named` are `_confident_split` and `annotate_speakers`. Three faults
matter and have three different ends, as in the code: a failure that
`_transcribe_live` could put down (`live-failed`), one it could not (`raised`, which the
drain raises again), and a drain that takes too long. All of them lose the count of
finals and keep the rows. `record` holds the statuses; each is a transaction of its
own, which may fail (`Raises`) and then ends the run.

Interim results, the protocol of the service, decoding and the text are left out.
The notes are one fact: a long transcript is summarised in parts, which is one
request here.

`Attend` adds the status of the run and joins the two where `attend` does: recording
starts when the wait for admission returns, the stop of the recorder when the wait for
the end returns, an exception of either ends in `FailRun`. Nobody cancels the live stream of a
run that failed: it may store rows until the process ends (`EndProcess`).

### RunApi, GuestPacing, ProfileLease

In `RunApi` a request is three queries, the answer, and the commit that
`get_session` makes after it (`Respond`, then `Commit`). `Insert` waits for a
transaction that holds a clashing row and fails when one is committed, as the unique
indexes do. `row` is the status as committed.

`GuestPacing` has `_next_at`, the slot of each claim and a clock; `gap` is 0 for a
signed-in worker. `Released` gives back only the latest slot, as `release` does.

`ProfileLease` follows each run from its claim to the end of its pod: `task` is the
place in `run_claim`, `execute_run` and `spawn`, with each exception; `pod` that of the
pod in `attend` as far as the profile goes. `lease` names the execution that holds
the key. A lease whose execution was killed, or whose release failed, is `Orphaned`:
only its TTL ends it; so is one whose SET was applied and whose answer was lost
(`AcquireFails`). A claim may also end before it has a slot (`Drop`). `Release` and `Delete` are the two commands of `release_lease`. `mine`
and `stored` are the sessions in a pod's copy and in the archive: a run that used the
profile has added itself. `lapsed` and `blind` record that a lease was given up
before its Job had ended and that an archive could not be fetched; the properties say
what holds until then, and section 6 what happens after.

## 4. The runs

### Runs that pass

| run | instance | question |
|---|---|---|
| `lifecycle` | 1 task, 1 Job incarnation, everything else free | Do the row, its events and the pod stay in step (`RowTracksPod`, `EventsFollowPipeline`, `FinalRowsAreConsistent`), does a final run stay final (`NoResurrection`), does a run that left the queue end (`LiveRunsEnd`)? |
| `lifecycle_two_pods` | 2 tasks, 2 incarnations, no heartbeat and no flag | Is there one participant at most, even when Redis helps nobody (`OneParticipant`)? |
| `capacity` | 3 executions, two of the same run, 1 place | Is the counter bounded (`CounterWithinLimit`), does nothing but a stale read make it drift (`CountsExactly`), is a stranded place freed (`StrandedPlacesFreed`)? |
| `outbox` | 2 senders, 1 stream, 2 events, 2 attempts, 2 mishaps | Do first receipts come in order (`DeliversInOrder`, the refinement), does a late answer undo nothing (`SentStaysSent`)? |
| `outbox_waits` | 1 sender, 1 stream, 3 events, 1 mishap | Do sequences survive the purge (`SequencesFollowEmission`), does every waiting delivery come to something (`WaitingEnds`)? |
| `dispatch` | 2 workers, 2 tasks, 1 run, 2 mishaps | Is a run added once, but for mishaps (`AddedOnce`), always on its way (`OnItsWay`), and out of the queue at last (`QueuedRunsLeave`)? |
| `attend` | 3 chunks, 2 conversations, a queue of 2, 2 bad looks, 1 fault | Was a bot in the call let in (`AdmittedByHost`) and does it stay (`EndsWhenGone`); is what was said in the rows (`NothingSaidIsLost`), once (`NothingReplayed`), under a name from a sentence that shares it (`NamesFromSharedSpeech`); do the statuses say so (`StatusTellsTruth`); does the pod end (`AttendEnds`)? |
| `meetings` | 3 requests, two of them under one key, 1 mishap | One run for a meeting and a key (`OneActivePerMeeting`, `KeyMeansOneRun`), guests apart (`GuestsPaced`), one bot on the profile (`OneBotPerProfile`), no session lost (`SessionsKept`), the lease given back (`LeaseComesFree`)? |
| `recording` | 4 chunks, checkpoints of 2, 2 faults | Does a kill lose a window at most (`KillLosesAWindow`), does the row describe the object (`HashMatchesObject`), is only audio purged that is old by the date in its row (`PurgesOnlyOldAudio`), is what can be recovered recovered (`AudioIsRecovered`)? |

Each passing run also checks the type invariant of its module, except
`lifecycle_two_pods` and `outbox_waits`, whose module another run covers.

### Runs that show a disagreement

`lifecycle_terminal_overwritten`, `capacity_over_admission` and `recording_stop`
each check one sentence of the repository, which the code does not keep; see
section 6.

### Bounds

* *lifecycle*: one task and one Job suffice for what concerns one pod against
  cancel, sweep, `fail_run` and crash: those are all present and unbounded. Two
  Jobs are needed for `OneParticipant`, and the second run has them; without
  Redis no flag stops a pod early and no heartbeat keeps the sweep away, and no entry is
  delivered a third time. `SingleParticipant` proves the same with Redis and for any
  number of both.
* *capacity*: the counter's races need two executions that read the same value
  and one more reservation of the same run to release twice; one place puts every
  admission at the limit.
* *outbox*: order needs two deliveries of one stream; a purge that makes
  sequences start again needs three. Two senders are a rollout. The mishaps
  (a sender's crash, a lease lost under a slow POST, an operator's request) are
  bounded together by `MaxMishaps`; failing POSTs are bounded by `MaxAttempts`
  alone. `Tended` says that operators see to dead deliveries within the month.
* *dispatch*: two workers with a task each, for one run; entries may be
  duplicated and reclaimed. Mishaps are crashes, shutdowns, failing commands,
  failing pods. `Calm` describes days without the losses of section 6: a worker
  is stopped, or loses Redis, when the runs of its tasks have left the queue,
  `fail_run` succeeds, and no run waits in a task for longer than the 300 s after
  which its entry is reclaimed. Crashes are not restricted.
* *recording*: two full checkpoints, so that a later one can fail behind an
  earlier one, or be overtaken by a late put; two faults, so that a recovery
  can fail and a second one take over, or race a third. Kills of the pod are
  not counted.

* *attend*: three chunks hold a silence and two speakers in turn, a sentence of both that goes
  under the name of the majority or, where they say as much, of the first, a sentence that is
  covered and one that is not.
  With a queue of two a chunk can be dropped, and the end of the queue can displace
  one. The thresholds are percentages of segments of at most three chunks, so they are
  given values that such segments fall on both sides of: 40 (25 in the code) for
  the coverage, 30 (15) for the share of a speaker. Two polls of the waiting room and three
  of the meeting include a deadline that passes; two bad looks are what ends a
  meeting; one fault is any one request or transaction of the transcript, at any time.
* *meetings*: two requests clash by key and meeting, the third by the meeting or not
  at all; the third guest makes a slot that is given back while later ones are out.
  A gap of two on a clock that goes to two keeps one guest waiting for good and lets
  another go. One mishap is any one kill, shutdown, expiry or error; since pods
  and entries come again after it, it takes the system through a second execution of a
  run. `ProfileLease_proofs` proves the safety half for any number of each.

`SYMMETRY` is used in the two runs without liveness that have interchangeable
processes. Deadlock checking is off because every instance ends: the run is final,
the events are sent, the chunks emitted, the mishaps used.

### Fairness

Weak fairness only, and only for what the code drives by itself.

* `RunLifecycle`: the steps of a pod and of a `fail_run` (each wait has a timeout:
  joining, admission, the meeting's length); the sweep, once a minute; the
  expiry of a heartbeat that nobody renews. No fairness for crashes, the API,
  the watch.
* `Capacity`: the sweep. No execution need go on.
* `Outbox`: the senders' steps (they poll, a POST has a timeout), and time: leases
  that nobody works under run out, retries fall due. No fairness for operators.
* `Dispatch`: the relay and claim polls, restarts of workers (the Deployment),
  task steps, the start and end of a pod, entries that nobody attends to get idle.
* `Attend`: the steps of the pod's main task together, for each of its waits has a
  deadline. None for the live stream, the service, ffmpeg, the host or the page:
  the visit must end without them.
* `ProfileLease`: the steps of worker tasks and pods together (a Job has
  `activeDeadlineSeconds`). They are finitely many between two mishaps, so that none
  is passed over for good. None for the API, the clock, kills or the TTL.
* `Recording`: the worker's sweep and the finalizer's poll. None for the
  pod, which may hang, nor for retention.

## 5. The proofs

`RunLifecycle_proofs`, for any number of tasks and Job incarnations
(`JobsAndTasks`: the names are distinct):

* `TypeCorrect`: `Spec => []TypeOK`. One lemma per kind of step.
* `SingleParticipant`: `Spec => []OneParticipant`, and `PodTracked`:
  `Spec => []RowTracksPod`. Neither is inductive alone. A pod enters the
  meeting by `advance(JOINING)`, which needs a queued row; that nobody is in the
  meeting then is what `RowTracksPod` says; and that the row does not change
  under a pod's feet needs that nobody else is in the meeting. Together with the
  type invariant they are inductive (`IInv`). The stale commits do no harm, as
  they only write final statuses, and `RowTracksPod` allows those.
* `NeverResurrected`: `Spec => NoResurrection`, from the same invariant: the steps
  that write an active status read the row in the same transaction, the ones that
  decide on an old read write a final one.
* `FinalRows`: `Spec => []FinalRowsAreConsistent`: joined and recording of a completed row, stop
  reason and error of a failed one, left_at. A final row says what its last transaction knew, so `BInv` adds `RowBacked`: the row says as much as the pods have
  done, namely that the bot has joined once a pod is past joining, and that the
  recording is accounted for once a pod completes with one.
* `EventsWalkPipeline`: `Spec => []EventsFollowPipeline`. `EInv` adds that the last event
  is the row's status (`LogWalks`), which is what makes the next step of the log one of
  the table, and that once "completed" was told nobody is in the meeting and the row is
  final for good (`CompletedOnce`), so that no second pod tells it.

`Capacity_proofs`, for any runs, executions and limit (`CapacityConstants`):

* `TypeCorrect`: `Spec => []TypeOK`, for a counter that two executions and the sweep
  decrement.
* `CounterBounded`: `Spec => []CounterWithinLimit`. The invariant adds the type of
  what was seen: an execution reserves only below the limit and writes one more
  than it *saw*, so the bound holds whatever the counter was meanwhile, and the
  number of reservations may still exceed it (`capacity_over_admission`).
* `ExactUnlessStale`: `Spec => CountsExactly`. Step by step, with the cardinality of the
  set of reservations that grows or shrinks by one. It needs that an execution that
  releases has read a reservation (`ReleasesOne`). Steps that rest on an old read, of
  reservations as of releases and sweeps, are excused (`Current`), and do make it drift.

`Dispatch_proofs`, for any runs, workers, tasks, mishaps and attempts
(`DispatchConstants`: `None` is no entry, worker or place):

* `TypeCorrect`: `Spec => []TypeOK`. A task works on an entry that is in the stream and was
  claimed, so that its run is defined.
* `RelayedOnce`: `Spec => []AddedOnce`. `AInv` adds that two relays never hold the same row
  (`RelayExclusive`, which is what SKIP LOCKED gives) and that a row which is neither
  marked nor being added has no more entries than there were mishaps (`AddsCounted`).
* `OnCalmDays`: `CalmSpec => []OnItsWay`, where `CalmSpec` restricts the steps to `Calm` and
  assumes no fairness; crashes are not restricted. `CInv` says who carries a queued run:
  a marked run has an entry that is not acknowledged, nor about to be (`Carried`); the task
  of a queued run is alone with its entry (`TasksAlone`), so that nobody else
  acknowledges it; and a reservation is its own task's, or a dead task's, in which case
  the next task will not be turned away (`HolderCarries`).

`Outbox_proofs`, for any streams, senders, events, attempts and mishaps
(`OutboxConstants`: the API is no sender, `None` no value):

* `TypeCorrect`: `Spec => []TypeOK`, with `AtWork`: whoever writes a row back has read one.
  The columns an answer assigns are a function over some of the columns (`Assigns`), and
  a write merges them into the row as it is now.
* `SequencesInOrder`: `Spec => []SequencesFollowEmission`. The next sequence is one above the
  greatest of the stream, which `GreatestElement` shows to exist; `NInv` adds that only
  emitted events have rows.
* `SentIsNotUndone`: `Spec => SentStaysSent`. A sent row carries no lease (`SentIsFree`), and
  a sender whose lease is gone finds another token in the row. An operator who is acting on
  the row, and a commit that rests on an overtaken read, are excused: these undo it.
* `DeliveryInOrder`: `TendedSpec => DeliversInOrder`, the refinement of `OrderedDelivery`, each
  step mapped to a step of it or to a stutter. `Tended` is needed: the purge of a dead
  delivery lets later events overtake it (section 6). `OInv` has what a step needs to
  know: rows tell what was received and skipped, a row that is gone was one of these
  (`RowsTell`), and what a sender has selected or has in hand comes after nothing that is
  still owed, and what it is about to purge is done with (`SendersFollow`).

`Recording_proofs`, for any number of chunks, size of checkpoint and number of faults
(`RecordingConstants`):

* `TypeCorrect`: `Spec => []TypeOK`. `Ordered` compares what each part holds with what the
  part before it holds (the page after the batch after the spool, the checkpoint being
  flushed after those in the manifest), so that joined pieces are in order. The
  key of a new chunk being one of `Chunk` needs that of k checkpoints the last begins no
  earlier than with chunk k (`CheckpointsBound`).
* `PurgeSparesTheNew`: `Spec => PurgesOnlyOldAudio`. `AgeInv` says that a recording which a row
  offers with an old date is old, and that a purge which has the recording still ahead of it
  read no date of this month, so that the recording is old if the date it read is that of the
  row still. The finalizer may restore a recording at any moment meanwhile: it sets another
  date with the address. The argument rests on the recording being the first of the
  names (`FirstKey`): when the chunks go, the recording is gone or spared.
* `ChecksumIsTheObjects`: `Spec => []HashMatchesObject`. `HashInv` has what the property
  leaves out: before the pod is gone nobody else touches the recording (`Healthy`); then
  all who recover have the same prefix in hand, what is restorable now, and the row has
  its checksum if it has one (`SameInHand`), whoever commits last. A month later only the
  finalizer is left, beside the purge, which may take its prefix away under its hands;
  then there is no object whose checksum could differ.
* `KillCostsAWindow`: `Spec => []KillLosesAWindow`. `Kept` says that the spool is what the
  manifest's chunks make, one after the other, and then the unsaved chunks, of which there
  are no more than a checkpoint has, at each of the three steps of a flush; and
  that without an address in the row there is no manifest, or just the first one. The
  orphan sweep and a false alarm of the worker may work on the run meanwhile
  (`OthersKeep`).

`LibraryLemmas` has what these, `Dispatch_proofs` and `Attend_proofs` need of the community
modules: `Min` and `Max` are elements and bounds of a finite set, what `FlattenSeq` makes of
one more sequence, how sequences end. `FlattenSeq` is a
recursive function; induction over it goes through the least counterexample of a
finite set (`CountingUp`), which needs no theorem with an operator for a parameter.

`ProfileLease_proofs`, first of the pacer alone, for any claims, gap and clock
(`PacingConstants`):

* `PacerSpaces`: `PacingSpec => []GuestsPaced`. The slots that are out being apart is not
  inductive: the next reservation must come after all of them, also once the
  latest was given back. `PacingInv` says that `nextAt` is a gap past each slot that is
  out; `release` keeps it, as it gives back only the slot that `nextAt` came from;

then for any requests, any assignment of meetings and keys and any
number of mishaps (`ApiConstants`, `LeaseConstants`, and `PacingConstants`). `IInv` has
six parts, each kept with the help of those before it:

* `TypeCorrect`: `Spec => []TypeOK`.
* `GuestsAreSpaced`: `Spec => []GuestsPaced`. `StepOfPacing` shows that each step of the
  system is a step of `GuestPacing` or leaves the pacer alone, so `PacingInv` carries over.
* `MeetingsAreSingle` (`OneActivePerMeeting`) and `KeysAreSingle` (`KeyMeansOneRun`), from
  `ApiInv`: rows that are in the table or about to be are pairwise compatible. The rows
  about to be are the point, for two handlers may both have found nothing. An answer
  names a run of its own key, so two answers that name stored runs name one.
* `ProfileIsExclusive` (`OneBotPerProfile`), from `LeaseInv`: until a lease is given up
  early, an execution between its lease and its release has the lease, and a pod that
  is up is watched by such an execution or shut off by an orphaned lease. The second half is
  what a crash of the worker needs: its pod goes on, and nobody else gets in.
* `SessionsSurvive` (`SessionsKept`), from `ProfileInv`: a pod that will store its copy has
  restored all that is stored, since nobody stores in between.

`Attend_proofs`, first of a visit by itself (`JoinSpec`), for any deadlines and any number of
failing looks (`JoinConstants`):

* `VisitTyped`: `JoinSpec => []JoinTypeOK`; polls do not run below zero, because a look
  is taken only in a poll that is not the last (`PollsLeft`).
* `HostAdmits`: `JoinSpec => []AdmittedByHost`. `PageInv` adds that between the look for the
  leave control and the look for the waiting screen the bot is still in the waiting
  room, or was admitted, or refused: hence the exception in the property.
* `TwoMissesEnd`: `JoinSpec => EndsWhenGone`. A count of one means that the latest look
  missed (`MissInv`).
* `PodVisits`: `Spec => JoinSpec`. Every step of the pod is a step of the visit or leaves it
  alone, so these hold of the pod beside any transcript;

then of the pod (`Spec`), also for any conversation, queue, percentage and number of attempts
and faults (`TranscriptConstants`). `TranscriptInv` has eight parts, each kept with the help
of those before it:

* `TypeCorrect`: `Spec => []TypeOK`. The bound of the queue is the point: the end of the
  recording is put into it when it may be full, which is why `stop` first takes one out;
  `QueueInv` says where that end may be and how many chunks are on their way.
* `NamesAreShared`: `Spec => []NamesFromSharedSpeech`. A segment's words are what its interval
  claims only while the stream is in step: as long as no chunk was dropped, the k-th chunk
  that was sent is the k-th of the meeting (`InStep`), also while the process of a run that
  failed still lives. Then a live row's words are the chunks of its interval in which somebody
  speaks (`RowsInv`); a sentence is an interval of speech, named after one of whom nobody says
  more (`BatchInv`), so that one which overlaps the row shares speech with it (`NamesInv`).
* `MergeRepeatsNothing`: `Spec => []NothingReplayed`, and `MergeLosesNothing`:
  `Spec => []NothingSaidIsLost`. `CoveredIsReplayed`, by `RowsInv`: `_covered_by_live` counts
  the chunks of a sentence that intervals cover, and these are the chunks that were said
  live. `ReplayInv` and `LostInv` follow the sentences from the merge to the row.
  When no final was counted the merge leaves nothing out. The second theorem then has nothing
  to show; the first needs that there is no live row either (`StoreInv`), which is why it
  is stated for streams that came to their end: one that failed leaves rows and no count.
* `CompletedRunsTell`: `Spec => []StatusTellsTruth`, from what each column says at each step
  of the finalisation (`RecordInv`, `NotesInv`) and that only a run that has come to its
  end is completed (`StatusInv`).

Only model-checked: every liveness property, and what rests on ENABLED.

## 6. What the models found

Each has a run whose counterexample is the scenario, and an entry in
`PROJECT.json` with the lines.

1. *A final status can be replaced by another.* The sweep selects a processing run,
   the pod completes it and clears its heartbeat, the sweep finds no heartbeat
   and writes "failed" over "completed". `advance` refuses that, on the status the
   session read before. (`lifecycle_terminal_overwritten`)
2. *One run more than the limit.* Two executions read the counter before either
   locks it. (`capacity_over_admission`)
3. *A stop loses chunks.* Cancelling the poll loop drops a batch the page has
   already given up, or the checkpoint being written, and the recording is
   called "ready". (`recording_stop`)

Limits seen while modelling that no run of its own shows. Where a property is stated
for the case without one, it is named.

* The outbox's LIMIT counts what cannot be sent: a dead delivery with the deliveries
  behind it can fill the 50 rows a sender looks at, and streams with higher sequences
  wait until an operator acts.
* A worker that shuts down while a task waits for pacing or capacity acknowledges the
  entry of a run that is still queued; the relay has marked the run and does not look
  again. `Calm` keeps such shutdowns out of `QueuedRunsLeave`.
* When the live stream fails or its drain times out, the rows it stored stay but its
  count is lost: the merge is skipped and the batch rows repeat them, although ADR 0013
  says that covered batch rows are discarded. `NothingReplayed` is stated for streams
  that came to their end. If the batch result is empty as well, the status is "silence"
  though there are rows.
* A chunk that is dropped from a full queue shifts the live timeline for the rest of the
  meeting, so coverage and names are judged against the wrong places.
  `NothingSaidIsLost` and `NamesFromSharedSpeech` are stated for meetings without one.
* A sentence of several speakers goes under the name of the majority, and a live row under that
  of the first sentence which overlaps it: a row that has only the words of the minority bears
  the other's name, as ADR 0003 admits ("leaves sparse turns mislabeled").
* A run that recorded no audio completes with `transcription_status` "pending".
* A host who refuses between the look for the leave control and the look for the
  waiting screen is taken for one who admits; two looks later the visit ends.
  The texts of the end and of the gates are looked for in the whole page.
* The lease is given up while the pod is still in the meeting: when its hour is over
  (a meeting may be longer), when the worker shuts down, when the watch times out or the
  Kubernetes API fails. Two bots may then run on one profile, which `PLAN.md` rules
  out ("The same profile can never run on two bots at once"). `OneBotPerProfile` and
  `SessionsKept` hold until then.
* Redis may apply the SET of a lease and lose its answer: the execution fails outside the try
  that releases, and the profile is locked for the hour.
* A pod that cannot fetch the archive of the profile goes on with an empty one and
  replaces the archive when it leaves.
* A skip and an answer in flight, each of which read the row before the other's commit, overwrite
  each other: a skipped delivery may be pending or dead again, and be sent.
* A task that is refused a place because another execution of the run holds one acknowledges its
  entry; if that other one dies, nothing brings the run back. `Calm` keeps this out of
  `OnItsWay` too.
* The answer of POST /v1/bots precedes the commit: a run that was answered may not
  exist, and a retry under its key creates another one.
* Guests are paced before they wait for capacity, for up to 600 s: two that were let go
  apart may join together. A slot is given back only by a shutdown or a flag, and a
  DELETE of a queued run sets no flag.
* A chunk whose put failed is missing from the manifest and later ones follow
  it. A recording restored from it has a hole and says "partial", like one that
  only ends early. `KillLosesAWindow` shows that `checkpoint_failed` knows of each
  hole while the meeting goes on; no recovery asks it.
* A worker that dies after it has put a prefix and before it has recorded its
  checksum leaves a row that describes another object; `HashMatchesObject` is
  stated for the case without such faults.
* `fail_run` can put a shorter prefix over a whole recording, when the run dies
  in "processing".
* Retention removes the recording before its checkpoints and clears its address in
  between: the finalizer can restore it for another month.
* Retention goes by the expiry dates it read first. A job that was killed after it had cleared the
  address of a recording, and is retried (`backoffLimit: 1`), may read the old date, and then
  remove what the finalizer restored for another month in between; the row offers nothing from
  its mark on. `PurgesOnlyOldAudio` excuses a date that was set after it was read.
* `AudioIsRecovered` says nothing of a run whose recovery fails for a month: retention
  takes the checkpoints.
* If a removal's mark fails, the row keeps an address of nothing until a later
  sweep finds another object of the run.
* The finalizer takes the 20 oldest candidates and keeps those it cannot restore,
  so 20 of them would starve the others.
* The outbox's purge also deletes dead deliveries after 30 days and so lets the
  events behind them go. `PLAN.md` wants the time limit; ADR 0005 and ADR 0006
  say that evidence is no longer erased.

## 7. What is not modelled

* *Browser, humanize, launcher, blob storage, HTTP clients*: each call is
  one step of the module that makes it, with its failure. Of the profile archives only
  which sessions they keep is modelled (`ProfileLease`).
* *HTTP surface, core, signing*: no state shared between requests, but for the commit after
  the answer (`RunApi`).
* *Schema*: constraints that matter (the unique indices) are in the shape of the
  state or in the guard of the insert; migrations are not run.
* *Batches*: the limits of 20 candidates of the finalizer, 50 rows of the relay and the
  sender, 10 scanned entries are not reached by the instances.
* *Words*: segments span whole chunks, each a word, and sentences come without a speaker of their
  own; `split_segments` and the punctuation are one choice or none.
* *Deadlocks of the database*: PostgreSQL aborts one of the transactions; the models
  have one row or one lock.
* *Clocks*: only `GuestPacing` measures time, in units of its own. Elsewhere, where the order of two timeouts matters it
  is a guard with a comment.

## 8. Plan

Written so far, most important first: `BotStatus`, `RunLifecycle`, `Capacity`,
`Outbox` with `OrderedDelivery`, `Dispatch`, `Recording`; `JoinFlow` and `Transcription`
with `Attend`; `RunApi` and `GuestPacing` with `ProfileLease`; the proofs of section 5.

Next, models:

1. *A row that ends before its pod*: `fail_run`, cancel and sweep end a row while its pod
   may still be in the meeting; a new run for the same meeting is then admitted, while
   `PLAN.md` says that two bots never join the same meeting. Composes `RunApi` with the
   heartbeat of `RunLifecycle`.
2. *Finalizer batch*: several candidates against the limit of 20.
3. *Sentences*: `split_segments` and the text of a sentence as pure operators over small inputs,
   against reference definitions.

Next, proofs: every invariant and action property of a passing run is a theorem, except those
the model above would add. Next are lemmas that say how much of a sentence may be missing when
the merge leaves it out, and what holds of a meeting that did drop a chunk.
