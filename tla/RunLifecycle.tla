---------------------------- MODULE RunLifecycle ----------------------------
(***************************************************************************)
(* One bot run from "queued" to a final status, with every party that      *)
(* writes its row in PostgreSQL: the API, the worker tasks that claimed it *)
(* (execute_run, JobRuntime.spawn, fail_run), the Job pods that attend the *)
(* meeting (bot_run._run, attend) and the worker's orphan sweep.           *)
(*                                                                         *)
(* A step is one database transaction, one Redis command or one Kubernetes *)
(* call.  `advance` locks the row with SELECT .. FOR UPDATE, but the ORM   *)
(* does not refresh an object its session already holds, so a session that *)
(* read the run before it calls `advance` (fail_run, _complete, cancel,    *)
(* sweep_orphans) decides on the status it read then and writes over the   *)
(* row as it is now.  Those sessions are two steps here, a read and a      *)
(* commit; the sessions whose first access to the run is `advance` are one *)
(* step on the current row.                                                *)
(***************************************************************************)
EXTENDS BotStatus, Integers, Sequences, FiniteSets

CONSTANTS
  Jobs,    \* the incarnations of the run's Kubernetes Job, at most one of them at a time
  Tasks,   \* the worker tasks (run_claim) that are given an entry of the run
  NoJob    \* no Job object with the run's name exists

ASSUME JobsAndTasks == NoJob \notin Jobs /\ Jobs \cap Tasks = {}

Callers == Jobs \cup Tasks      \* those that call fail_run

VARIABLES
  row,      \* the run's row of table bots
  events,   \* the status_changed intents in the outbox, in commit order
  beat,     \* the heartbeat key bots:hb:<id> exists
  flag,     \* the cancel key bots:cancel:<id> exists
  jobObj,   \* the incarnation the Kubernetes API knows under the run's name
  pc,       \* where each Job pod and each worker task is
  mem,      \* what each of them remembers
  api,      \* a DELETE request has read the run as "queued", or "idle"
  sweep     \* the orphan sweep: "idle", "selected", "probed"

vars == <<row, events, beat, flag, jobObj, pc, mem, api, sweep>>

\* The codes "cancelled" and "shutdown", of a run that was asked to stop, are
\* "stopped" here, all the others are "other".
Codes == {"none", "stopped", "other"}
Rows == [status    : Statuses,
         joined    : BOOLEAN,                            \* joined_at is set
         left      : BOOLEAN,                            \* left_at is set
         error     : BOOLEAN,                            \* error_code is set
         stop      : {"none", "stopped", "failure"},
         recording : {"pending", "stored", "no-audio"},  \* ready, partial, degraded: stored
         manifest  : BOOLEAN]                            \* checkpoint_manifest_uri is set

Memories == [code    : Codes,     \* the error code it hands to fail_run
             sigterm : BOOLEAN,   \* a pod's SHUTDOWN_EVENT
             halt    : BOOLEAN]   \* a pod noticed a stop: END_CANCELLED, a stop reason
Blank == [code |-> "none", sigterm |-> FALSE, halt |-> FALSE]

FailPcs == {"recover", "recovering", "fail", "failing"}  \* inside fail_run
AttendPcs == {"starting", "admission", "admitted", "joined", "recording", "stopping",
              "persist", "summarize", "complete", "completing", "completing-silent"}
JobPcs == {"absent", "exit"} \cup AttendPcs \cup FailPcs
TaskPcs == {"claimed", "check", "admit", "lookup", "create", "watch", "await", "done"}
             \cup FailPcs

\* A pod that made the run "joining" and has not left attend: it is, or is about
\* to be, a participant of the meeting.  A pod that was asked to stop before it
\* was admitted calls fail_run from inside attend (its code is then not "other").
InMeeting(j) == \/ pc[j] \in AttendPcs \ {"starting"}
                \/ pc[j] \in FailPcs /\ mem[j].code # "other"

TypeOK ==
  /\ row \in Rows
  /\ events \in Seq(Statuses)
  /\ beat \in BOOLEAN /\ flag \in BOOLEAN
  /\ jobObj \in Jobs \cup {NoJob}
  /\ pc \in [Callers -> JobPcs \cup TaskPcs]
  /\ \A j \in Jobs : pc[j] \in JobPcs
  /\ \A t \in Tasks : pc[t] \in TaskPcs
  /\ mem \in [Callers -> Memories]
  /\ api \in {"idle", "queued"}
  /\ sweep \in {"idle", "selected", "probed"}

\* create_or_get has committed the row and its first event.
Init ==
  /\ row = [status |-> "queued", joined |-> FALSE, left |-> FALSE, error |-> FALSE,
            stop |-> "none", recording |-> "pending", manifest |-> FALSE]
  /\ events = <<"queued">>
  /\ beat = FALSE /\ flag = FALSE
  /\ jobObj = NoJob
  /\ pc = [c \in Callers |-> IF c \in Jobs THEN "absent" ELSE "claimed"]
  /\ mem = [c \in Callers |-> Blank]
  /\ api = "idle"
  /\ sweep = "idle"

-----------------------------------------------------------------------------
(* BotService.advance: the columns it assigns, on top of the row r.  The   *)
(* event goes into the same transaction, so the row and the log change in  *)
(* the same step.                                                           *)

\* Fault: only a completed run gets its left_at.
AdvancedFailedStays(r, target) ==
  [r EXCEPT !.status = target,
            !.joined = @ \/ target = "joined",
            !.left   = @ \/ target = "completed"]

Advanced(r, target) ==
  [r EXCEPT !.status = target,
            !.joined = @ \/ target = "joined",
            !.left   = @ \/ target \in Terminal,
            !.stop   = IF target = "failed" /\ @ = "none" THEN "failure" ELSE @]

\* Fault: the event of a final status is not stored with it.
CommitQuietly(r) ==
  /\ row' = r
  /\ events' = IF r.status \in Terminal THEN events ELSE Append(events, r.status)

\* Commits r, with its status event.
CommitStatus(r) ==
  /\ row' = r
  /\ events' = Append(events, r.status)

\* Fault: the error code itself becomes the stop reason.
FailedUnmapped(c) == Advanced([row EXCEPT !.error = TRUE, !.stop = c], "failed")

\* The run failed with error code c: what cancel, fail_run and sweep_orphans
\* assign before and through advance.
Failed(c) ==
  Advanced([row EXCEPT !.error = TRUE, !.stop = IF c = "stopped" THEN c ELSE "failure"], "failed")

Go(c, l) == pc' = [pc EXCEPT ![c] = l]

\* _requested_stop_reason
Requested(j) == mem[j].sigterm \/ flag

\* Calls fail_run with error code e; what else the caller knew is of no more use.
Fails(c, e) ==
  /\ Go(c, "recover")
  /\ mem' = [mem EXCEPT ![c] = [Blank EXCEPT !.code = e]]

\* attend raised: its finally block deletes the heartbeat, whoever set it, and
\* the caller reports the error through fail_run.
Raised(j) == Fails(j, "other") /\ beat' = FALSE

\* The process or task is over, and its memory with it.
Ends(c, l) == Go(c, l) /\ mem' = [mem EXCEPT ![c] = Blank]

-----------------------------------------------------------------------------
(* The Job pod: bot_run._run and attend.                                    *)

JobUnchanged == UNCHANGED <<flag, jobObj, api, sweep>>

\* Fault: advance without require_transition.
JobAdvanceUnchecked(j, l, target, m) ==
  /\ pc[j] = l
  /\ CommitStatus(Advanced(row, target)) /\ Go(j, m)
  /\ UNCHANGED <<beat, mem>> /\ JobUnchanged

\* A fresh advance of pod j's own pipeline, from label l to label m.
JobAdvance(j, l, target, m) ==
  /\ pc[j] = l
  /\ IF Advances(row.status, target)
     THEN CommitStatus(Advanced(row, target)) /\ Go(j, m) /\ UNCHANGED <<beat, mem>>
     ELSE Raised(j) /\ UNCHANGED <<row, events>>
  /\ JobUnchanged

\* Fault: the run is not advanced to "recording".
AttendRecordingSkipped(j) ==
  /\ pc[j] = "joined" /\ Go(j, "recording")
  /\ UNCHANGED <<row, events, beat, mem>> /\ JobUnchanged

AttendJoining(j)   == JobAdvance(j, "starting", "joining", "admission")
AttendJoined(j)    == JobAdvance(j, "admitted", "joined", "joined")
AttendRecording(j) == JobAdvance(j, "joined", "recording", "recording")

\* END_CANCELLED
Stopping(j) == Go(j, "stopping") /\ mem' = [mem EXCEPT ![j].halt = TRUE]

\* join_meeting and wait_admitted: the host lets the bot in, or the bot is told
\* to stop.  (A stop that join_meeting notices is raised, not returned, and _run
\* hands it to fail_run: the row ends as it does along END_CANCELLED.)
Admission(j) ==
  /\ pc[j] = "admission"
  /\ \/ Go(j, "admitted") /\ UNCHANGED mem
     \/ Requested(j) /\ Stopping(j)
  /\ UNCHANGED <<row, events, beat>> /\ JobUnchanged

\* checkpoint_sink: a chunk and its manifest are stored and the row names the
\* manifest.  The URI is the same every time, so only the first one writes.
Checkpoint(j) ==
  /\ pc[j] = "recording" /\ ~row.manifest
  /\ row' = [row EXCEPT !.manifest = TRUE]
  /\ UNCHANGED <<events, beat, pc, mem>> /\ JobUnchanged

\* wait_meeting_ended: the meeting is over, the time is up, or the bot is told to stop.
MeetingEnded(j) ==
  /\ pc[j] = "recording"
  /\ \/ Go(j, "persist") /\ UNCHANGED mem
     \/ Requested(j) /\ Stopping(j)
  /\ UNCHANGED <<row, events, beat>> /\ JobUnchanged

\* attend after END_CANCELLED: a bot that never joined fails the run itself.
StopCheck(j) ==
  /\ pc[j] = "stopping"
  /\ IF row.status \in {"joined", "recording"}
     THEN Go(j, "persist") /\ UNCHANGED mem
     ELSE Fails(j, "stopped")
  /\ UNCHANGED <<row, events, beat>> /\ JobUnchanged

\* _persist_recording's store_recording: no audio and nothing to store, or audio;
\* the row may learn of the checkpoint manifest only now.
Recorded ==
  {row} \cup {[row EXCEPT !.recording = "stored", !.manifest = m] : m \in {row.manifest, TRUE}}

\* _persist_recording: store_recording and advance(PROCESSING) in one transaction,
\* rolled back together.
PersistRecording(j) ==
  /\ pc[j] = "persist"
  /\ IF Advances(row.status, "processing")
     THEN /\ \E r \in Recorded : CommitStatus(Advanced(r, "processing"))
          /\ Go(j, "summarize") /\ UNCHANGED <<beat, mem>>
     ELSE Raised(j) /\ UNCHANGED <<row, events>>
  /\ JobUnchanged

\* _summarize returns whatever the provider does; attend then asks for a stop reason.
Summarized(j) ==
  /\ pc[j] = "summarize"
  /\ Go(j, "complete")
  /\ mem' = [mem EXCEPT ![j].halt = @ \/ Requested(j)]
  /\ UNCHANGED <<row, events, beat>> /\ JobUnchanged

\* _complete's session reads the run: the status advance will decide on, and
\* whether there is no recording.  Only a "processing" run passes; "completed"
\* cannot be read here, as no other pod completes the run.
CompleteRead(j) ==
  /\ pc[j] = "complete"
  /\ IF row.status = "processing"
     THEN /\ Go(j, IF row.recording = "pending" THEN "completing-silent" ELSE "completing")
          /\ UNCHANGED <<beat, mem>>
     ELSE Raised(j)
  /\ UNCHANGED <<row, events>> /\ JobUnchanged

\* .. and commits over the row as it is now; attend's finally clears the heartbeat.
CompleteCommit(j) ==
  /\ pc[j] \in {"completing", "completing-silent"}
  /\ LET r == [row EXCEPT !.recording = IF pc[j] = "completing-silent" THEN "no-audio" ELSE @,
                          !.error     = @ \/ mem[j].halt,
                          !.stop      = IF mem[j].halt THEN "stopped" ELSE @]
     IN CommitStatus(Advanced(r, "completed"))
  /\ Ends(j, "exit")
  /\ beat' = FALSE
  /\ JobUnchanged

\* Any await of attend can raise: the browser, the join flow, Redis, the database,
\* those of a fail_run that attend calls itself included.
AttendRaises(j) ==
  /\ pc[j] = "starting" \/ InMeeting(j)
  /\ Raised(j)
  /\ UNCHANGED <<row, events>> /\ JobUnchanged

\* _beat_loop runs from "joining" to the end of attend.
Beat(j) ==
  /\ InMeeting(j) /\ ~beat
  /\ beat' = TRUE
  /\ UNCHANGED <<row, events, pc, mem>> /\ JobUnchanged

\* The pod is killed (out of memory, node loss, activeDeadlineSeconds): no finally runs.
Crash(j) ==
  /\ pc[j] \in AttendPcs \cup FailPcs
  /\ Ends(j, "exit")
  /\ UNCHANGED <<row, events, beat>> /\ JobUnchanged

-----------------------------------------------------------------------------
(* fail_run, called by pods and by worker tasks.                            *)

FailUnchanged == UNCHANGED <<flag, jobObj, api, sweep>>

\* fail_run returns: a task acknowledges its entry, a pod exits; a pod that was
\* still inside attend clears the heartbeat on its way out.
FailReturns(c) ==
  /\ Ends(c, IF c \in Jobs THEN "exit" ELSE "done")
  /\ beat' = (beat /\ ~(c \in Jobs /\ mem[c].code # "other"))

\* _recover_checkpoint: the run has joined and names a manifest, and the blob store
\* gives back a prefix of the recording ..
FailRecoverRead(c) ==
  /\ pc[c] = "recover"
  /\ row.manifest /\ row.status \in {"joined", "recording", "processing"}
  /\ Go(c, "recovering")
  /\ UNCHANGED <<row, events, beat, mem>> /\ FailUnchanged

\* .. which it stores, whatever the run's status is by then.
FailRecoverCommit(c) ==
  /\ pc[c] = "recovering"
  /\ row' = [row EXCEPT !.recording = "stored", !.manifest = TRUE]
  /\ Go(c, "fail")
  /\ UNCHANGED <<events, beat, mem>> /\ FailUnchanged

\* fail_run's own session, after the recovery or without one (nothing to recover,
\* or the blob store failed), reads the run: nothing to do for a final one.
FailRead(c) ==
  /\ pc[c] \in {"recover", "fail"}
  /\ IF row.status \in Terminal
     THEN FailReturns(c)
     ELSE Go(c, "failing") /\ UNCHANGED <<beat, mem>>
  /\ UNCHANGED <<row, events>> /\ FailUnchanged

\* .. and commits "failed" on the strength of that read.
FailCommit(c) ==
  /\ pc[c] = "failing"
  /\ CommitStatus(Failed(mem[c].code))
  /\ FailReturns(c)
  /\ FailUnchanged

-----------------------------------------------------------------------------
(* The worker task: run_claim, execute_run and JobRuntime.spawn.            *)

TaskUnchanged == UNCHANGED <<row, events, beat, flag, api, sweep>>

\* run_claim drops a cancelled entry (it acknowledges it and does nothing else);
\* execute_run, which looks at the flag again, fails the run.
RunClaim(t) ==
  /\ pc[t] = "claimed"
  /\ \/ ~flag /\ Go(t, "check") /\ UNCHANGED mem
     \/ flag /\ Ends(t, "done")
     \/ flag /\ Fails(t, "stopped")
  /\ UNCHANGED jobObj /\ TaskUnchanged

\* execute_run goes on with a queued run only.
CheckQueued(t) ==
  /\ pc[t] = "check"
  /\ Go(t, IF row.status = "queued" THEN "admit" ELSE "done")
  /\ UNCHANGED <<mem, jobObj>> /\ TaskUnchanged

\* Capacity and profile lease (module Capacity): granted; refused while another
\* task holds the run's reservation; refused at capacity or the profile is busy.
Admit(t) ==
  /\ pc[t] = "admit"
  /\ \/ Go(t, "lookup") /\ UNCHANGED mem
     \/ Go(t, "done") /\ UNCHANGED mem
     \/ Fails(t, "other")
  /\ UNCHANGED jobObj /\ TaskUnchanged

\* JobRuntime.spawn adopts the Job it finds ..
LookupJob(t) ==
  /\ pc[t] = "lookup"
  /\ Go(t, IF jobObj = NoJob THEN "create" ELSE "watch")
  /\ UNCHANGED <<mem, jobObj>> /\ TaskUnchanged

\* .. or creates one; Kubernetes refuses a second one of the same name.
CreateJob(t) ==
  /\ pc[t] = "create"
  /\ \/ /\ jobObj = NoJob
        /\ \E j \in Jobs : /\ pc[j] = "absent"
                           /\ jobObj' = j
                           /\ pc' = [pc EXCEPT ![t] = "watch", ![j] = "starting"]
        /\ UNCHANGED mem
     \/ jobObj # NoJob /\ Fails(t, "other") /\ UNCHANGED jobObj
  /\ TaskUnchanged

\* wait_terminal reports the pod's end: the run must be final by then.
WatchFinished(t) ==
  /\ pc[t] = "watch"
  /\ jobObj # NoJob /\ pc[jobObj] = "exit"
  /\ IF row.status \in Terminal THEN Go(t, "done") /\ UNCHANGED mem ELSE Fails(t, "other")
  /\ UNCHANGED jobObj /\ TaskUnchanged

WatchMissing(t) ==
  /\ pc[t] = "watch"
  /\ jobObj = NoJob
  /\ Go(t, "await")
  /\ UNCHANGED <<mem, jobObj>> /\ TaskUnchanged

\* wait_terminal gives up on a pod that still runs and deletes the Job; deletion
\* may fail, and may or may not reach the pod with a SIGTERM.
WatchTimeout(t) ==
  /\ pc[t] = "watch"
  /\ jobObj # NoJob /\ pc[jobObj] # "exit"
  /\ Go(t, "await")
  /\ \/ UNCHANGED <<jobObj, mem>>
     \/ /\ jobObj' = NoJob
        /\ \E s \in BOOLEAN : mem' = [mem EXCEPT ![jobObj].sigterm = @ \/ s]
  /\ TaskUnchanged

\* _wait_for_db_terminal: until the run is final or the grace period is over.
AwaitTerminal(t) ==
  /\ pc[t] = "await"
  /\ IF row.status \in Terminal THEN Go(t, "done") /\ UNCHANGED mem ELSE Fails(t, "other")
  /\ UNCHANGED jobObj /\ TaskUnchanged

\* Any await under run_claim's try can raise (Redis, the database, Kubernetes), that
\* of the cancel flag and those of execute_run's own fail_run included: run_claim
\* reports it.  (Its own call of fail_run may raise too, which ends the task: TaskStops.)
TaskRaises(t) ==
  /\ pc[t] # "done"
  /\ Fails(t, "other")
  /\ UNCHANGED jobObj /\ TaskUnchanged

\* The worker is killed, or is shut down and cancels the task.
TaskStops(t) ==
  /\ pc[t] # "done"
  /\ Ends(t, "done")
  /\ UNCHANGED jobObj /\ TaskUnchanged

\* The entry comes again: the relay added it twice, or a dead worker's entry is
\* reclaimed (module Dispatch).
Redelivered(t) ==
  /\ pc[t] = "done"
  /\ Go(t, "claimed")
  /\ UNCHANGED <<mem, jobObj>> /\ TaskUnchanged

-----------------------------------------------------------------------------
(* The API, the orphan sweep, and the world: Kubernetes, Redis, the clock.  *)

Others == UNCHANGED <<jobObj, pc, mem>>

\* DELETE /bots/{id} reads a queued run ..
CancelGet ==
  /\ api = "idle" /\ row.status = "queued"
  /\ api' = "queued"
  /\ UNCHANGED <<row, events, beat, flag, sweep>> /\ Others

\* .. and cancels it on the strength of that read.
CancelCommit ==
  /\ api = "queued"
  /\ CommitStatus(Failed("stopped"))
  /\ api' = "idle"
  /\ UNCHANGED <<beat, flag, sweep>> /\ Others

\* A DELETE request that read a live run leaves word for the pod, by when the run
\* may have ended.
RequestCancel ==
  /\ row.status # "queued" /\ ~flag
  /\ flag' = TRUE
  /\ UNCHANGED <<row, events, beat, api, sweep>> /\ Others

\* Fault: a run that died while joining is nobody's orphan.
SweepSelectJoined ==
  /\ sweep = "idle"
  /\ row.status \in Live \ {"joining"}
  /\ sweep' = "selected"
  /\ UNCHANGED <<row, events, beat, flag, api>> /\ Others

\* sweep_orphans selects the runs whose updated_at is older than ORPHAN_STALE_S
\* (which a run may be at any time: only some steps of a pod touch its row) ..
SweepSelect ==
  /\ sweep = "idle"
  /\ row.status \in Live
  /\ sweep' = "selected"
  /\ UNCHANGED <<row, events, beat, flag, api>> /\ Others

\* .. skips those with a heartbeat ..
SweepProbe ==
  /\ sweep = "selected"
  /\ sweep' = IF beat THEN "idle" ELSE "probed"
  /\ UNCHANGED <<row, events, beat, flag, api>> /\ Others

\* .. and fails the others on the strength of that select.
SweepCommit ==
  /\ sweep = "probed"
  /\ CommitStatus(Failed("other"))
  /\ sweep' = "idle"
  /\ UNCHANGED <<beat, flag, api>> /\ Others

\* HEARTBEAT_TTL_S pass without a beat: nobody beats, or Redis does not take
\* the beats (the loop logs the error and goes on).
BeatExpires ==
  /\ beat /\ beat' = FALSE
  /\ UNCHANGED <<row, events, flag, api, sweep>> /\ Others

CancelExpires ==
  /\ flag /\ flag' = FALSE
  /\ UNCHANGED <<row, events, beat, api, sweep>> /\ Others

\* A node drain or an eviction asks the pod to stop.
Sigterm(j) ==
  /\ pc[j] \in AttendPcs /\ ~mem[j].sigterm
  /\ mem' = [mem EXCEPT ![j].sigterm = TRUE]
  /\ UNCHANGED <<row, events, beat, flag, jobObj, pc, api, sweep>>

\* ttlSecondsAfterFinished.
JobExpires ==
  /\ jobObj # NoJob /\ pc[jobObj] = "exit"
  /\ jobObj' = NoJob
  /\ UNCHANGED <<row, events, beat, flag, pc, mem, api, sweep>>

-----------------------------------------------------------------------------

JobStep(j) ==
  \/ AttendJoining(j) \/ Admission(j) \/ AttendJoined(j) \/ AttendRecording(j)
  \/ MeetingEnded(j) \/ StopCheck(j) \/ PersistRecording(j) \/ Summarized(j)
  \/ CompleteRead(j) \/ CompleteCommit(j)

FailStep(c) == FailRecoverRead(c) \/ FailRecoverCommit(c) \/ FailRead(c) \/ FailCommit(c)

TaskStep(t) ==
  \/ RunClaim(t) \/ CheckQueued(t) \/ Admit(t) \/ LookupJob(t)
  \/ CreateJob(t) \/ WatchFinished(t) \/ WatchMissing(t) \/ WatchTimeout(t)
  \/ AwaitTerminal(t) \/ TaskRaises(t)

Sweep == SweepSelect \/ SweepProbe \/ SweepCommit

Next ==
  \/ \E j \in Jobs : \/ JobStep(j) \/ Checkpoint(j) \/ AttendRaises(j) \/ Beat(j)
                     \/ Crash(j) \/ Sigterm(j)
  \/ \E c \in Callers : FailStep(c)
  \/ \E t \in Tasks : TaskStep(t) \/ TaskStops(t) \/ Redelivered(t)
  \/ CancelGet \/ CancelCommit \/ RequestCancel
  \/ Sweep
  \/ BeatExpires \/ CancelExpires \/ JobExpires

Spec == Init /\ [][Next]_vars

\* Every wait of a pod is bounded (join and admission timeouts, meeting_max_minutes),
\* the worker sweeps every minute, and a key that nobody renews expires.
Fairness ==
  /\ \A j \in Jobs : WF_vars(JobStep(j) \/ FailStep(j))
  /\ WF_vars(SweepSelect) /\ WF_vars(SweepProbe) /\ WF_vars(SweepCommit)
  /\ WF_vars(BeatExpires /\ \A j \in Jobs : ~InMeeting(j))

FairSpec == Spec /\ Fairness

-----------------------------------------------------------------------------
(* What the lifecycle promises.                                             *)

\* However many tasks and Job incarnations work on the run (redelivered entries,
\* restarted workers, Jobs deleted under a live pod), at most one pod gets past
\* advance(JOINING) and into the meeting.
OneParticipant ==
  \A j, k \in Jobs : InMeeting(j) /\ InMeeting(k) => j = k

\* The statuses the row may show while a pod is at a place in attend.
Expected(l) == CASE l \in {"admission", "admitted"} -> {"joining"}
                 [] l = "joined" -> {"joined"}
                 [] l \in {"recording", "persist"} -> {"recording"}
                 [] l = "stopping" -> {"joining", "recording"}
                 [] l \in FailPcs -> {"joining", "recording"}
                 [] OTHER -> {"processing"}

\* While a pod attends, the row shows the pod's own stage, unless somebody failed
\* the run behind its back: no other writer moves the pipeline.
RowTracksPod ==
  \A j \in Jobs : InMeeting(j) => row.status \in Expected(pc[j]) \cup Terminal

\* A run that is final never becomes active again: the commits that decide on an
\* old read only ever write another final status.
NoResurrection == [][row.status \in Terminal => row'.status \in Terminal]_vars

\* The status events, in commit order, walk the pipeline of state.py to the first
\* final status, then show final statuses only; the receiver's last word is the
\* row's status, and it is told "completed" at most once.
EventsFollowPipeline ==
  /\ events[1] = "queued"
  /\ events[Len(events)] = row.status
  /\ \A i \in 1..(Len(events) - 1) :
       \/ CanTransition(events[i], events[i + 1])
       \/ events[i] \in Terminal /\ events[i + 1] \in Terminal
  /\ Cardinality({i \in DOMAIN events : events[i] = "completed"}) <= 1

\* A completed run was in the meeting and its recording is accounted for; a failed
\* run says why; and left_at is set exactly on final runs.
FinalRowsAreConsistent ==
  /\ row.status = "completed" => row.joined /\ row.recording # "pending"
  /\ row.status = "failed" => row.stop # "none" /\ row.error
  /\ row.left <=> row.status \in Terminal

\* A run that left the queue comes to an end, even if its pod, its worker task or
\* both die: the orphan sweep takes over.
LiveRunsEnd == row.status \in Live ~> row.status \in Terminal

\* advance: "terminal bot .. cannot transition" (service.py, advance).
TerminalIsFinal == [][row.status \in Terminal => row'.status = row.status]_vars
=============================================================================
