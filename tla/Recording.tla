----------------------------- MODULE Recording ------------------------------
(***************************************************************************)
(* The audio of one run, from the page to the archive: the recorder drains *)
(* the page and writes checkpoints (meet/recorder.py,                      *)
(* storage/checkpoints.py), the pod stores the whole recording when the    *)
(* meeting ends (bots/runtime.py), fail_run and the finalizer restore what *)
(* the checkpoints hold (finalizer.py), and the retention job purges what  *)
(* is a month old (retention.py).                                          *)
(*                                                                         *)
(* A step is one call to the page, one request to the object store or one  *)
(* transaction.  Audio is the sequence of chunks the MediaRecorder emits;  *)
(* an object's checksum is its content.  RunLifecycle has the statuses in  *)
(* full: "recording" stands here for every status before the recording is  *)
(* stored.                                                                 *)
(***************************************************************************)
EXTENDS Integers, Sequences, SequencesExt, FiniteSetsExt

CONSTANTS
  CheckpointChunks,  \* CHECKPOINT_CHUNKS: chunks of a checkpoint, the window
  MaxChunks,         \* bound: chunks the page emits
  MaxFaults          \* bound: failing requests and transactions, false alarms, and
                     \* kills of the worker, the finalizer or the retention job

ASSUME RecordingConstants ==
  /\ CheckpointChunks \in Nat \ {0} /\ MaxChunks \in Nat
  /\ MaxFaults \in Nat

VARIABLES
  page,      \* the chunks the page holds, and made, how many it has emitted
  made,
  phase,     \* where the pod is: see Phases
  rec,       \* the recorder's memory and the CheckpointWriter's
             \* chunk loop: batch, spool, buffer; flush of data; failed; chunks and uri
             \* of the manifest; sent, whether the recording was uploaded
  late,      \* a put whose caller was cancelled: its thread goes on (a set, of one or none)
  object,    \* the object store: the content of each key, <<>> if there is none
  row,       \* the row of table bots: the columns of the recording
  recovery,  \* of each recoverer: where it is and the prefix it restored
  purge,     \* the retention job: where it is, the expiry it read, the keys to remove
  aged,      \* the objects, and the expiry date, that are a month old
  faults     \* how many of MaxFaults were used

capture == <<page, made, phase, rec, late>>
vars == <<capture, object, row, recovery, purge, aged, faults>>

\* attend: the poll loop runs; stop drains the page and flushes; the upload and its
\* transaction; completion.  "raised" is fail_run after an exception.
Phases == {"polling", "draining", "flushing", "upload", "store", "complete", "raised", "over"}
Live == {"recording", "processing"}
Recoverers == {"pod", "worker", "finalizer"}

\* The keys under recordings/ in the order of their names: the recording, the chunks, and
\* the manifest, whose content is what the chunks should be.
Whole == 0
Chunk == 1..MaxChunks
Manifest == MaxChunks + 1
Keys == 0..MaxChunks + 1

Before(a, b) == \A x \in Range(a), y \in Range(b) : x < y

\* Chunks of the meeting in their order, none twice; and the checkpoints of a meeting.
Audio == {a \in Seq(1..MaxChunks) : \A i, j \in DOMAIN a : i < j => a[i] < a[j]}
Checkpoints ==
  {m \in Seq(Audio \ {<<>>}) : \A k, l \in DOMAIN m : k < l => Before(m[k], m[l])}

Recorders == [batch : Audio, spool : Audio, buffer : Audio,
              flush : {"none", "chunk", "manifest", "row"}, data : Audio, failed : BOOLEAN,
              chunks : Checkpoints, uri : BOOLEAN, sent : BOOLEAN]
Rows == [status : Live \cup {"completed", "failed"},
         artifact : {"pending", "ready", "partial", "degraded", "no-audio", "expired"},
         uri : BOOLEAN, sha : Audio, manifest : BOOLEAN, expires : BOOLEAN]

\* Wherever audio is, it is in order and none of it twice, also in what was restored from
\* checkpoints that overtook each other.
TypeOK ==
  /\ page \in Audio /\ made \in 0..MaxChunks
  /\ phase \in Phases
  /\ rec \in Recorders /\ (rec.flush # "none") = (rec.data # <<>>)
  /\ \A put \in late : \/ put.key \in Chunk /\ put.data \in Audio
                       \/ put.key = Manifest /\ put.data \in Checkpoints
  /\ DOMAIN object = Keys /\ object[Manifest] \in Checkpoints
  /\ \A k \in Keys \ {Manifest} : object[k] \in Audio
  /\ row \in Rows
  /\ recovery \in [Recoverers -> [pc : {"idle", "restore", "put", "commit", "fail"},
                                  prefix : Audio]]
  /\ \A r \in Recoverers : recovery[r].pc \in {"put", "commit"} => recovery[r].prefix # <<>>
  /\ purge \in [pc : {"idle", "list", "remove", "mark"}, expiry : {"none", "new", "old"},
                todo : SUBSET Keys]
  /\ purge.pc \in {"remove", "mark"} => purge.todo # {}
  /\ aged \subseteq {"whole", "checkpoints", "expiry"}
  /\ faults \in 0..MaxFaults

Init ==
  /\ page = <<>> /\ made = 0
  /\ phase = "polling"
  /\ rec = [batch |-> <<>>, spool |-> <<>>, buffer |-> <<>>, flush |-> "none", data |-> <<>>,
            failed |-> FALSE, chunks |-> <<>>, uri |-> FALSE, sent |-> FALSE]
  /\ late = {}
  /\ object = [k \in Keys |-> <<>>]
  /\ row = [status |-> "recording", artifact |-> "pending", uri |-> FALSE, sha |-> <<>>,
            manifest |-> FALSE, expires |-> FALSE]
  /\ recovery = [r \in Recoverers |-> [pc |-> "idle", prefix |-> <<>>]]
  /\ purge = [pc |-> "idle", expiry |-> "none", todo |-> {}]
  /\ aged = {}
  /\ faults = 0

Works == UNCHANGED faults
Fails == faults < MaxFaults /\ faults' = faults + 1

Put(key, data) == object' = [object EXCEPT ![key] = data]

-----------------------------------------------------------------------------
(* MeetingRecorder and CheckpointWriter                                     *)

Stored == UNCHANGED <<object, row, recovery, purge, aged>>
Running == phase \in {"polling", "draining", "flushing", "raised"}

Emit ==
  /\ phase = "polling" /\ made < MaxChunks
  /\ made' = made + 1 /\ page' = Append(page, made + 1)
  /\ UNCHANGED <<phase, rec, late>> /\ Stored /\ Works

\* _COLLECT_CHUNKS removes the nodes from the page; their content is on its way.
Collect ==
  /\ phase \in {"polling", "draining"} /\ rec.flush = "none" /\ rec.batch = <<>>
  /\ page # <<>>
  /\ rec' = [rec EXCEPT !.batch = page] /\ page' = <<>>
  /\ UNCHANGED <<made, phase, late>> /\ Stored /\ Works

\* The loop of _drain, up to the first chunk that fills the checkpoint.
Write ==
  LET count == Min({Len(rec.batch), CheckpointChunks - Len(rec.buffer)})
      buffer == rec.buffer \o SubSeq(rec.batch, 1, count)
      full == Len(buffer) >= CheckpointChunks
  IN /\ Running /\ rec.flush = "none" /\ rec.batch # <<>>
     /\ rec' = [rec EXCEPT !.batch = SubSeq(rec.batch, count + 1, Len(rec.batch)),
                           !.spool = @ \o SubSeq(rec.batch, 1, count),
                           !.buffer = IF full THEN <<>> ELSE buffer,
                           !.flush = IF full THEN "chunk" ELSE "none",
                           !.data = IF full THEN buffer ELSE <<>>]
     /\ UNCHANGED <<page, made, phase, late>> /\ Stored /\ Works

\* Fault: the failure of a checkpoint leaves no trace.
FlushFailsUnseen == rec' = [rec EXCEPT !.flush = "none", !.data = <<>>]

\* Fault: the checkpoint that failed is kept for the next one.
FlushFailsKeeping == rec' = [rec EXCEPT !.flush = "none", !.failed = TRUE]

\* _flush_checkpoint: its sink failed.
FlushFails ==
  rec' = [rec EXCEPT !.flush = "none", !.data = <<>>, !.failed = TRUE]

\* append: the chunk under its sequence number.
PutChunk ==
  LET key == Len(rec.chunks) + 1
  IN /\ Running /\ rec.flush = "chunk"
     /\ \/ /\ Put(key, rec.data) /\ Works
           /\ rec' = [rec EXCEPT !.chunks = Append(@, rec.data), !.flush = "manifest"]
        \/ FlushFails /\ Fails /\ UNCHANGED object
     /\ UNCHANGED <<page, made, phase, late, row, recovery, purge, aged>>

\* append: the manifest of all chunks so far.
PutManifest ==
  /\ Running /\ rec.flush = "manifest"
  /\ \/ /\ Put(Manifest, rec.chunks) /\ Works
        /\ rec' = [rec EXCEPT !.uri = TRUE, !.flush = "row"]
     \/ FlushFails /\ Fails /\ UNCHANGED object
  /\ UNCHANGED <<page, made, phase, late, row, recovery, purge, aged>>

\* checkpoint_sink: the manifest's address in the row.
CommitManifest ==
  /\ Running /\ rec.flush = "row"
  /\ \/ /\ row' = [row EXCEPT !.manifest = TRUE] /\ Works
        /\ rec' = [rec EXCEPT !.flush = "none", !.data = <<>>]
     \/ FlushFails /\ Fails /\ UNCHANGED row
  /\ UNCHANGED <<page, made, phase, late, object, recovery, purge, aged>>

\* The put that is under way, and what it writes.
Underway ==
  CASE rec.flush = "chunk"    -> {[key |-> Len(rec.chunks) + 1, data |-> rec.data]}
    [] rec.flush = "manifest" -> {[key |-> Manifest, data |-> rec.chunks]}
    [] OTHER                  -> {}

\* stop: the poll loop is cancelled at the await it has come to.  A collected batch, the
\* rest of a batch and the checkpoint being flushed go with it; a put that is in its thread by
\* then does not.
Stop ==
  /\ phase = "polling"
  /\ phase' = "draining"
  /\ rec' = [rec EXCEPT !.batch = <<>>, !.flush = "none", !.data = <<>>]
  /\ late' \in SUBSET Underway
  /\ UNCHANGED <<page, made>> /\ Stored /\ Works

LateLands ==
  /\ \E put \in late : \/ Put(put.key, put.data) /\ Works
                       \/ Fails /\ UNCHANGED object
  /\ late' = {}
  /\ UNCHANGED <<page, made, phase, rec, row, recovery, purge, aged>>

\* stop: the last drain is over, or its call to the page failed; the last flush begins.
LastFlush ==
  /\ phase = "draining" /\ rec.flush = "none" /\ rec.batch = <<>>
  /\ \/ page = <<>> /\ Works
     \/ page # <<>> /\ Fails
  /\ phase' = "flushing"
  /\ rec' = IF rec.buffer = <<>> THEN rec
            ELSE [rec EXCEPT !.buffer = <<>>, !.flush = "chunk", !.data = rec.buffer]
  /\ UNCHANGED <<page, made, late>> /\ Stored

Stopped ==
  /\ phase = "flushing" /\ rec.flush = "none"
  /\ phase' = IF rec.spool = <<>> THEN "store" ELSE "upload"
  /\ UNCHANGED <<page, made, rec, late>> /\ Stored /\ Works

-----------------------------------------------------------------------------
(* The pod stores the recording                                             *)

Others == UNCHANGED <<page, made, late, recovery, purge>>

\* _persist_recording: the upload.
Upload ==
  /\ phase = "upload" /\ phase' = "store"
  /\ \/ /\ Put(Whole, rec.spool) /\ aged' = aged \ {"whole"} /\ Works
        /\ rec' = [rec EXCEPT !.sent = TRUE]
     \/ /\ Fails /\ UNCHANGED <<object, aged>>
        /\ rec' = [rec EXCEPT !.failed = TRUE]
  /\ Others /\ UNCHANGED row

\* Fault: a checksum is recorded once.
RecordedOnce(artifact, uri, sha, manifest) ==
  [row EXCEPT !.artifact = artifact, !.uri = uri, !.manifest = manifest, !.expires = TRUE,
              !.sha = IF @ = <<>> THEN sha ELSE @]

\* store_recording: what the row says of the recording.
Recorded(artifact, uri, sha, manifest) ==
  [row EXCEPT !.artifact = artifact, !.uri = uri, !.sha = sha, !.manifest = manifest,
              !.expires = TRUE]

Raised == phase' = "raised" /\ UNCHANGED <<row, aged>>

\* _persist_recording: its transaction.  advance raises when the run has failed meanwhile.
Store ==
  /\ phase = "store"
  /\ \/ /\ row.status \in Live /\ Works
        /\ \E artifact \in IF rec.failed THEN {"degraded"} ELSE {"ready", "partial"} :
             row' = IF rec.spool = <<>> THEN [row EXCEPT !.status = "processing"]
                    ELSE [Recorded(artifact, rec.sent, rec.spool, rec.uri)
                            EXCEPT !.status = "processing"]
        /\ aged' = IF rec.spool = <<>> THEN aged ELSE aged \ {"expiry"}
        /\ phase' = "complete"
     \/ row.status \notin Live /\ Works /\ Raised
     \/ Fails /\ Raised
  /\ Others /\ UNCHANGED <<rec, object>>

\* _complete
Complete ==
  /\ phase = "complete"
  /\ \/ /\ row.status \in Live /\ Works
        /\ row' = [row EXCEPT !.status = "completed",
                              !.artifact = IF @ = "pending" THEN "no-audio" ELSE @]
        /\ phase' = "over" /\ aged' = aged
     \/ row.status \notin Live /\ Works /\ Raised
  /\ Others /\ UNCHANGED <<rec, object>>

\* The meeting page, the transcription or the notes raise.  The poll loop, if it runs,
\* goes on with the batch it has until the process ends.
Raise ==
  /\ phase \in {"polling", "upload", "complete"}
  /\ Fails /\ Raised /\ Others /\ UNCHANGED <<rec, object>>

Kill ==
  /\ phase # "over" /\ Works
  /\ phase' = "over" /\ late' = {}
  /\ rec' = [rec EXCEPT !.flush = "none", !.data = <<>>]
  /\ recovery' = [recovery EXCEPT !["pod"] = [pc |-> "idle", prefix |-> <<>>]]
  /\ UNCHANGED <<page, made, object, row, purge, aged>>

-----------------------------------------------------------------------------
(* fail_run, in the pod or in the worker, and the finalizer                 *)

\* restore_prefix: the chunks up to the first one whose checksum is wrong.  A chunk or a
\* manifest that is missing raises: nothing is restored.
Restorable ==
  LET manifest == object[Manifest]
      wrong == {k \in DOMAIN manifest : object[k] # manifest[k]}
      prefix == IF wrong = {} THEN manifest ELSE SubSeq(manifest, 1, Min(wrong) - 1)
  IN IF wrong # {} /\ object[Min(wrong)] = <<>> THEN <<>> ELSE FlattenSeq(prefix)

At(r, l) == recovery[r].pc = l
Go(r, l) ==
  recovery' = [recovery EXCEPT
                 ![r] = [pc |-> l, prefix |-> IF l = "commit" THEN @.prefix ELSE <<>>]]
\* Where a recovery that came to nothing goes on.
GiveUp(r) == Go(r, IF r = "finalizer" THEN "idle" ELSE "fail")
Elsewhere == UNCHANGED <<page, made, phase, rec, late, purge>>

\* _recover_checkpoint: its first transaction.
BeginsFailRun(r) == Go(r, IF row.manifest /\ row.status \in Live THEN "restore" ELSE "fail")

PodFailsRun ==
  /\ phase = "raised" /\ At("pod", "idle")
  /\ BeginsFailRun("pod") /\ Elsewhere /\ UNCHANGED <<object, row, aged>> /\ Works

\* The worker fails a live run when its Job is over, or seems to be.
WorkerFailsRun ==
  /\ row.status \in Live /\ At("worker", "idle")
  /\ IF phase = "over" THEN Works ELSE Fails
  /\ BeginsFailRun("worker") /\ Elsewhere /\ UNCHANGED <<object, row, aged>>

\* Fault: only runs of which nothing was recorded.
CandidatePending ==
  row.status = "failed" /\ row.manifest /\ ~row.uri /\ row.artifact = "pending"

\* sweep_orphans ends such a run without a look at its checkpoints.
SweepOrphan ==
  /\ row.status \in Live
  /\ IF phase = "over" THEN Works ELSE Fails
  /\ row' = [row EXCEPT !.status = "failed"]
  /\ Elsewhere /\ UNCHANGED <<object, recovery, aged>>

\* recover_once: its query.
Candidate == row.status = "failed" /\ row.manifest /\ ~row.uri

Select ==
  /\ At("finalizer", "idle") /\ Candidate
  /\ Go("finalizer", "restore") /\ Elsewhere /\ UNCHANGED <<object, row, aged>> /\ Works

Restore(r) ==
  /\ At(r, "restore")
  /\ \/ /\ Restorable # <<>> /\ Works
        /\ recovery' = [recovery EXCEPT ![r] = [pc |-> "put", prefix |-> Restorable]]
     \/ Restorable = <<>> /\ Works /\ GiveUp(r)
     \/ Fails /\ GiveUp(r)
  /\ Elsewhere /\ UNCHANGED <<object, row, aged>>

PutPrefix(r) ==
  /\ At(r, "put")
  /\ \/ /\ Put(Whole, recovery[r].prefix) /\ aged' = aged \ {"whole"} /\ Works
        /\ Go(r, "commit")
     \/ Fails /\ GiveUp(r) /\ UNCHANGED <<object, aged>>
  /\ Elsewhere /\ UNCHANGED row

\* The process of a fail_run that is over: the pod exits, and its threads end first.
Leaves(r) ==
  /\ Go(r, "idle")
  /\ IF r = "pod"
     THEN /\ phase' = "over" /\ \E puts \in SUBSET Underway : late' = late \cup puts
          /\ rec' = [rec EXCEPT !.flush = "none", !.data = <<>>]
     ELSE UNCHANGED <<phase, late, rec>>
  /\ UNCHANGED <<page, made, purge>>

\* _recover_checkpoint: its last transaction, whatever became of the run meanwhile.
CommitPrefix(r) ==
  /\ At(r, "commit") /\ r # "finalizer"
  /\ \/ /\ row' = Recorded("partial", TRUE, recovery[r].prefix, TRUE)
        /\ aged' = aged \ {"expiry"} /\ Works
        /\ Go(r, "fail") /\ Elsewhere
     \/ Fails /\ Leaves(r) /\ UNCHANGED <<row, aged>>
  /\ UNCHANGED object

\* Fault: the recovered recording keeps the expiry date of the one before.
FinalizerCommitOldDate ==
  /\ At("finalizer", "commit")
  /\ Go("finalizer", "idle") /\ Elsewhere /\ UNCHANGED <<object, aged>> /\ Works
  /\ row' = IF ~row.uri /\ row.status = "failed"
            THEN Recorded("partial", TRUE, recovery["finalizer"].prefix, row.manifest) ELSE row

\* recover_once: its last transaction, under the row's lock.
FinalizerCommit ==
  /\ At("finalizer", "commit")
  /\ Go("finalizer", "idle") /\ Elsewhere /\ UNCHANGED object
  /\ \/ /\ ~row.uri /\ row.status = "failed" /\ Works
        /\ row' = Recorded("partial", TRUE, recovery["finalizer"].prefix, row.manifest)
        /\ aged' = aged \ {"expiry"}
     \/ (row.uri \/ row.status # "failed") /\ Works /\ UNCHANGED <<row, aged>>
     \/ Fails /\ UNCHANGED <<row, aged>>

\* fail_run: unless the run has ended, it fails.
MarkFailed(r) ==
  /\ At(r, "fail")
  /\ \/ /\ row' = [row EXCEPT !.status = IF @ \in Live THEN "failed" ELSE @] /\ Works
     \/ Fails /\ UNCHANGED row
  /\ Leaves(r) /\ UNCHANGED <<object, aged>>

KillRecoverer(r) ==
  /\ r # "pod" /\ ~At(r, "idle") /\ Fails
  /\ Go(r, "idle") /\ Elsewhere /\ UNCHANGED <<object, row, aged>>

-----------------------------------------------------------------------------
(* The retention job                                                        *)

Swept == UNCHANGED <<capture, recovery>>

\* A month passes after the run: whatever was stored before is a month old, and no attempt of
\* anybody takes as long.  The finalizer may have failed or stood still all the while.
Month ==
  /\ phase = "over" /\ late = {} /\ purge.pc = "idle"
  /\ \A r \in Recoverers : At(r, "idle")
  /\ row.status \notin Live
  /\ aged # {"whole", "checkpoints", "expiry"}
  /\ aged' = {"whole", "checkpoints", "expiry"}
  /\ Swept /\ UNCHANGED <<object, row, purge>> /\ Works

\* The expiry date of the recording.
ExpiryDate == IF ~row.expires THEN "none" ELSE IF "expiry" \in aged THEN "old" ELSE "new"

\* _run: the expiry dates, a night after the last sweep or at once after one that was killed
\* (backoffLimit).  A sweep when nothing is old removes nothing.
ReadExpiry ==
  /\ purge.pc = "idle" /\ aged # {}
  /\ purge' = [purge EXCEPT !.pc = "list", !.expiry = ExpiryDate]
  /\ Swept /\ UNCHANGED <<object, row, aged>> /\ Works

Expired(key) ==
  CASE purge.expiry = "none" -> (IF key = Whole THEN "whole" ELSE "checkpoints") \in aged
    [] OTHER                 -> purge.expiry = "old"

PurgeTodo(todo) ==
  purge' = IF todo = {} THEN [pc |-> "idle", expiry |-> "none", todo |-> {}]
           ELSE [purge EXCEPT !.pc = "remove", !.todo = todo]

\* sweep: the objects under recordings/, in the order of their names.
List ==
  /\ purge.pc = "list"
  /\ PurgeTodo({k \in Keys : object[k] # <<>> /\ Expired(k)})
  /\ Swept /\ UNCHANGED <<object, row, aged>> /\ Works

First == Min(purge.todo)
Later == purge.todo \ {First}

\* sweep: one object; if that fails, on to the next.
RemoveObject ==
  /\ purge.pc = "remove"
  /\ \/ /\ Put(First, <<>>) /\ purge' = [purge EXCEPT !.pc = "mark"] /\ Works
     \/ Fails /\ PurgeTodo(Later) /\ UNCHANGED object
  /\ Swept /\ UNCHANGED <<row, aged>>

\* mark_expired; if it fails, the sweep ends.
MarkExpired ==
  /\ purge.pc = "mark"
  /\ \/ /\ row' = CASE First = Whole ->
                         [row EXCEPT !.artifact = "expired", !.uri = FALSE]
                    [] First = Manifest -> [row EXCEPT !.manifest = FALSE]
                    [] OTHER -> row
        /\ PurgeTodo(Later) /\ Works
     \/ Fails /\ PurgeTodo({}) /\ UNCHANGED row
  /\ Swept /\ UNCHANGED <<object, aged>>

KillPurge ==
  /\ purge.pc # "idle" /\ Fails
  /\ PurgeTodo({}) /\ Swept /\ UNCHANGED <<object, row, aged>>

-----------------------------------------------------------------------------

Recorder ==
  \/ Emit \/ Collect \/ Write \/ PutChunk \/ PutManifest \/ CommitManifest
  \/ Stop \/ LateLands \/ LastFlush \/ Stopped

Recovers(r) == Restore(r) \/ PutPrefix(r) \/ CommitPrefix(r) \/ MarkFailed(r)
Worker == WorkerFailsRun \/ SweepOrphan \/ Recovers("worker")
Finalizer == Select \/ Recovers("finalizer") \/ FinalizerCommit
Retention == ReadExpiry \/ List \/ RemoveObject \/ MarkExpired

Next ==
  \/ Recorder \/ Upload \/ Store \/ Complete \/ Raise \/ Kill
  \/ PodFailsRun \/ Recovers("pod") \/ Worker \/ Finalizer
  \/ \E r \in Recoverers : KillRecoverer(r)
  \/ Month \/ Retention \/ KillPurge

Spec == Init /\ [][Next]_vars

\* The sweep of the worker and the poll of the finalizer come round for ever.
Fairness == WF_vars(Worker) /\ WF_vars(Finalizer)

FairSpec == Spec /\ Fairness

-----------------------------------------------------------------------------

\* "A hard kill or node loss can lose at most the current checkpoint window when storage
\* is healthy" (ADR 0007): while the meeting goes on, what a recovery would restore is a
\* prefix of what was drained, short of it by no more than a checkpoint.
KillLosesAWindow ==
  phase = "polling" /\ ~rec.failed =>
    LET kept == IF row.manifest THEN Restorable ELSE <<>>
    IN IsPrefix(kept, rec.spool) /\ Len(rec.spool) - Len(kept) <= CheckpointChunks

\* The checksum in the row is that of the stored recording: wherever the pod died, and
\* however fail_run, the orphan sweep and the finalizer then raced, once the run has ended
\* and nobody is between an upload and its transaction, if these did not fail themselves.
HashMatchesObject ==
  /\ faults = 0 /\ row.status \notin Live /\ row.uri /\ object[Whole] # <<>>
  /\ \A r \in Recoverers : ~At(r, "commit")
  => row.sha = object[Whole]

\* "raw audio 30 days, then purge" (PLAN.md), by the date of the recording: retention removes
\* no recording that a run offers and that was stored less than a month ago, unless another
\* date was set since it read this one.
PurgesOnlyOldAudio ==
  [][row.uri /\ object[Whole] # <<>> /\ object'[Whole] = <<>> =>
       "whole" \in aged \/ purge.expiry # ExpiryDate]_vars

\* "finalizer reconstructs checkpoint prefixes after a failed bot Job" (PLAN.md): of a
\* pod that has died, what can be restored becomes the recording of the run, unless a month
\* goes by before.
AudioIsRecovered ==
  phase = "over" /\ late = {} /\ row.status # "completed" /\ row.manifest /\ Restorable # <<>>
    ~> row.uri \/ aged # {}

\* "Normal shutdown flushes browser data before the browser exits" (ADR 0007): the
\* recording that stop returns is all that the page emitted.
StopKeepsAudio ==
  phase \in {"upload", "store"} /\ faults = 0 => rec.spool = [n \in 1..made |-> n]
=============================================================================
