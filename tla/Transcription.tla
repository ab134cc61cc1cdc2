--------------------------- MODULE Transcription ---------------------------
(***************************************************************************)
(* The transcript of one meeting, and its notes: chunks of audio go from   *)
(* the recorder through a queue to a live speech service                   *)
(* (transcription/deepgram.py, decode.py), whose final segments are stored *)
(* while the meeting goes on; afterwards the whole recording is            *)
(* transcribed again and the two results merged (bots/runtime.py), and the *)
(* transcript summarised (notes/summarizer.py).                            *)
(*                                                                         *)
(* Time is counted in chunks: a segment is the interval of chunks it spans *)
(* on the timeline of its result, and `words`, the chunks whose speech it  *)
(* really is.  A step is one transaction, one message of the service or    *)
(* one answer.  The services and ffmpeg are external.                      *)
(***************************************************************************)
EXTENDS Integers, Sequences, FiniteSetsExt

CONSTANTS
  MaxChunks,     \* bound: chunks of a meeting
  QueueLimit,    \* LIVE_STT_QUEUE_LIMIT
  Coverage,      \* BATCH_COVERAGE_THRESHOLD, in percent
  MinShare,      \* SPEAKER_MIN_SHARE, in percent
  Attempts,      \* SUMMARY_ATTEMPTS
  Voices,        \* the conversations: who speaks in each chunk, 0 for nobody
  MaxFaults      \* bound: failures of the services and of transactions

ASSUME TranscriptConstants ==
  /\ MaxChunks \in Nat /\ QueueLimit \in Nat \ {0}
  /\ Coverage \in 1..100 /\ MinShare \in 0..50 /\ Attempts \in Nat \ {0}
  /\ Voices \subseteq [1..MaxChunks -> Nat] /\ MaxFaults \in Nat

VARIABLES
  voice,     \* who speaks in the meeting
  stt,       \* settings: whether there is a transcriber, and one that tells speakers apart
  phase,     \* where the pod is, from the start of the recorder to the end of the notes
  heard,     \* the chunks the recorder has taken
  queue,     \* chunk_queue: Eof ends it
  cut,       \* a chunk was dropped, so that the live timeline runs behind
  live,      \* the task of _transcribe_live: where it is, the audio the service got, how much
             \* of it the service has dealt with; the finals it counts; how it ended
  rows,      \* the rows of table transcript_segments
  batch,     \* what transcribe_recording returned, and the segments still to be stored
  record,    \* columns transcription_status, transcription_error, notes_status; the notes
  faults     \* how many of MaxFaults were used

trVars == <<voice, stt, phase, heard, queue, cut, live, rows, batch, record, faults>>

Eof == 0
Phases == {"idle", "meeting", "drain", "batch", "merge", "store", "annotate", "transcribed",
           "notes", "keep notes", "mark notes", "settled", "raised"}
Running == {"connecting", "streaming", "closing"}
Results == {"none", "done", "live-failed", "live-drain-timeout", "raised"}

Segments == [from : 1..MaxChunks, to : 1..MaxChunks, words : SUBSET (1..MaxChunks), speaker : Nat]
Rows == [seg : Segments, source : {"live", "batch"}]

TranscriptTypeOK ==
  /\ voice \in Voices /\ stt \in {"none", "plain", "diarize"}
  /\ phase \in Phases /\ heard \in 0..MaxChunks /\ cut \in BOOLEAN
  /\ Len(queue) <= QueueLimit /\ \A i \in DOMAIN queue : queue[i] \in 0..MaxChunks
  /\ live.pc \in {"off", "over"} \cup Running /\ live.result \in Results
  /\ \A i \in DOMAIN live.sent : live.sent[i] \in 1..MaxChunks
  /\ live.said \in 0..Len(live.sent) /\ live.finals \in Nat
  /\ rows \subseteq Rows
  /\ batch.all \subseteq Segments /\ batch.todo \subseteq batch.all
  /\ record.transcription \in {"pending", "disabled", "provider-failed", "silence", "ready"}
  /\ record.error \in {"none", "live-failed", "live-drain-timeout", "batch-failed"}
  /\ record.notes \in {"pending", "disabled", "silence", "provider-failed", "ready"}
  /\ record.noted \in BOOLEAN /\ record.tries \in 0..Attempts
  /\ faults \in 0..MaxFaults

TranscriptInit ==
  /\ voice \in Voices /\ stt \in {"none", "plain", "diarize"}
  /\ phase = "idle" /\ heard = 0 /\ queue = <<>> /\ cut = FALSE
  /\ live = [pc |-> "off", sent |-> <<>>, said |-> 0, finals |-> 0, result |-> "none"]
  /\ rows = {} /\ batch = [all |-> {}, todo |-> {}]
  /\ record = [transcription |-> "pending", error |-> "none", notes |-> "pending",
               noted |-> FALSE, tries |-> 0]
  /\ faults = 0

Works == UNCHANGED faults
Fails == faults < MaxFaults /\ faults' = faults + 1

\* The task ends; the count it returns is lost with it unless it is done.
Over(result) ==
  live' = [live EXCEPT !.pc = "over", !.result = result, !.sent = <<>>, !.said = 0,
                       !.finals = IF result = "done" THEN @ ELSE 0]

Setting == UNCHANGED <<voice, stt>>
Audio == UNCHANGED <<heard, queue, cut>>

-----------------------------------------------------------------------------
(* The meeting: the recorder's sink and the live stream                     *)

\* The recorder is started, and the task of the live stream.
StartTranscript ==
  /\ phase = "idle" /\ phase' = "meeting"
  /\ IF stt = "none"
     THEN record' = [record EXCEPT !.transcription = "disabled"] /\ UNCHANGED live
     ELSE live' = [live EXCEPT !.pc = "connecting"] /\ UNCHANGED record
  /\ Setting /\ Audio /\ UNCHANGED <<rows, batch>> /\ Works

\* The poll loop of the recorder runs: until it is stopped, or the process of a visit that
\* raised has ended.
Drained == phase = "meeting" \/ (phase = "raised" /\ live.pc \in Running)

\* Fault: a full queue is not looked for.
HearAlways ==
  /\ Drained /\ heard < MaxChunks
  /\ heard' = heard + 1
  /\ queue' = IF live.pc \in Running THEN Append(queue, heard + 1) ELSE queue
  /\ Setting /\ UNCHANGED <<phase, cut, live, rows, batch, record>> /\ Works

\* push_chunk: nothing for a task that has ended, nor into a full queue.
Hear ==
  /\ Drained /\ heard < MaxChunks
  /\ heard' = heard + 1
  /\ LET taken == live.pc \in Running
         full == Len(queue) = QueueLimit
     IN /\ queue' = IF taken /\ ~full THEN Append(queue, heard + 1) ELSE queue
        /\ cut' = (cut \/ (taken /\ full))
  /\ Setting /\ UNCHANGED <<phase, live, rows, batch, record>> /\ Works

Steady == Setting /\ UNCHANGED <<phase, heard, cut, batch>>

\* _connect, which retries: the decoder asks for audio once there is a socket.
Connect ==
  /\ live.pc = "connecting" /\ live' = [live EXCEPT !.pc = "streaming"]
  /\ Steady /\ UNCHANGED <<queue, rows, record>> /\ Works

\* The next chunk, decoded and sent; the end of the queue closes the stream.
Send ==
  /\ live.pc = "streaming" /\ queue # <<>>
  /\ queue' = Tail(queue)
  /\ live' = IF Head(queue) = Eof THEN [live EXCEPT !.pc = "closing"]
             ELSE [live EXCEPT !.sent = Append(@, Head(queue))]
  /\ Steady /\ UNCHANGED <<rows, record>> /\ Works

\* live_segment: the words of the audio up to the k-th chunk sent, at their places in the
\* audio that was sent.  The stream does not tell speakers apart.
Spoken(k) == {i \in live.said + 1..k : voice[live.sent[i]] # 0}

\* Fault: the segment is placed where its audio was recorded.
LiveSegmentAhead(k) ==
  [from |-> Min({MaxChunks, Min(Spoken(k)) + 1}), to |-> Min({MaxChunks, Max(Spoken(k)) + 1}),
   words |-> {live.sent[i] : i \in Spoken(k)}, speaker |-> 0]

LiveSegment(k) ==
  [from |-> Min(Spoken(k)), to |-> Max(Spoken(k)),
   words |-> {live.sent[i] : i \in Spoken(k)}, speaker |-> 0]

\* ingest_segment: a row for a segment that is not there yet.
Ingest(segment, source) ==
  rows' = IF \E r \in rows : [r.seg EXCEPT !.speaker = 0] = [segment EXCEPT !.speaker = 0]
          THEN rows ELSE rows \cup {[seg |-> segment, source |-> source]}

\* _receive: a final segment of some of the audio; the service may also have missed it.
Final ==
  /\ live.pc \in {"streaming", "closing"}
  /\ \E k \in live.said + 1..Len(live.sent) :
       \/ /\ Spoken(k) # {} /\ Works
          /\ Ingest(LiveSegment(k), "live")
          /\ live' = [live EXCEPT !.said = k, !.finals = @ + 1]
       \/ /\ IF Spoken(k) = {} THEN Works ELSE Fails
          /\ live' = [live EXCEPT !.said = k] /\ UNCHANGED rows
  /\ Steady /\ UNCHANGED <<queue, record>>

\* _stream: the service has dealt with all the audio it got.
StreamEnds ==
  /\ live.pc = "closing" /\ live.said = Len(live.sent)
  /\ Over("done")
  /\ Steady /\ UNCHANGED <<queue, rows, record>> /\ Works

\* A connection that is refused or lost, a decoder or a transaction that fails, a stream that
\* does not end: _transcribe_live puts that down, and what was stored stays.
StreamFails ==
  /\ live.pc \in Running /\ Fails
  /\ \/ /\ record' = [record EXCEPT !.transcription = "provider-failed", !.error = "live-failed"]
        /\ Over("live-failed")
     \/ Over("raised") /\ UNCHANGED record
  /\ Steady /\ UNCHANGED <<queue, rows>>

LiveStream == Connect \/ Send \/ Final \/ StreamEnds \/ StreamFails

-----------------------------------------------------------------------------
(* After the meeting                                                        *)

Step(from, to) == phase = from /\ phase' = to /\ Setting /\ UNCHANGED heard
Quiet == UNCHANGED <<queue, cut, live>>

\* The recorder has stopped.  Room is made for the end of the queue.
StopTranscript ==
  /\ Step("meeting", "drain")
  /\ LET full == Len(queue) = QueueLimit
     IN /\ queue' = Append(IF full THEN Tail(queue) ELSE queue, Eof)
        /\ cut' = (cut \/ (full /\ live.pc \in Running))
  /\ UNCHANGED <<live, rows, batch, record>> /\ Works

\* An exception of the visit: the pod will fail the run; nobody stops its tasks.
AbortTranscript ==
  /\ Step("meeting", "raised") /\ Quiet
  /\ UNCHANGED <<rows, batch, record>> /\ Works

\* The process of a run that failed ends, and its tasks with it.
EndProcess ==
  /\ IF live.pc \in Running THEN Over("raised") ELSE UNCHANGED live
  /\ Steady /\ UNCHANGED <<queue, rows, record>> /\ Works

\* Fault: the pod waits for the stream as long as it takes.
AwaitPatiently == live.pc \notin Running /\ UNCHANGED live

\* The task has ended, or is cancelled after TRANSCRIBE_DRAIN_S.
Await == IF live.pc \in Running THEN Over("live-drain-timeout") ELSE UNCHANGED live

\* _await_transcript: a failure that _transcribe_live could not put down is raised here.
Drain ==
  /\ Await
  /\ IF live.result = "raised" THEN Step("drain", "raised")
     ELSE Step("drain", IF heard = 0 \/ stt = "none" THEN "transcribed" ELSE "batch")
  /\ UNCHANGED <<queue, cut, rows, batch, record>> /\ Works

\* LiveTranscriptionResult
LiveCount == live.finals
LiveError == IF live.result \in {"none", "done"} THEN "none" ELSE live.result

\* _majority_speaker, of a sentence that comes without a speaker: who says most of the words; of
\* several, who begins.
Count(p, words) == Cardinality({w \in words : voice[w] = p})
Majority(words) ==
  LET most == {w \in words : \A v \in words : Count(voice[v], words) <= Count(voice[w], words)}
  IN voice[Min(most)]

\* prerecorded_segments: the sentences of the recording.  The service ends one in a silence, and
\* wherever else it likes: more than one may speak in it.  Each chunk is a word.
Begins(i, breaks) == voice[i] # 0 /\ (i \in breaks \/ i = 1 \/ voice[i - 1] = 0)
LastOf(i, breaks) == Max({k \in i..heard : \A j \in i + 1..k : voice[j] # 0 /\ j \notin breaks})
Sentence(i, breaks) ==
  LET words == i..LastOf(i, breaks)
  IN [from |-> i, to |-> LastOf(i, breaks), words |-> words,
      speaker |-> IF stt = "diarize" THEN Majority(words) ELSE 0]
Sentences(breaks) == {Sentence(i, breaks) : i \in {j \in 1..heard : Begins(j, breaks)}}

\* They are gone through in the order of the audio.
First(segments) == CHOOSE s \in segments : \A t \in segments : s.from <= t.from

\* Fault: silence is what the batch result says, whatever was heard live.
SilentBatch(result) == result = {}

Silent(result) == LiveCount = 0 /\ result = {}

\* _batch_segments: its result, nothing that it could read, or None.
Batch ==
  /\ phase = "batch"
  /\ \E result \in {Sentences(breaks) : breaks \in SUBSET (2..heard)} \cup {{}} :
       /\ IF result = {} /\ Sentences({}) # {} THEN Fails ELSE Works
       /\ batch' = [all |-> result, todo |-> result]
       /\ IF Silent(result)
          THEN /\ Step("batch", "transcribed")
               /\ record' = [record EXCEPT !.transcription = "silence", !.error = LiveError]
          ELSE Step("batch", "merge") /\ UNCHANGED record
  /\ Quiet /\ UNCHANGED rows

BatchFails ==
  /\ Step("batch", "transcribed") /\ Fails
  /\ record' = [record EXCEPT !.transcription = "provider-failed", !.error = "batch-failed"]
  /\ Quiet /\ UNCHANGED <<rows, batch>>

Span(s) == s.from..s.to

\* Fault: any overlap counts.
TouchedByLive(s, stored) == \E r \in stored : Span(s) \cap Span(r.seg) # {}

\* _covered_by_live: the share of a segment that stored rows overlap.
CoveredByLive(s, stored) ==
  LET covered == Span(s) \cap UNION {Span(r.seg) : r \in stored}
  IN 100 * Cardinality(covered) >= Coverage * Cardinality(Span(s))

\* _uncovered_batch_segments, when there are live segments.
Merge ==
  /\ Step("merge", "store")
  /\ batch' = IF LiveCount = 0 THEN batch
              ELSE [batch EXCEPT !.todo = {s \in @ : ~CoveredByLive(s, rows)}]
  /\ Quiet /\ UNCHANGED <<rows, record>> /\ Works

StoreNext ==
  /\ batch.todo # {} /\ Step("store", "store")
  /\ Ingest(First(batch.todo), "batch")
  /\ batch' = [batch EXCEPT !.todo = @ \ {First(@)}]
  /\ Quiet /\ UNCHANGED record /\ Works

MarkReady ==
  /\ batch.todo = {}
  /\ Step("store", IF LiveCount > 0 /\ stt = "diarize" THEN "annotate" ELSE "transcribed")
  /\ record' = [record EXCEPT !.transcription = "ready", !.error = LiveError]
  /\ Quiet /\ UNCHANGED <<rows, batch>> /\ Works

\* _confident_split: no speaker has too small a share of the time.
TimeOf(p) == MapThenSumSet(LAMBDA s : Cardinality(Span(s)), {s \in batch.all : s.speaker = p})
Speakers == {s.speaker : s \in batch.all} \ {0}
ConfidentSplit ==
  /\ Cardinality(Speakers) >= 2
  /\ \A p \in Speakers : 100 * TimeOf(p) >= MinShare * MapThenSumSet(TimeOf, Speakers)

\* Fault: a segment that ends where the row begins names it.
TouchingIt(row) == {s \in batch.all : s.from <= row.seg.to /\ row.seg.from <= s.to + 1}

\* annotate_speakers: the first segment that overlaps a row without a speaker names it.
Overlapping(row) == {s \in batch.all : s.from <= row.seg.to /\ row.seg.from <= s.to}

Named(row) ==
  IF row.seg.speaker # 0 \/ Overlapping(row) = {} THEN row
  ELSE [row EXCEPT !.seg = [@ EXCEPT !.speaker = First(Overlapping(row)).speaker]]

Annotate ==
  /\ Step("annotate", "transcribed")
  /\ rows' = IF ConfidentSplit THEN {Named(r) : r \in rows} ELSE rows
  /\ Quiet /\ UNCHANGED <<batch, record>> /\ Works

-----------------------------------------------------------------------------
(* _summarize                                                               *)

NotesStep(from, to) == Step(from, to) /\ Quiet /\ UNCHANGED <<rows, batch>>
NotesStatus(status) == record' = [record EXCEPT !.notes = status]

\* The recording is stored and the bot has left.
BeginNotes == NotesStep("transcribed", "notes") /\ Works /\ UNCHANGED record

\* No summarizer, or nothing to summarise.
NoNotes ==
  /\ NotesStep("notes", "settled") /\ Works /\ record.tries = 0
  /\ \/ NotesStatus("disabled")
     \/ rows = {} /\ NotesStatus("silence")

\* An attempt: summarize_segments asks once for each part of the transcript.
Summarise ==
  /\ rows # {} /\ record.tries < Attempts
  /\ record' = [record EXCEPT !.tries = @ + 1]
  /\ \/ NotesStep("notes", "keep notes") /\ Works
     \/ NotesStep("notes", "notes") /\ Fails

NotesExhausted ==
  /\ NotesStep("notes", "settled") /\ Works
  /\ record.tries = Attempts /\ NotesStatus("provider-failed")

\* store_notes and, in a transaction of its own, the status.
KeepNotes ==
  /\ NotesStep("keep notes", "mark notes") /\ Works
  /\ record' = [record EXCEPT !.noted = TRUE]

MarkNotes == NotesStep("mark notes", "settled") /\ Works /\ NotesStatus("ready")

\* A transaction fails: the exception ends the run.
Raises ==
  /\ phase \in {"batch", "merge", "store", "annotate", "notes", "keep notes", "mark notes"}
  /\ phase' = "raised" /\ Fails
  /\ Setting /\ Audio /\ UNCHANGED <<live, rows, batch, record>>

Finalise ==
  \/ Drain \/ Batch \/ BatchFails \/ Merge \/ StoreNext \/ MarkReady \/ Annotate
  \/ NoNotes \/ Summarise \/ NotesExhausted \/ KeepNotes \/ MarkNotes \/ Raises
=============================================================================
