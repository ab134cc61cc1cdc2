------------------------------- MODULE Attend -------------------------------
(***************************************************************************)
(* attend in the pod (bots/runtime.py): the visit to the meeting page      *)
(* (JoinFlow) and the transcript of what is said there (Transcription),    *)
(* with the status of the run.  The recording itself is in Recording, and  *)
(* what other processes do to the run in RunLifecycle.                     *)
(***************************************************************************)
EXTENDS JoinFlow, Transcription

VARIABLE status   \* the run's status, as this pod moves it

attendVars == <<joinVars, trVars, status>>

TypeOK ==
  /\ JoinTypeOK /\ TranscriptTypeOK
  /\ status \in {"joining", "recording", "processing", "completed", "failed"}

Init == JoinInit /\ TranscriptInit /\ status = "joining"

OnThePage == UNCHANGED <<trVars, status>>
OffThePage == UNCHANGED joinVars

\* wait_admitted has returned: JOINED and RECORDING, the recorder, the live stream.
Record ==
  /\ BeginWatch /\ StartTranscript
  /\ status' = "recording"

Look == (at = "admitted" => at' = "ended") /\ Visit /\ OnThePage

\* Remote audio is heard in the call.
Listen == page = "in" /\ Hear /\ OffThePage /\ UNCHANGED status

Transcribe == LiveStream /\ OffThePage /\ UNCHANGED status

\* wait_meeting_ended has returned; or it raised.
StopRecording ==
  /\ at = "ended"
  /\ IF outcome \in {"meeting-ended", "cancelled"} THEN StopTranscript ELSE AbortTranscript
  /\ OffThePage /\ UNCHANGED status

Finish == Finalise /\ OffThePage /\ UNCHANGED status

\* _persist_recording, then leave_meeting.
Persist ==
  /\ BeginNotes /\ status' = "processing"
  /\ OffThePage

\* _complete
Complete ==
  /\ phase = "settled" /\ status = "processing" /\ status' = "completed"
  /\ OffThePage /\ UNCHANGED trVars

\* fail_run: the visit did not come to the call, or an exception ended it.  Then the process
\* ends.
FailRun ==
  /\ \/ at = "ended" /\ phase = "idle"
     \/ phase = "raised"
  /\ status # "failed" /\ status' = "failed"
  /\ EndProcess /\ OffThePage

Pod == Look \/ Record \/ StopRecording \/ Finish \/ Persist \/ Complete \/ FailRun

\* What Meet shows, and who asks for a stop, once the visit is over changes nothing here.
Surroundings == at # "ended" /\ (Host \/ StopRequested) /\ OnThePage

Next ==
  \/ Surroundings
  \/ Listen \/ Transcribe \/ Pod

Spec == Init /\ [][Next]_attendVars

\* The pod's main task goes on: every wait of its own has a deadline.  Nothing is assumed of
\* the host, the page, the audio, the speech service or ffmpeg.
FairSpec == Spec /\ WF_attendVars(Pod)

-----------------------------------------------------------------------------

\* Every visit ends, whatever the host does and whether or not the live stream ever ends.
AttendEnds == <>(status \in {"completed", "failed"})

\* Of a batch segment, whether its speech is in the rows of one source: all its chunks, or
\* the share the code asks of a covered one.
LiveChunks == UNION {r.seg.words : r \in {q \in rows : q.source = "live"}}
SaidLive(s) == LiveChunks \cap s.words
Replayed(s) == 100 * Cardinality(SaidLive(s)) >= Coverage * Cardinality(s.words)

\* "Batch rows that are at least a quarter covered by the existing live timeline are discarded
\* during finalization" (ADR 0013): when the live stream came to its end and no chunk was
\* dropped, no row of the batch repeats what the live rows have.
NothingReplayed ==
  live.result = "done" /\ ~cut =>
    \A r \in rows : r.source = "batch" => ~Replayed(r.seg)

\* What the merge leaves out is there already: once the transcript is ready, every sentence
\* of the recording is a row, or the share of it that covers it was transcribed live, wherever
\* the live stream broke off, if no chunk was dropped.
NothingSaidIsLost ==
  record.transcription = "ready" /\ ~cut =>
    \A s \in batch.all :
      \/ Replayed(s)
      \/ \E r \in rows : r.seg.from = s.from /\ r.seg.to = s.to /\ r.seg.words = s.words

\* A named row is named after somebody of whom no other says more in a sentence of the recording
\* that shares speech with the row, if no chunk was dropped.  That need not be who speaks in
\* the row: "batch separates two but leaves sparse turns mislabeled" (ADR 0003).
NamesFromSharedSpeech ==
  ~cut => \A r \in rows : r.seg.speaker # 0 =>
            \E s \in batch.all :
              /\ s.words \cap r.seg.words # {}
              /\ \A w \in s.words : Count(voice[w], s.words) <= Count(r.seg.speaker, s.words)

\* The statuses of a completed run say what became of its transcript and notes, save for a
\* live stream that stored rows and then failed.
StatusTellsTruth ==
  status = "completed" =>
    /\ record.transcription = "ready" => rows # {}
    /\ record.transcription = "silence" /\ live.result = "done" => rows = {}
    /\ heard > 0 => record.transcription # "pending"
    /\ (record.notes = "ready") = record.noted
=============================================================================
