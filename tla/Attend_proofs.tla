---------------------------- MODULE Attend_proofs ----------------------------
(***************************************************************************)
(* A visit to the meeting page and the transcript of the meeting, for any  *)
(* numbers of polls, chunks, failures and speakers: who takes itself for   *)
(* admitted and when it leaves; what the rows hold of what was said, under *)
(* which names; and what the columns of a completed run say.               *)
(***************************************************************************)
EXTENDS Attend, LibraryLemmas

(* The visit: polls, misses and the page                                    *)

\* A poll that is under way was not the last.
PollsLeft == at \in {"leave_control", "waiting_sign", "gate_text", "end_text", "leave_again"} => left > 0

\* Who is shown the call was admitted; and once the leave control was seen, the page shows the
\* waiting screen until the bot is admitted or refused.
PageInv ==
  /\ page = "in" => admitted
  /\ at = "waiting_sign" /\ ~refused => page = "waiting" \/ admitted
  /\ AdmittedByHost

\* A miss that is counted was the latest look.
MissInv == misses = 1 => ~found

\* The type invariant in two parts, for the truth values need another prover than the rest.
Flags == admitted \in BOOLEAN /\ refused \in BOOLEAN /\ found \in BOOLEAN /\ stop \in BOOLEAN
Values ==
  /\ page \in Pages /\ at \in Places /\ outcome \in Outcomes
  /\ (outcome = "none" <=> at # "ended")
  /\ left \in 0..AdmissionPolls \cup 0..MeetingPolls /\ misses \in 0..1
  /\ glitches \in 0..MaxGlitches

\* The invariant of a visit.
VisitInv == JoinTypeOK /\ PollsLeft /\ PageInv /\ MissInv

\* The type of a visit in two parts, which the provers take one at a time.
LEMMA TypeInParts == JoinTypeOK <=> Flags /\ Values
BY DEF JoinTypeOK, Flags, Values

\* A visit begins with everything the invariant says.
LEMMA VisitBegins == JoinInit => VisitInv
<1> SUFFICES ASSUME JoinInit PROVE VisitInv
  OBVIOUS
<1>1. Flags
  BY DEF JoinInit, Flags
<1>2. Values
  BY JoinConstants DEF JoinInit, Values, Pages, Places, Outcomes
<1>3. PollsLeft /\ PageInv /\ MissInv
  BY DEF JoinInit, PollsLeft, PageInv, MissInv, AdmittedByHost, InCall
<1> QED BY <1>1, <1>2, <1>3, TypeInParts DEF VisitInv

-----------------------------------------------------------------------------
(* The truth values                                                         *)

\* Every step of a visit keeps its Boolean parts.
LEMMA FlagsKept == Flags /\ JoinNext => Flags'
<1> SUFFICES ASSUME Flags, JoinNext PROVE Flags'
  OBVIOUS
<1> USE DEF Flags
<1>1. CASE Renders
  BY <1>1 DEF Renders, Bot
<1>2. CASE Admits
  BY <1>2 DEF Admits, Bot
<1>3. CASE Refuses
  BY <1>3 DEF Refuses, Bot
<1>4. CASE CallEnds
  BY <1>4 DEF CallEnds, Bot
<1>5. CASE StopRequested
  BY <1>5 DEF StopRequested, meet
<1>6. CASE BeforeWarmup
  BY <1>6 DEF BeforeWarmup, Checks, End, Stay, Go, meet
<1>7. CASE Open
  BY <1>7 DEF Open, End, Stay, Go
<1>8. CASE Prejoin
  BY <1>8 DEF Prejoin, End, Stay, Go, meet
<1>9. CASE BeforeKnock
  BY <1>9 DEF BeforeKnock, Checks, End, Stay, Go, meet
<1>10. CASE Knock
  BY <1>10 DEF Knock, End, Go
<1>11. CASE Poll
  BY <1>11 DEF Poll, End, Stay, Go, meet
<1>12. CASE LookForLeave
  BY <1>12 DEF LookForLeave, Stay, Go, meet
<1>13. CASE LookForWaiting
  BY <1>13 DEF LookForWaiting, Stay, Go, meet
<1>14. CASE LookForGate
  BY <1>14 DEF LookForGate, End, Go, meet
<1>15. CASE BeginWatch
  BY <1>15 DEF BeginWatch, Go, meet
<1>16. CASE Watch
  BY <1>16 DEF Watch, End, Stay, Go, meet
<1>17. CASE LookForEnd
  BY <1>17 DEF LookForEnd, End, Stay, Go, meet
<1>18. CASE LookForLeaveLeft
  BY <1>18 DEF LookForLeaveLeft, LeaveFound, LeaveMissed, Sleep, End, Go, meet
<1>19. CASE VisitFails
  BY <1>19 DEF VisitFails, End, meet
<1> QED BY <1>1, <1>2, <1>3, <1>4, <1>5, <1>6, <1>7, <1>8, <1>9, <1>10, <1>11, <1>12, <1>13,
  <1>14, <1>15, <1>16, <1>17, <1>18, <1>19 DEF JoinNext, Host, Visit

-----------------------------------------------------------------------------
(* Places, polls and misses                                                 *)

\* What Google Meet and the host do keeps the values of a visit, its polls and its misses.
LEMMA HostKeeps ==
  ASSUME VisitInv, Renders \/ Admits \/ Refuses \/ CallEnds \/ StopRequested
  PROVE  Values' /\ PollsLeft' /\ MissInv'
<1>0. Values
  BY TypeInParts DEF VisitInv
<1> USE <1>0, JoinConstants
    DEF VisitInv, Values, PollsLeft, MissInv, Pages, Places, Outcomes, Clean, Glitch, Finds,
        FindsNot, Stay, Go, End, meet
<1>1. CASE Renders
  BY <1>1 DEF Renders, Bot
<1>2. CASE Admits
  BY <1>2 DEF Admits, Bot
<1>3. CASE Refuses
  BY <1>3 DEF Refuses, Bot
<1>4. CASE CallEnds
  BY <1>4 DEF CallEnds, Bot
<1>5. CASE StopRequested
  BY <1>5 DEF StopRequested
<1> QED BY <1>1, <1>2, <1>3, <1>4, <1>5

\* .. and so does joining: the page, the pre-join screen and the ask;
LEMMA JoinKeeps ==
  ASSUME VisitInv, BeforeWarmup \/ Open \/ Prejoin \/ BeforeKnock \/ Knock
  PROVE  Values' /\ PollsLeft' /\ MissInv'
<1>0. Values
  BY TypeInParts DEF VisitInv
<1> USE <1>0, JoinConstants
    DEF VisitInv, Values, PollsLeft, MissInv, Pages, Places, Outcomes, Clean, Glitch, Finds,
        FindsNot, Stay, Go, End, meet
<1>1. CASE BeforeWarmup
  BY <1>1 DEF BeforeWarmup, Checks
<1>2. CASE Open
  BY <1>2 DEF Open
<1>3. CASE Prejoin
  BY <1>3 DEF Prejoin
<1>4. CASE BeforeKnock
  BY <1>4 DEF BeforeKnock, Checks
<1>5. CASE Knock
  BY <1>5 DEF Knock
<1> QED BY <1>1, <1>2, <1>3, <1>4, <1>5

\* .. the polls for an admission;
LEMMA WaitKeeps ==
  ASSUME VisitInv, Poll \/ LookForLeave \/ LookForWaiting \/ LookForGate
  PROVE  Values' /\ PollsLeft' /\ MissInv'
<1>0. Values
  BY TypeInParts DEF VisitInv
<1> USE <1>0, JoinConstants
    DEF VisitInv, Values, PollsLeft, MissInv, Pages, Places, Outcomes, Clean, Glitch, Finds,
        FindsNot, Stay, Go, End, meet
<1>1. CASE Poll
  BY <1>1 DEF Poll
<1>2. CASE LookForLeave
  BY <1>2 DEF LookForLeave
<1>3. CASE LookForWaiting
  BY <1>3 DEF LookForWaiting
<1>4. CASE LookForGate
  BY <1>4 DEF LookForGate
<1> QED BY <1>1, <1>2, <1>3, <1>4

\* .. and the polls of the meeting.
LEMMA WatchKeeps ==
  ASSUME VisitInv, BeginWatch \/ Watch \/ LookForEnd \/ LookForLeaveLeft \/ VisitFails
  PROVE  Values' /\ PollsLeft' /\ MissInv'
<1>0. Values
  BY TypeInParts DEF VisitInv
<1> USE <1>0, JoinConstants
    DEF VisitInv, Values, PollsLeft, MissInv, Pages, Places, Outcomes, Clean, Glitch, Finds,
        FindsNot, Stay, Go, End, meet
<1>1. CASE BeginWatch
  BY <1>1 DEF BeginWatch
<1>2. CASE Watch
  BY <1>2 DEF Watch
<1>3. CASE LookForEnd
  BY <1>3 DEF LookForEnd
<1>4. CASE LookForLeaveLeft
  BY <1>4 DEF LookForLeaveLeft, LeaveFound, LeaveMissed, Sleep
<1>5. CASE VisitFails
  BY <1>5 DEF VisitFails
<1> QED BY <1>1, <1>2, <1>3, <1>4, <1>5

-----------------------------------------------------------------------------
(* The page                                                                 *)

\* Every step of a visit keeps what the bot's reading of the page was worth.
LEMMA PageKept ==
  ASSUME VisitInv, JoinNext
  PROVE  PageInv'
<1>0. Values
  BY TypeInParts DEF VisitInv
<1>1. glitches \in Nat /\ (Clean \/ Glitch => glitches' \in Nat /\ (glitches' = 0 => glitches = 0))
  BY <1>0, JoinConstants DEF Values, Clean, Glitch
<1> USE <1>1 DEF VisitInv, PageInv, AdmittedByHost, InCall
<1>2. CASE Renders
  BY <1>2 DEF Renders, Bot
<1>3. CASE Admits
  BY <1>3 DEF Admits, Bot
<1>4. CASE Refuses
  BY <1>4 DEF Refuses, Bot
<1>5. CASE CallEnds
  BY <1>5 DEF CallEnds, Bot
<1>6. CASE StopRequested
  BY <1>6 DEF StopRequested, meet
<1>7. CASE BeforeWarmup \/ BeforeKnock
  BY <1>7 DEF BeforeWarmup, BeforeKnock, Checks, End, Stay, Go, meet
<1>8. CASE Open
  BY <1>8 DEF Open, End, Stay, Go
<1>9. CASE Prejoin
  BY <1>9 DEF Prejoin, Finds, FindsNot, End, Stay, Go, meet
<1>10. CASE Knock
  BY <1>10 DEF Knock, Finds, FindsNot, End, Go
<1>11. CASE Poll
  BY <1>11 DEF Poll, End, Stay, Go, meet
<1>12. CASE LookForLeave
  BY <1>12 DEF LookForLeave, LeaveShown, Finds, FindsNot, Stay, Go, meet
<1>13. CASE LookForWaiting
  BY <1>13 DEF LookForWaiting, Finds, FindsNot, Glitch, Stay, Go, meet
<1>14. CASE LookForGate
  BY <1>14 DEF LookForGate, Finds, FindsNot, End, Go, meet
<1>15. CASE BeginWatch
  BY <1>15 DEF BeginWatch, Go, meet
<1>16. CASE Watch
  BY <1>16 DEF Watch, End, Stay, Go, meet
<1>17. CASE LookForEnd
  BY <1>17 DEF LookForEnd, Finds, FindsNot, End, Stay, Go, meet
<1>18. CASE LookForLeaveLeft
  BY <1>18 DEF LookForLeaveLeft, Finds, FindsNot, LeaveFound, LeaveMissed, Sleep, End, Go, meet
<1>19. CASE VisitFails
  BY <1>19 DEF VisitFails, End, meet
<1> QED BY <1>2, <1>3, <1>4, <1>5, <1>6, <1>7, <1>8, <1>9, <1>10, <1>11, <1>12, <1>13,
  <1>14, <1>15, <1>16, <1>17, <1>18, <1>19 DEF JoinNext, Host, Visit

\* Every step of a visit keeps all of its invariant.
LEMMA VisitKept == VisitInv /\ [JoinNext]_joinVars => VisitInv'
<1> SUFFICES ASSUME VisitInv, [JoinNext]_joinVars PROVE VisitInv'
  OBVIOUS
<1>1. CASE JoinNext
  <2>1. Flags'
    BY <1>1, FlagsKept, TypeInParts DEF VisitInv
  <2>2. Values' /\ PollsLeft' /\ MissInv'
    BY <1>1, HostKeeps, JoinKeeps, WaitKeeps, WatchKeeps DEF JoinNext, Host, Visit
  <2>3. JoinTypeOK'
    BY <2>1, <2>2 DEF JoinTypeOK, Flags, Values
  <2> QED BY <1>1, <2>2, <2>3, PageKept DEF VisitInv
<1>2. CASE UNCHANGED joinVars
  BY <1>2 DEF joinVars, meet, VisitInv, JoinTypeOK, PollsLeft, PageInv, MissInv, AdmittedByHost,
    InCall
<1> QED BY <1>1, <1>2

-----------------------------------------------------------------------------

\* The values of every part of a visit; its polls never run below the deadline.
THEOREM VisitTyped == JoinSpec => []JoinTypeOK
<1>1. VisitInv => JoinTypeOK
  BY DEF VisitInv
<1> QED BY <1>1, VisitBegins, VisitKept, PTL DEF JoinSpec

\* A bot that takes itself for admitted was let in by the host, as long as its looks succeed
\* and nobody turns it away between two of them.
THEOREM HostAdmits == JoinSpec => []AdmittedByHost
<1>1. VisitInv => AdmittedByHost
  BY DEF VisitInv, PageInv
<1> QED BY <1>1, VisitBegins, VisitKept, PTL DEF JoinSpec

\* A meeting that goes on is not left for one look that failed.
THEOREM TwoMissesEnd == JoinSpec => EndsWhenGone
<1>1. VisitInv /\ [JoinNext]_joinVars =>
        [outcome = "none" /\ outcome' = "meeting-ended" /\ page = "in" => ~found]_joinVars
  <2> SUFFICES ASSUME VisitInv, JoinNext, outcome = "none", outcome' = "meeting-ended",
                      page = "in"
               PROVE  ~found
    OBVIOUS
  <2>1. ~Host /\ ~StopRequested
    BY DEF Host, Renders, Admits, Refuses, CallEnds, StopRequested, Bot
  <2>2. at = "leave_again" /\ misses = 1
    BY <2>1 DEF JoinNext, Visit, BeforeWarmup, Open, Prejoin, BeforeKnock, Checks, Knock, Poll,
      LookForLeave, LookForWaiting, LookForGate, BeginWatch, Watch, LookForEnd,
      LookForLeaveLeft, LeaveFound, LeaveMissed, Sleep, VisitFails, End, Stay, Go, Finds
  <2> QED BY <2>2 DEF VisitInv, MissInv
<1> QED BY <1>1, VisitBegins, VisitKept, PTL DEF JoinSpec, EndsWhenGone

-----------------------------------------------------------------------------
(* The transcript: its steps                                                *)

\* The steps of the transcript, among all the steps of the pod.
TranscriptStep ==
  \/ StartTranscript \/ Hear \/ LiveStream
  \/ StopTranscript \/ AbortTranscript \/ Finalise \/ BeginNotes
  \/ phase \in {"idle", "raised"} /\ EndProcess

-----------------------------------------------------------------------------
(* The values                                                               *)

\* The types of the transcript, field by field.
Chunks == 1..MaxChunks
Lives == [pc : {"off", "over"} \cup Running, sent : Seq(Chunks), said : Nat, finals : Nat,
          result : Results]
Records == [transcription : {"pending", "disabled", "provider-failed", "silence", "ready"},
            error : {"none", "live-failed", "live-drain-timeout", "batch-failed"},
            notes : {"pending", "disabled", "silence", "provider-failed", "ready"},
            noted : BOOLEAN, tries : 0..Attempts]
Batches == [all : SUBSET Segments, todo : SUBSET Segments]

\* The settings and the columns, whose steps are simple.
PlainTypes ==
  /\ voice \in Voices /\ stt \in {"none", "plain", "diarize"} /\ phase \in Phases
  /\ record \in Records /\ faults \in 0..MaxFaults

\* The stream and its queue.
StreamTypes ==
  /\ heard \in 0..MaxChunks /\ cut \in BOOLEAN
  /\ queue \in Seq(0..MaxChunks) /\ Len(queue) <= QueueLimit
  /\ live \in Lives /\ live.said <= Len(live.sent)

\* The rows and the segments of the batch, of which some are still to be stored.
SegmentTypes == rows \subseteq Rows /\ batch \in Batches /\ batch.todo \subseteq batch.all

\* The live transcription is under way.
OnAir == live.pc \in Running

\* The live stream runs between the start of the recorder and the end of its wait, or of
\* the process of a visit that raised.
AirInv ==
  /\ phase = "idle" => /\ live.pc = "off" /\ live.sent = <<>> /\ live.finals = 0 /\ queue = <<>>
                       /\ heard = 0 /\ rows = {}
  /\ OnAir => phase \in {"meeting", "drain", "raised"} /\ stt # "none"
  /\ (live.result # "none") <=> (live.pc = "over")
  /\ live.finals > 0 => OnAir \/ live.result = "done"
  /\ phase \in {"batch", "merge", "store", "annotate"} => live.result # "raised"

\* The fields of a record.
Parts(l) == l = [pc |-> l.pc, sent |-> l.sent, said |-> l.said, finals |-> l.finals, result |-> l.result]

\* What is left of a stream that has ended.
LEMMA WhenOver ==
  ASSUME Parts(live), NEW result, Over(result)
  PROVE  /\ live'.pc = "over" /\ live'.result = result /\ live'.sent = <<>> /\ live'.said = 0
         /\ live'.finals = IF result = "done" THEN live.finals ELSE 0
         /\ Parts(live')
BY DEF Over, Parts

\* Every step of the transcript keeps the types of its plain parts.
LEMMA PlainTypesKept ==
  ASSUME PlainTypes, AirInv, live.result \in Results, TranscriptStep
  PROVE  PlainTypes'
<1>1. MaxFaults \in Nat /\ Attempts \in Nat
  BY TranscriptConstants
<1>2. Works \/ Fails => faults' \in 0..MaxFaults
  BY <1>1 DEF PlainTypes, Works, Fails
<1>3. phase \in {"batch", "merge", "store", "annotate"}
        => LiveError \in {"none", "live-failed", "live-drain-timeout"}
  BY DEF LiveError, Results, AirInv
<1> DEFINE Errors == {"none", "live-failed", "live-drain-timeout"}
<1>4. /\ \A e \in Errors : \A s \in {"provider-failed", "silence", "ready", "disabled"} :
           /\ record \in Records => [record EXCEPT !.transcription = s, !.error = e] \in Records
           /\ record \in Records => [record EXCEPT !.transcription = s] \in Records
      /\ record \in Records =>
           [record EXCEPT !.transcription = "provider-failed", !.error = "batch-failed"] \in Records
  BY DEF Records
<1>5. record \in Records =>
        /\ \A s \in {"disabled", "silence", "provider-failed", "ready"} :
             [record EXCEPT !.notes = s] \in Records
        /\ [record EXCEPT !.noted = TRUE] \in Records
        /\ record.tries < Attempts => [record EXCEPT !.tries = @ + 1] \in Records
  <2> SUFFICES ASSUME record \in Records
               PROVE  /\ \A s \in {"disabled", "silence", "provider-failed", "ready"} :
                           [record EXCEPT !.notes = s] \in Records
                      /\ [record EXCEPT !.noted = TRUE] \in Records
                      /\ record.tries < Attempts => [record EXCEPT !.tries = @ + 1] \in Records
    OBVIOUS
  <2>1. record.tries < Attempts => record.tries + 1 \in 0..Attempts
    BY <1>1 DEF Records
  <2>2. \A n \in 0..Attempts : [record EXCEPT !.tries = n] \in Records
    BY DEF Records
  <2>3. record.tries < Attempts => [record EXCEPT !.tries = @ + 1] \in Records
    BY <2>1, <2>2
  <2>4. \A s \in {"disabled", "silence", "provider-failed", "ready"} :
          [record EXCEPT !.notes = s] \in Records
    BY DEF Records
  <2>5. [record EXCEPT !.noted = TRUE] \in Records
    BY DEF Records
  <2> QED
    BY <2>3, <2>4, <2>5
<1>6. voice' \in Voices /\ stt' \in {"none", "plain", "diarize"}
  BY DEF PlainTypes, TranscriptStep, StartTranscript, Hear, LiveStream, Connect, Send, Final,
     StreamEnds, StreamFails, Steady, StopTranscript, AbortTranscript, EndProcess, Finalise, Drain, Batch,
     BatchFails, Merge, StoreNext, MarkReady, Annotate, BeginNotes, NoNotes, Summarise,
     NotesExhausted, KeepNotes, MarkNotes, NotesStep, Raises, Step, Setting
<1>7. phase' \in Phases
  BY DEF PlainTypes, Phases, TranscriptStep, StartTranscript, Hear, LiveStream, Connect, Send, Final,
     StreamEnds, StreamFails, Steady, StopTranscript, AbortTranscript, EndProcess, Finalise, Drain, Batch,
     BatchFails, Merge, StoreNext, MarkReady, Annotate, BeginNotes, NoNotes, Summarise,
     NotesExhausted, KeepNotes, MarkNotes, NotesStep, Raises, Step
<1>8. Works \/ Fails
  BY DEF TranscriptStep, StartTranscript, Hear, LiveStream, Connect, Send, Final,
     StreamEnds, StreamFails, StopTranscript, AbortTranscript, EndProcess, Finalise, Drain, Batch,
     BatchFails, Merge, StoreNext, MarkReady, Annotate, BeginNotes, NoNotes, Summarise,
     NotesExhausted, KeepNotes, MarkNotes, Raises
<1>9. record' \in Records
  <2> record \in Records
    BY DEF PlainTypes
  <2>1. CASE StartTranscript \/ Hear \/ LiveStream \/ StopTranscript \/ AbortTranscript \/ EndProcess
    BY <2>1, <1>4 DEF StartTranscript, Hear, LiveStream, Connect, Send, Final,
     StreamEnds, StreamFails, StopTranscript, AbortTranscript, EndProcess
  <2>2. CASE Drain \/ Batch \/ BatchFails \/ Merge
    BY <2>2, <1>3, <1>4 DEF Drain, Batch, BatchFails, Merge, Step
  <2>3. CASE StoreNext \/ MarkReady \/ Annotate
    BY <2>3, <1>3, <1>4 DEF StoreNext, MarkReady, Annotate, Step
  <2>4. CASE BeginNotes \/ NoNotes \/ Summarise
    BY <2>4, <1>5 DEF BeginNotes, NoNotes, Summarise, NotesStatus
  <2>5. CASE NotesExhausted \/ KeepNotes \/ MarkNotes \/ Raises
    BY <2>5, <1>5 DEF NotesExhausted, KeepNotes, MarkNotes, Raises, NotesStatus
  <2> QED
    BY <2>1, <2>2, <2>3, <2>4, <2>5 DEF TranscriptStep, Finalise
<1> QED
  BY <1>2, <1>6, <1>7, <1>8, <1>9 DEF PlainTypes

\* Every step keeps the live stream where the phase of the pod has it.
LEMMA AirInvKept ==
  ASSUME AirInv, live \in Lives, TranscriptStep
  PROVE  AirInv'
<1>1. Parts(live) /\ live.pc \in {"off", "over"} \cup Running /\ live.finals \in Nat
  BY DEF Lives, Parts
<1> USE <1>1 DEF AirInv, OnAir, Running, Setting, Step
<1>2. CASE StartTranscript
  BY <1>2 DEF StartTranscript, Audio, Parts
<1>3. CASE Hear
  BY <1>3 DEF Hear, Drained
<1>4. CASE Connect \/ Send
  BY <1>4 DEF Connect, Send, Steady, Parts
<1>5. CASE Final
  BY <1>5 DEF Final, Steady, Parts
<1>6. CASE StreamEnds
  BY <1>6, WhenOver DEF StreamEnds, Steady
<1>7. CASE StreamFails
  BY <1>7, WhenOver DEF StreamFails, Steady
<1>8. CASE StopTranscript
  BY <1>8 DEF StopTranscript
<1>9. CASE AbortTranscript
  BY <1>9 DEF AbortTranscript, Quiet
<1>10. CASE Drain
  BY <1>10, WhenOver DEF Drain, Await
<1>11. CASE Batch \/ BatchFails
  BY <1>11 DEF Batch, BatchFails, Quiet
<1>12. CASE Merge \/ StoreNext
  BY <1>12 DEF Merge, StoreNext, Quiet
<1>13. CASE MarkReady \/ Annotate
  BY <1>13 DEF MarkReady, Annotate, Quiet
<1>14. CASE BeginNotes \/ NoNotes \/ Summarise
  BY <1>14 DEF BeginNotes, NoNotes, Summarise, NotesStep, Quiet
<1>15. CASE NotesExhausted \/ KeepNotes \/ MarkNotes
  BY <1>15 DEF NotesExhausted, KeepNotes, MarkNotes, NotesStep, Quiet
<1>16. CASE Raises
  BY <1>16 DEF Raises
<1>17. CASE phase \in {"idle", "raised"} /\ EndProcess
  BY <1>17, WhenOver DEF EndProcess, Steady
<1> QED
  BY <1>2, <1>3, <1>4, <1>5, <1>6, <1>7, <1>8, <1>9, <1>10, <1>11, <1>12, <1>13, <1>14, <1>15, <1>16,
     <1>17
  DEF TranscriptStep, Finalise, LiveStream

-----------------------------------------------------------------------------
(* The stream                                                               *)

\* The queue of a stream that runs: Eof comes last, and only after the meeting; with what was
\* sent, the chunks in it are no more than were heard.
QueueInv ==
  OnAir =>
    /\ phase # "drain" => \A i \in 1..Len(queue) : queue[i] # Eof
    /\ phase = "drain" => queue = <<>> \/ queue[Len(queue)] = Eof
    /\ \A i \in 1..Len(queue) : queue[i] = Eof => i = Len(queue)
    /\ Len(live.sent) <= heard
    /\ Len(live.sent) + Len(queue) <= heard + (IF phase = "drain" THEN 1 ELSE 0)

\* No chunk was dropped: the k-th chunk sent is the k-th of the meeting.
InStep ==
  OnAir /\ ~cut =>
    /\ \A i \in 1..Len(live.sent) : live.sent[i] = i
    /\ \A i \in 1..Len(queue) : queue[i] \in {Eof, Len(live.sent) + i}
    /\ phase # "drain" => Len(live.sent) + Len(queue) = heard

\* What the stream does not touch.
LEMMA StreamStill ==
  ASSUME TranscriptStep, ~StartTranscript, ~Hear, ~LiveStream, ~StopTranscript, ~AbortTranscript,
         ~Drain, ~EndProcess
  PROVE  /\ UNCHANGED <<heard, queue, cut, live>> /\ phase # "meeting" /\ phase' # "meeting"
         /\ phase # "drain" /\ phase' # "drain" /\ phase # "idle" /\ phase' # "idle"
BY DEF TranscriptStep, Finalise, Batch, BatchFails, Merge, StoreNext, MarkReady, Annotate,
   BeginNotes, NoNotes, Summarise, NotesExhausted, KeepNotes, MarkNotes, NotesStep, Raises, Step,
   Quiet, Audio

\* The invariant of the stream.
StreamInv == StreamTypes /\ AirInv /\ QueueInv /\ InStep

\* A chunk that is heard keeps the stream: it is queued while there is room, or dropped.
LEMMA HearKeeps ==
  ASSUME StreamInv, Hear
  PROVE  StreamTypes' /\ QueueInv' /\ InStep'
<1> DEFINE n == Len(queue)
           m == Len(live.sent)
<1>1. n \in Nat /\ m \in Nat /\ heard \in Nat /\ heard' = heard + 1 /\ heard' \in 1..MaxChunks
  <2>1. MaxChunks \in Nat
    BY TranscriptConstants
  <2> QED
    BY <2>1, AtTheEnds DEF StreamInv, StreamTypes, Lives, Hear
<1>2. /\ phase' = phase /\ live' = live /\ phase # "drain"
      /\ (live.pc \in Running <=> OnAir)
  BY DEF Hear, Drained, OnAir
<1>3. CASE OnAir /\ Len(queue) # QueueLimit
  <2>1. queue' = Append(queue, heard + 1) /\ cut' = cut
    BY <1>3 DEF Hear, OnAir, StreamInv, StreamTypes
  <2>2. /\ queue' \in Seq(0..MaxChunks) /\ Len(queue') = n + 1 /\ queue'[n + 1] = heard + 1
        /\ \A i \in 1..n : queue'[i] = queue[i]
    BY <1>1, <2>1, AtTheEnds DEF StreamInv, StreamTypes
  <2>3. n + 1 <= QueueLimit
    BY <1>1, <1>3, TranscriptConstants DEF StreamInv, StreamTypes
  <2>4. StreamTypes'
    BY <1>1, <1>2, <2>1, <2>2, <2>3 DEF StreamInv, StreamTypes
  <2>5. m + n <= heard /\ m <= heard /\ \A i \in 1..n : queue[i] # Eof
    BY <1>1, <1>2, <1>3 DEF StreamInv, QueueInv
  <2>6. \A i \in 1..n + 1 : queue'[i] # Eof
    BY <1>1, <2>2, <2>5 DEF Eof
  <2>7. QueueInv'
    <3> HIDE DEF n, m
    <3>1. /\ m <= heard' /\ m + (n + 1) <= heard' + 0
      BY <1>1, <2>5
    <3> QED
      BY <1>1, <1>2, <2>2, <2>6, <3>1 DEF QueueInv, OnAir, n, m
  <2>8. InStep'
    <3> SUFFICES ASSUME ~cut PROVE InStep'
      BY <2>1 DEF InStep
    <3>1. /\ \A i \in 1..m : live.sent[i] = i
          /\ \A i \in 1..n : queue[i] \in {Eof, m + i}
          /\ m + n = heard
      BY <1>2, <1>3 DEF StreamInv, InStep
    <3>2. \A i \in 1..n + 1 : queue'[i] \in {Eof, m + i}
      BY <1>1, <2>2, <3>1
    <3> HIDE DEF n, m
    <3>3. m + (n + 1) = heard'
      BY <1>1, <3>1
    <3>4. Len(live'.sent) = m /\ Len(queue') = n + 1
      BY <1>2, <2>2 DEF m
    <3>5. \A i \in 1..m : live'.sent[i] = i
      BY <1>2, <3>1
    <3> QED
      BY <3>2, <3>3, <3>4, <3>5 DEF InStep
  <2> QED
    BY <2>4, <2>7, <2>8
<1>4. CASE ~OnAir \/ Len(queue) = QueueLimit
  <2>1. queue' = queue /\ (OnAir => cut') /\ cut' \in BOOLEAN
    BY <1>4 DEF Hear, OnAir, StreamInv, StreamTypes
  <2>2. StreamTypes'
    BY <1>1, <1>2, <2>1 DEF StreamInv, StreamTypes
  <2>3. QueueInv' /\ InStep'
    BY <1>1, <1>2, <2>1 DEF StreamInv, QueueInv, InStep, OnAir
  <2> QED
    BY <2>2, <2>3
<1> QED
  BY <1>3, <1>4

\* A chunk that is sent keeps the stream: it is the next one of the meeting.
LEMMA SendKeeps ==
  ASSUME StreamInv, Send
  PROVE  StreamTypes' /\ QueueInv' /\ InStep'
<1> DEFINE n == Len(queue)
           m == Len(live.sent)
<1>1. /\ n \in Nat \ {0} /\ m \in Nat /\ heard \in Nat /\ heard <= MaxChunks /\ MaxChunks \in Nat
      /\ heard' = heard /\ cut' = cut /\ phase' = phase /\ phase \in {"meeting", "drain", "raised"}
      /\ n <= QueueLimit /\ OnAir /\ Parts(live) /\ live.said \in Nat /\ live.said <= m
  BY TranscriptConstants, AtTheEnds
  DEF StreamInv, StreamTypes, Lives, Send, Steady, AirInv, OnAir, Running, Parts
<1>2. /\ queue' \in Seq(0..MaxChunks) /\ Len(queue') = n - 1 /\ Head(queue) = queue[1]
      /\ \A i \in 1..n - 1 : queue'[i] = queue[i + 1]
      /\ queue[1] \in 0..MaxChunks
  BY <1>1, AtTheEnds DEF StreamInv, StreamTypes, Send
<1>3. /\ phase # "drain" => \A i \in 1..n : queue[i] # Eof
      /\ phase = "drain" => queue[n] = Eof
      /\ \A i \in 1..n : queue[i] = Eof => i = n
      /\ m <= heard /\ m + n <= heard + (IF phase = "drain" THEN 1 ELSE 0)
  BY <1>1, AtTheEnds DEF StreamInv, QueueInv, StreamTypes
<1>4. ~cut => /\ \A i \in 1..m : live.sent[i] = i
              /\ \A i \in 1..n : queue[i] \in {Eof, m + i}
              /\ phase # "drain" => m + n = heard
  BY <1>1 DEF StreamInv, InStep
<1>5. /\ phase # "drain" => \A i \in 1..n - 1 : queue'[i] # Eof
      /\ phase = "drain" => n = 1 \/ queue'[n - 1] = Eof
      /\ \A i \in 1..n - 1 : queue'[i] = Eof => i = n - 1
  <2> HIDE DEF n
  <2>1. \A i \in 1..n - 1 : i + 1 \in 1..n /\ queue'[i] = queue[i + 1]
    BY <1>1, <1>2
  <2>2. n # 1 => n - 1 \in 1..n - 1 /\ queue'[n - 1] = queue[n]
    BY <1>1, <2>1
  <2>3. phase # "drain" => \A i \in 1..n - 1 : queue'[i] # Eof
    BY <1>3, <2>1
  <2>4. \A i \in 1..n - 1 : queue'[i] = Eof => i = n - 1
    <3> TAKE i \in 1..n - 1
    <3>1. queue'[i] = Eof => i + 1 = n
      BY <1>3, <2>1
    <3> QED
      BY <1>1, <3>1
  <2>5. phase = "drain" => n = 1 \/ queue'[n - 1] = Eof
    BY <1>3, <2>2
  <2> QED
    BY <2>3, <2>4, <2>5
<1>6. CASE Head(queue) = Eof
  <2>1. live' = [live EXCEPT !.pc = "closing"] /\ n = 1 /\ phase = "drain"
    <3>1. live' = [live EXCEPT !.pc = "closing"]
      BY <1>6 DEF Send
    <3> QED
      BY <1>1, <1>2, <1>3, <1>6, <3>1
  <2>2. live' \in Lives /\ live'.sent = live.sent /\ live'.said = live.said
    BY <2>1 DEF StreamInv, StreamTypes, Lives, Running
  <2>3. StreamTypes'
    <3>1. Len(queue') <= QueueLimit /\ live'.said <= Len(live'.sent)
      BY <1>1, <1>2, <2>1, <2>2, TranscriptConstants
    <3> QED
      BY <1>1, <1>2, <2>2, <3>1 DEF StreamInv, StreamTypes
  <2>4. QueueInv' /\ InStep'
    <3>1. queue' = <<>> /\ Len(queue') = 0
      BY <1>2, <2>1, EmptySeq
    <3> QED
      BY <1>1, <1>3, <1>4, <2>1, <2>2, <3>1 DEF QueueInv, InStep
  <2> QED
    BY <2>3, <2>4
<1>7. CASE Head(queue) # Eof
  <2>1. live' = [live EXCEPT !.sent = Append(live.sent, queue[1])] /\ queue[1] \in Chunks
    <3>1. queue[1] \in Chunks
      BY <1>1, <1>2, <1>7 DEF Chunks, Eof
    <3>2. live' = [live EXCEPT !.sent = Append(@, Head(queue))]
      BY <1>7 DEF Send
    <3> QED
      BY <1>2, <3>1, <3>2
  <2>2. /\ Append(live.sent, queue[1]) \in Seq(Chunks)
        /\ Len(Append(live.sent, queue[1])) = m + 1
        /\ Append(live.sent, queue[1])[m + 1] = queue[1]
        /\ \A i \in 1..m : Append(live.sent, queue[1])[i] = live.sent[i]
    <3>1. live.sent \in Seq(Chunks)
      BY DEF StreamInv, StreamTypes, Lives
    <3> QED
      BY <2>1, <3>1, AtTheEnds
  <2>3. live'.sent = Append(live.sent, queue[1]) /\ live'.said = live.said /\ live' \in Lives
    <3>1. live'.sent = Append(live.sent, queue[1]) /\ live'.said = live.said
      BY <1>1, <2>1 DEF Parts
    <3>2. live' = [pc |-> live.pc, sent |-> Append(live.sent, queue[1]), said |-> live.said,
                   finals |-> live.finals, result |-> live.result]
      BY <1>1, <2>1 DEF Parts
    <3> QED
      BY <2>2, <3>1, <3>2 DEF StreamInv, StreamTypes, Lives
  <2> HIDE DEF n, m
  <2>4. Len(live'.sent) = m + 1
    BY <2>2, <2>3
  <2>5. StreamTypes'
    <3>1. n - 1 <= QueueLimit
      BY <1>1, TranscriptConstants
    <3>2. live'.said <= m + 1
      BY <1>1, <2>3
    <3> QED
      BY <1>1, <1>2, <2>3, <2>4, <3>1, <3>2 DEF StreamInv, StreamTypes
  <2>6. m + 1 <= heard /\ (m + 1) + (n - 1) <= heard + (IF phase = "drain" THEN 1 ELSE 0)
    <3>1. phase = "drain" => n # 1
      BY <1>2, <1>3, <1>7
    <3>2. (m + 1) + (n - 1) = m + n
      BY <1>1
    <3> QED
      BY <1>1, <1>3, <3>1, <3>2
  <2>7. QueueInv'
    <3>1. n = 1 => queue' = <<>>
      BY <1>2, EmptySeq
    <3> QED
      BY <1>1, <1>2, <1>5, <2>4, <2>6, <3>1 DEF QueueInv
  <2>8. InStep'
    <3> SUFFICES ASSUME ~cut PROVE InStep'
      BY <1>1 DEF InStep
    <3>1. queue[1] = m + 1
      BY <1>1, <1>2, <1>4, <1>7
    <3>2. \A i \in 1..m + 1 : live'.sent[i] = i
      BY <1>1, <1>4, <2>2, <2>3, <3>1
    <3>3. \A i \in 1..n - 1 : queue'[i] \in {Eof, (m + 1) + i}
      <4> SUFFICES ASSUME NEW i \in 1..n - 1
                   PROVE  queue'[i] \in {Eof, (m + 1) + i}
        OBVIOUS
      <4>1. i + 1 \in 1..n /\ m + (i + 1) = (m + 1) + i
        BY <1>1
      <4>2. queue[i + 1] \in {Eof, m + (i + 1)}
        BY <1>4, <4>1
      <4> QED
        BY <1>2, <4>1, <4>2
    <3>4. phase # "drain" => (m + 1) + (n - 1) = heard
      BY <1>1, <1>4
    <3> QED
      BY <1>1, <1>2, <2>4, <3>2, <3>3, <3>4 DEF InStep
  <2> QED
    BY <2>5, <2>7, <2>8
<1> QED
  BY <1>6, <1>7

\* The end of the recording keeps the stream: only its end is queued.
LEMMA StopKeeps ==
  ASSUME StreamInv, StopTranscript
  PROVE  StreamTypes' /\ QueueInv' /\ InStep'
<1> DEFINE n == Len(queue)
           m == Len(live.sent)
           q == IF n = QueueLimit THEN Tail(queue) ELSE queue
<1>1. /\ n \in Nat /\ m \in Nat /\ heard \in Nat /\ MaxChunks \in Nat /\ QueueLimit \in Nat \ {0}
      /\ heard' = heard /\ live' = live /\ phase = "meeting" /\ phase' = "drain"
      /\ n <= QueueLimit /\ queue' = Append(q, Eof) /\ 0 \in 0..MaxChunks
      /\ cut' \in BOOLEAN /\ (OnAir /\ ~cut' => ~cut /\ q = queue)
  <2>1. n \in Nat /\ m \in Nat /\ heard \in Nat /\ n <= QueueLimit /\ MaxChunks \in Nat
        /\ QueueLimit \in Nat \ {0} /\ 0 \in 0..MaxChunks
    BY TranscriptConstants, AtTheEnds DEF StreamInv, StreamTypes, Lives
  <2>2. /\ heard' = heard /\ live' = live /\ phase = "meeting" /\ phase' = "drain"
        /\ queue' = Append(q, Eof) /\ cut' = (cut \/ (n = QueueLimit /\ OnAir))
    BY DEF StopTranscript, Step, OnAir
  <2>3. cut \in BOOLEAN
    BY DEF StreamInv, StreamTypes
  <2>4. cut' \in BOOLEAN /\ (OnAir /\ ~cut' => ~cut /\ q = queue)
    BY <2>2, <2>3
  <2> QED
    BY <2>1, <2>2, <2>4
<1>2. /\ q \in Seq(0..MaxChunks) /\ Len(q) \in Nat /\ Len(q) < QueueLimit /\ Len(q) <= n
      /\ OnAir => \A i \in 1..Len(q) : q[i] # Eof
  <2>1. CASE n = QueueLimit
    <3>1. q = Tail(queue) /\ q \in Seq(0..MaxChunks) /\ Len(q) = n - 1
          /\ \A i \in 1..n - 1 : q[i] = queue[i + 1] /\ i + 1 \in 1..n
      BY <1>1, <2>1, AtTheEnds DEF StreamInv, StreamTypes
    <3> HIDE DEF q
    <3> QED
      BY <1>1, <2>1, <3>1 DEF StreamInv, QueueInv
  <2>2. CASE n # QueueLimit
    BY <1>1, <2>2 DEF StreamInv, StreamTypes, QueueInv
  <2> QED
    BY <2>1, <2>2
<1> HIDE DEF q
<1>3. /\ queue' \in Seq(0..MaxChunks) /\ Len(queue') = Len(q) + 1 /\ queue'[Len(q) + 1] = Eof
      /\ \A i \in 1..Len(q) : queue'[i] = q[i]
  BY <1>1, <1>2, AtTheEnds DEF Eof
<1>4. PICK k \in Nat : k = Len(q)
  BY <1>2
<1>5. StreamTypes'
  BY <1>1, <1>2, <1>3, <1>4 DEF StreamInv, StreamTypes
<1>6. QueueInv'
  <2> SUFFICES ASSUME OnAir PROVE QueueInv'
    BY <1>1 DEF QueueInv, OnAir
  <2>1. m <= heard /\ m + n <= heard
    BY <1>1 DEF StreamInv, QueueInv
  <2>2. m + (k + 1) <= heard + 1
    <3>1. k <= n
      BY <1>2, <1>4
    <3> HIDE DEF n, m
    <3> QED
      BY <1>1, <2>1, <3>1
  <2>3. \A i \in 1..k + 1 : queue'[i] = Eof => i = k + 1
    BY <1>2, <1>3, <1>4
  <2> QED
    BY <1>1, <1>3, <1>4, <2>1, <2>2, <2>3 DEF QueueInv
<1>7. InStep'
  <2> SUFFICES ASSUME OnAir, ~cut' PROVE InStep'
    BY <1>1 DEF InStep, OnAir
  <2>1. /\ \A i \in 1..m : live.sent[i] = i
        /\ \A i \in 1..k : queue[i] \in {Eof, m + i}
    BY <1>1, <1>4 DEF StreamInv, InStep
  <2>2. \A i \in 1..k + 1 : queue'[i] \in {Eof, m + i}
    BY <1>1, <1>3, <1>4, <2>1
  <2> QED
    BY <1>1, <1>3, <1>4, <2>1, <2>2 DEF InStep
<1> QED
  BY <1>5, <1>6, <1>7

\* Every step of the transcript keeps the stream.
LEMMA StreamKept ==
  ASSUME StreamInv, TranscriptStep
  PROVE  StreamInv'
<1>1. AirInv'
  BY AirInvKept DEF StreamInv, StreamTypes
<1>2. Parts(live) /\ live \in Lives /\ live.said \in Nat /\ Len(live.sent) \in Nat
  BY AtTheEnds DEF StreamInv, StreamTypes, Lives, Parts
<1>3. ASSUME NEW r \in Results, Over(r), heard' = heard, queue' = queue, cut' = cut
      PROVE  StreamTypes' /\ QueueInv' /\ InStep'
  <2>1. live'.pc = "over" /\ live'.sent = <<>> /\ live'.said = 0 /\ live' \in Lives
    <3>1. /\ live'.pc = "over" /\ live'.result = r /\ live'.sent = <<>> /\ live'.said = 0
          /\ live'.finals = (IF r = "done" THEN live.finals ELSE 0) /\ Parts(live')
      BY <1>2, <1>3, WhenOver
    <3>2. live'.finals \in Nat
      BY <1>2, <3>1 DEF Lives
    <3>3. PICK f \in Nat : f = live'.finals
      BY <3>2
    <3>4. live' = [pc |-> "over", sent |-> <<>>, said |-> 0, finals |-> f, result |-> r]
      BY <3>1, <3>3 DEF Parts
    <3>5. <<>> \in Seq(Chunks)
      BY EmptySeq
    <3>6. live' \in Lives
      BY <1>3, <3>4, <3>5 DEF Lives
    <3> QED
      BY <3>1, <3>6
  <2>2. Len(live'.sent) = 0
    BY <2>1, EmptySeq
  <2>3. ~OnAir'
    BY <2>1 DEF OnAir, Running
  <2> QED
    BY <1>3, <2>1, <2>2, <2>3 DEF StreamInv, StreamTypes, QueueInv, InStep
<1>4. ASSUME UNCHANGED <<heard, queue, cut>>, ~OnAir', live' \in Lives, live'.said = live.said,
             live'.sent = live.sent
      PROVE  StreamTypes' /\ QueueInv' /\ InStep'
  BY <1>4 DEF StreamInv, StreamTypes, QueueInv, InStep
<1>5. CASE StartTranscript
  <2>1. /\ UNCHANGED <<heard, queue, cut>> /\ heard = 0 /\ queue = <<>> /\ live.sent = <<>>
        /\ live' \in {live, [live EXCEPT !.pc = "connecting"]} /\ phase' = "meeting"
    BY <1>5 DEF StartTranscript, Audio, StreamInv, AirInv
  <2>2. live' \in Lives /\ live'.sent = <<>> /\ live'.said = live.said
    BY <1>2, <2>1 DEF Lives, Running
  <2>3. Len(queue') = 0 /\ Len(live'.sent) = 0
    BY <2>1, <2>2, EmptySeq
  <2> QED
    BY <1>1, <1>2, <2>1, <2>2, <2>3 DEF StreamInv, StreamTypes, QueueInv, InStep
<1>6. CASE Connect
  <2>1. UNCHANGED <<heard, queue, cut, phase>> /\ live' = [live EXCEPT !.pc = "streaming"] /\ OnAir
    BY <1>6 DEF Connect, Steady, OnAir, Running
  <2>2. live' \in Lives /\ live'.sent = live.sent /\ live'.said = live.said
    BY <1>2, <2>1 DEF Lives, Running
  <2> QED
    BY <1>1, <2>1, <2>2 DEF StreamInv, StreamTypes, QueueInv, InStep
<1>7. CASE Final
  <2>1. PICK k \in live.said + 1..Len(live.sent) :
          /\ live' \in {[live EXCEPT !.said = k, !.finals = @ + 1], [live EXCEPT !.said = k]}
          /\ UNCHANGED <<heard, queue, cut, phase>> /\ OnAir
    BY <1>7 DEF Final, Steady, OnAir, Running
  <2>2. k \in Nat /\ k <= Len(live.sent) /\ live.finals + 1 \in Nat
    BY <1>2 DEF Lives
  <2>3. live' \in Lives /\ live'.sent = live.sent /\ live'.said = k
    BY <1>2, <2>1, <2>2 DEF Lives
  <2> QED
    BY <1>1, <2>1, <2>2, <2>3 DEF StreamInv, StreamTypes, QueueInv, InStep
<1>8. CASE StreamEnds \/ StreamFails \/ EndProcess
  <2>1. UNCHANGED <<heard, queue, cut>>
    BY <1>8 DEF StreamEnds, StreamFails, EndProcess, Steady, Audio
  <2>2. (\E r \in Results : Over(r)) \/ (live' = live /\ ~OnAir)
    BY <1>8 DEF StreamEnds, StreamFails, EndProcess, Results, OnAir
  <2>3. live' = live /\ ~OnAir => ~OnAir' /\ live' \in Lives
    BY <1>2 DEF OnAir
  <2> QED
    BY <1>1, <1>3, <1>4, <2>1, <2>2, <2>3 DEF StreamInv
<1>9. CASE Drain
  <2>1. UNCHANGED <<heard, queue, cut>>
    BY <1>9 DEF Drain, Step
  <2>2. (\E r \in Results : Over(r)) \/ (live' = live /\ ~OnAir)
    BY <1>9 DEF Drain, Await, Results, OnAir
  <2>3. live' = live /\ ~OnAir => ~OnAir' /\ live' \in Lives
    BY <1>2 DEF OnAir
  <2> QED
    BY <1>1, <1>3, <1>4, <2>1, <2>2, <2>3 DEF StreamInv
<1>10. CASE AbortTranscript
  <2>1. /\ UNCHANGED <<heard, queue, cut, live>> /\ phase = "meeting" /\ phase' = "raised"
        /\ (OnAir' <=> OnAir)
    BY <1>10 DEF AbortTranscript, Step, Quiet, OnAir
  <2> QED
    BY <1>1, <2>1 DEF StreamInv, StreamTypes, QueueInv, InStep
<1>11. CASE /\ ~StartTranscript /\ ~Hear /\ ~LiveStream /\ ~StopTranscript
            /\ ~AbortTranscript /\ ~Drain /\ ~EndProcess
  <2>1. /\ UNCHANGED <<heard, queue, cut, live>> /\ phase # "drain" /\ phase' # "drain"
        /\ (OnAir' <=> OnAir)
    BY <1>11, StreamStill DEF OnAir
  <2> QED
    BY <1>1, <2>1 DEF StreamInv, StreamTypes, QueueInv, InStep
<1> QED
  BY <1>1, <1>5, <1>6, <1>7, <1>8, <1>9, <1>10, <1>11, HearKeeps, SendKeeps, StopKeeps
  DEF StreamInv, LiveStream

-----------------------------------------------------------------------------
(* The segments                                                             *)

\* The chunks of an interval in which somebody speaks.
Voiced(a, b) == {i \in a..b : voice[i] # 0}

\* A row holds the chunks it says it does, when none was dropped.
RowsInv ==
  \A r \in rows :
    /\ r.seg.from <= r.seg.to
    /\ ~cut => r.seg.words = Voiced(r.seg.from, r.seg.to)

\* Of a segment, whether it is an interval of speech; and whether nobody says more of some words
\* than a speaker.
Spoke(s) == s.from <= s.to /\ s.words = s.from..s.to /\ \A w \in s.words : voice[w] # 0
Most(p, words) == \A w \in words : Count(voice[w], words) <= Count(p, words)

\* A sentence of the batch is an interval of speech, under the name of who says most of it.
BatchInv == \A s \in batch.all : Spoke(s) /\ (s.speaker # 0 => Most(s.speaker, s.words))

\* A named row has its name from such a sentence, which shares speech with it.
NamesInv ==
  ~cut => \A r \in rows : r.seg.speaker # 0 =>
            \E s \in batch.all : s.words \cap r.seg.words # {} /\ Most(r.seg.speaker, s.words)

\* The invariant of the segments.
SegmentInv == SegmentTypes /\ RowsInv /\ BatchInv /\ NamesInv

\* Until the merge, the rows are those of the live stream, without names, which counts them; after it, they
\* or what is still to be stored are something.
StoreInv ==
  /\ phase \in {"idle", "meeting", "drain", "batch", "merge"} \/ OnAir
       => \A r \in rows : r.source = "live" /\ r.seg.speaker = 0
  /\ live.finals > 0 => rows # {}
  /\ phase \in {"idle", "meeting", "drain", "batch", "merge"} /\ live.finals = 0
       /\ live.result \in {"none", "done"} => rows = {}
  /\ phase = "merge" => batch.todo = batch.all /\ (live.finals > 0 \/ batch.all # {})
  /\ phase = "store" => rows # {} \/ batch.todo # {}
  /\ phase \in {"batch", "merge", "store", "annotate"} => stt # "none"

\* The voices of the conversation.
LEMMA VoiceType ==
  ASSUME voice \in Voices
  PROVE  MaxChunks \in Nat /\ \A i \in Chunks : voice[i] \in Nat
<1>1. voice \in [1..MaxChunks -> Nat] /\ MaxChunks \in Nat
  BY TranscriptConstants
<1> QED
  BY <1>1 DEF Chunks

\* What the live stream makes a segment of.
LEMMA LiveSegmentIs ==
  ASSUME PlainTypes, StreamInv, OnAir,
         NEW k \in live.said + 1..Len(live.sent), Spoken(k) # {}
  PROVE  /\ LiveSegment(k) \in Segments /\ LiveSegment(k).speaker = 0
         /\ LiveSegment(k).from <= LiveSegment(k).to
         /\ ~cut => LiveSegment(k).words = Voiced(LiveSegment(k).from, LiveSegment(k).to)
<1> DEFINE S == Spoken(k)
           a == Min(S)
           b == Max(S)
<1>1. /\ live.sent \in Seq(Chunks) /\ Len(live.sent) \in Nat /\ live.said \in Nat /\ k \in Nat
      /\ k <= Len(live.sent) /\ heard \in Nat /\ heard <= MaxChunks /\ MaxChunks \in Nat
      /\ Len(live.sent) <= heard
      /\ \A i \in 1..Len(live.sent) : live.sent[i] \in Chunks
  BY AtTheEnds, TranscriptConstants DEF StreamInv, StreamTypes, Lives, QueueInv
<1>2. S \subseteq live.said + 1..k /\ S \subseteq Chunks /\ S # {}
      /\ \A i \in S : i \in 1..Len(live.sent) /\ live.sent[i] \in Chunks
  <2>1. S \subseteq live.said + 1..k /\ S # {}
    BY DEF Spoken
  <2>2. \A i \in live.said + 1..k : i \in 1..Len(live.sent) /\ i \in 1..MaxChunks
    BY <1>1
  <2> HIDE DEF S
  <2> QED
    BY <1>1, <2>1, <2>2 DEF Chunks
<1>3. S \in SUBSET Int /\ IsFiniteSet(S)
  <2> HIDE DEF S
  <2>1. S \subseteq 1..MaxChunks
    BY <1>2 DEF Chunks
  <2>2. 1 \in Int /\ MaxChunks \in Int
    BY <1>1
  <2> QED
    BY <2>1, <2>2, IntervalsFinite
<1>4. a \in S /\ b \in S /\ \A i \in S : a <= i /\ i <= b
  <2> HIDE DEF S
  <2>1. a \in S /\ \A i \in S : a <= i
    BY <1>2, <1>3, MinOfFinite
  <2>2. b \in S /\ \A i \in S : b >= i
    BY <1>2, <1>3, MaxOfFinite
  <2> QED
    BY <1>3, <2>1, <2>2
<1> DEFINE W == {live.sent[i] : i \in S}
<1>5. LiveSegment(k) = [from |-> a, to |-> b, words |-> W, speaker |-> 0] /\ W \subseteq Chunks
  BY <1>2 DEF LiveSegment
<1>6. ~cut => W = Voiced(a, b)
  <2> SUFFICES ASSUME ~cut PROVE W = Voiced(a, b)
    OBVIOUS
  <2>1. \A i \in 1..Len(live.sent) : live.sent[i] = i
    BY DEF StreamInv, InStep
  <2>2. W = S
    BY <1>2, <2>1
  <2>3. \A i \in a..b : i \in live.said + 1..k /\ i \in 1..Len(live.sent)
    BY <1>1, <1>2, <1>4
  <2>4. \A i \in a..b : i \in S <=> voice[i] # 0
    BY <2>1, <2>3 DEF Spoken
  <2>5. S = {i \in a..b : voice[i] # 0}
    <3> HIDE DEF S
    <3>1. S \subseteq a..b
      BY <1>3, <1>4
    <3> QED
      BY <2>4, <3>1
  <2> QED
    BY <2>2, <2>5 DEF Voiced
<1> HIDE DEF W, S, a, b
<1>7. a \in Chunks /\ b \in Chunks /\ a <= b
  BY <1>2, <1>4
<1> QED
  BY <1>5, <1>6, <1>7 DEF Segments, Chunks

\* The majority of some words is one of their speakers, of whom no other says more.
LEMMA MajorityIs ==
  ASSUME voice \in Voices, NEW words \in SUBSET Chunks, words # {}
  PROVE  Most(Majority(words), words) /\ \E w \in words : Majority(words) = voice[w]
<1>1. MaxChunks \in Nat /\ 1 \in Int /\ MaxChunks \in Int /\ 0 \in Int
  BY TranscriptConstants
<1>2. \A p : Count(p, words) \in 0..MaxChunks
  <2> TAKE p
  <2> DEFINE W == {w \in words : voice[w] = p}
  <2>1. W \in SUBSET (1..MaxChunks) /\ IsFiniteSet(1..MaxChunks)
    BY <1>1, IntervalsFinite DEF Chunks
  <2>2. Cardinality(1..MaxChunks) = MaxChunks
    BY <1>1, FS_Interval
  <2> HIDE DEF W
  <2>3. Cardinality(W) <= Cardinality(1..MaxChunks) /\ IsFiniteSet(W)
    BY <2>1, FS_Subset
  <2>4. Cardinality(W) \in Nat
    BY <2>3, FS_CardinalityType
  <2>5. Cardinality(W) \in 0..MaxChunks
    BY <1>1, <2>2, <2>3, <2>4
  <2> QED
    BY <2>5 DEF Count, W
<1> DEFINE Counts == {Count(voice[w], words) : w \in words}
           most == {w \in words : \A v \in words : Count(voice[v], words) <= Count(voice[w], words)}
<1>3. Counts \in SUBSET Int /\ IsFiniteSet(Counts) /\ Counts # {}
  <2>1. Counts \subseteq 0..MaxChunks /\ Counts # {}
    BY <1>2
  <2> HIDE DEF Counts
  <2> QED
    BY <1>1, <2>1, IntervalsFinite
<1>4. PICK m \in Counts : \A c \in Counts : m >= c
  <2> HIDE DEF Counts
  <2> QED
    BY <1>3, MaxOfFinite
<1>5. most # {}
  <2>1. PICK w \in words : m = Count(voice[w], words)
    OBVIOUS
  <2>2. \A v \in words : Count(voice[v], words) <= Count(voice[w], words)
    BY <1>2, <1>4, <2>1
  <2> QED
    BY <2>2
<1>6. Min(most) \in most
  <2>1. most \subseteq 1..MaxChunks
    BY DEF Chunks
  <2> HIDE DEF most
  <2> QED
    BY <1>1, <1>5, <2>1, IntervalsFinite, MinOfFinite
<1>7. Majority(words) = voice[Min(most)]
  BY DEF Majority
<1> QED
  BY <1>6, <1>7 DEF Most

\* The sentences of the recording, wherever the service breaks them.
LEMMA SentencesAre ==
  ASSUME PlainTypes, heard \in 0..MaxChunks, NEW breaks, NEW s \in Sentences(breaks)
  PROVE  s \in Segments /\ Spoke(s) /\ (s.speaker # 0 => Most(s.speaker, s.words))
<1>1. PICK i \in 1..heard : Begins(i, breaks) /\ s = Sentence(i, breaks)
  BY DEF Sentences
<1>2. MaxChunks \in Nat /\ heard \in Nat /\ heard <= MaxChunks /\ voice[i] # 0
  BY <1>1, VoiceType DEF PlainTypes, Begins
<1> DEFINE S == {k \in i..heard : \A j \in i + 1..k : voice[j] # 0 /\ j \notin breaks}
           b == LastOf(i, breaks)
<1>3. i \in S /\ S \subseteq i..heard
  <2>1. i \in i..heard /\ \A j \in i + 1..i : FALSE
    BY <1>1, <1>2
  <2> QED
    BY <2>1
<1>4. b \in S
  <2>1. S \in SUBSET Int /\ IsFiniteSet(S)
    <3> HIDE DEF S
    <3>1. i \in Int /\ heard \in Int
      BY <1>1, <1>2
    <3>2. S \subseteq i..heard
      BY <1>3
    <3> QED
      BY <3>1, <3>2, IntervalsFinite
  <2>2. Max(S) \in S
    <3> HIDE DEF S
    <3> QED
      BY <1>3, <2>1, MaxOfFinite
  <2> QED
    BY <2>2 DEF LastOf
<1>5. b \in i..heard /\ \A j \in i + 1..b : voice[j] # 0
  BY <1>4
<1> DEFINE p == IF stt = "diarize" THEN Majority(i..b) ELSE 0
<1>6. s = [from |-> i, to |-> b, words |-> i..b, speaker |-> p]
  BY <1>1 DEF Sentence
<1> HIDE DEF b
<1>7. /\ i \in Chunks /\ b \in Chunks /\ i <= b /\ i..b \in SUBSET Chunks /\ i \in i..b
      /\ \A j \in i..b : j = i \/ j \in i + 1..b
  BY <1>1, <1>2, <1>5 DEF Chunks
<1>8. p \in Nat /\ (p # 0 => Most(p, i..b))
  <2>1. Most(Majority(i..b), i..b) /\ Majority(i..b) \in Nat
    <3>1. i..b # {}
      BY <1>7
    <3>2. PICK w \in i..b : Majority(i..b) = voice[w]
      BY <1>7, <3>1, MajorityIs DEF PlainTypes
    <3>3. voice[w] \in Nat
      BY <1>7, VoiceType DEF PlainTypes
    <3> QED
      BY <1>7, <3>1, <3>2, <3>3, MajorityIs DEF PlainTypes
  <2> QED
    BY <2>1
<1> HIDE DEF p
<1> QED
  BY <1>2, <1>5, <1>6, <1>7, <1>8 DEF Segments, Chunks, Spoke

\* The first of some segments is one of them.
LEMMA FirstIs ==
  ASSUME NEW S \in SUBSET Segments, S # {}
  PROVE  First(S) \in S
<1> DEFINE F == {s.from : s \in S}
<1>1. F \subseteq 1..MaxChunks /\ F # {} /\ MaxChunks \in Nat
  BY TranscriptConstants DEF Segments
<1>2. F \in SUBSET Int /\ IsFiniteSet(F)
  BY <1>1, IntervalsFinite
<1>3. PICK m \in F : \A y \in F : m <= y
  <2> HIDE DEF F
  <2> QED
    BY <1>1, <1>2, LeastElement
<1>4. PICK s \in S : s.from = m
  OBVIOUS
<1>5. \A t \in S : s.from <= t.from
  BY <1>3, <1>4
<1> QED
  BY <1>5 DEF First

\* Who speaks does not change, and what was dropped stays so.
LEMMA VoiceAndCut ==
  ASSUME TranscriptStep
  PROVE  voice' = voice /\ stt' = stt /\ (~cut' => ~cut)
<1>1. voice' = voice /\ stt' = stt
  BY DEF TranscriptStep, StartTranscript, Hear, LiveStream, Connect, Send, Final,
   StreamEnds, StreamFails, Steady, StopTranscript, AbortTranscript, EndProcess, Finalise, Drain, Batch,
   BatchFails, Merge, StoreNext, MarkReady, Annotate, BeginNotes, NoNotes, Summarise,
   NotesExhausted, KeepNotes, MarkNotes, NotesStep, Raises, Step, Setting
<1>2. CASE Hear \/ StopTranscript
  BY <1>1, <1>2 DEF Hear, StopTranscript
<1>3. CASE ~Hear /\ ~StopTranscript
  <2>1. cut' = cut
    BY <1>3 DEF TranscriptStep, StartTranscript, LiveStream, Connect, Send, Final,
     StreamEnds, StreamFails, Steady, AbortTranscript, EndProcess, Finalise, Drain, Batch,
     BatchFails, Merge, StoreNext, MarkReady, Annotate, BeginNotes, NoNotes, Summarise,
     NotesExhausted, KeepNotes, MarkNotes, NotesStep, Raises, Audio, Quiet
  <2> QED
    BY <1>1, <2>1
<1> QED
  BY <1>2, <1>3

\* The steps that change no row and no segment.
LEMMA SegmentsStill ==
  ASSUME TranscriptStep, ~Final, ~Batch, ~Merge, ~StoreNext, ~Annotate
  PROVE  UNCHANGED <<rows, batch>>
BY DEF TranscriptStep, StartTranscript, Hear, LiveStream, Connect, Send,
   StreamEnds, StreamFails, Steady, StopTranscript, AbortTranscript, EndProcess, Finalise, Drain,
   BatchFails, MarkReady, BeginNotes, NoNotes, Summarise,
   NotesExhausted, KeepNotes, MarkNotes, NotesStep, Raises, Audio, Quiet

\* The fields of a segment and of a row.
LEMMA SegmentParts ==
  /\ \A s \in Segments : /\ s = [from |-> s.from, to |-> s.to, words |-> s.words, speaker |-> s.speaker]
                          /\ s.from \in Chunks /\ s.to \in Chunks /\ s.words \subseteq Chunks
                          /\ s.speaker \in Nat
  /\ \A r \in Rows : r = [seg |-> r.seg, source |-> r.source] /\ r.seg \in Segments
BY DEF Segments, Rows, Chunks

\* What ingest_segment leaves: the rows there were, and the segment, which is there now.
LEMMA Ingested ==
  ASSUME rows \subseteq Rows, NEW s \in Segments, NEW source \in {"live", "batch"}, Ingest(s, source)
  PROVE  /\ rows \subseteq rows' /\ rows' \subseteq rows \cup {[seg |-> s, source |-> source]}
         /\ rows' \subseteq Rows
         /\ \E r \in rows' : r.seg.from = s.from /\ r.seg.to = s.to /\ r.seg.words = s.words
<1> DEFINE x == [seg |-> s, source |-> source]
<1>1. x \in Rows /\ x.seg = s
  BY DEF Rows
<1>2. CASE \E r \in rows : [r.seg EXCEPT !.speaker = 0] = [s EXCEPT !.speaker = 0]
  <2>1. PICK r \in rows : [r.seg EXCEPT !.speaker = 0] = [s EXCEPT !.speaker = 0]
    BY <1>2
  <2>2. r.seg \in Segments
    BY SegmentParts
  <2>3. r.seg.from = s.from /\ r.seg.to = s.to /\ r.seg.words = s.words
    <3>1. /\ [r.seg EXCEPT !.speaker = 0].from = r.seg.from /\ [s EXCEPT !.speaker = 0].from = s.from
          /\ [r.seg EXCEPT !.speaker = 0].to = r.seg.to /\ [s EXCEPT !.speaker = 0].to = s.to
          /\ [r.seg EXCEPT !.speaker = 0].words = r.seg.words
          /\ [s EXCEPT !.speaker = 0].words = s.words
      BY <2>2 DEF Segments
    <3> QED
      BY <2>1, <3>1
  <2>4. rows' = rows
    BY <1>2 DEF Ingest
  <2> QED
    BY <2>3, <2>4
<1>3. CASE ~\E r \in rows : [r.seg EXCEPT !.speaker = 0] = [s EXCEPT !.speaker = 0]
  <2>1. rows' = rows \cup {x}
    BY <1>3 DEF Ingest
  <2> HIDE DEF x
  <2> QED
    BY <1>1, <2>1 DEF x
<1> QED
  BY <1>2, <1>3

\* What annotate_speakers makes of a row: at most a name is put to it, of a sentence that
\* overlaps it.
LEMMA NamedIs ==
  ASSUME batch.all \subseteq Segments, NEW r \in Rows
  PROVE  /\ Named(r) \in Rows /\ Named(r).source = r.source
         /\ Named(r).seg.from = r.seg.from /\ Named(r).seg.to = r.seg.to
         /\ Named(r).seg.words = r.seg.words
         /\ \/ Named(r).seg.speaker = r.seg.speaker
            \/ \E s \in batch.all : /\ s.from <= r.seg.to /\ r.seg.from <= s.to
                                    /\ Named(r).seg.speaker = s.speaker
<1>1. r = [seg |-> r.seg, source |-> r.source] /\ r.seg \in Segments /\ r.source \in {"live", "batch"}
  BY DEF Rows
<1>2. CASE r.seg.speaker # 0 \/ Overlapping(r) = {}
  BY <1>2 DEF Named
<1>3. CASE ~(r.seg.speaker # 0 \/ Overlapping(r) = {})
  <2> DEFINE s == First(Overlapping(r))
  <2>1. s \in Overlapping(r) /\ s \in batch.all /\ s \in Segments
    <3>1. Overlapping(r) \in SUBSET Segments
      BY DEF Overlapping
    <3>2. s \in Overlapping(r)
      BY <1>3, <3>1, FirstIs
    <3> QED
      BY <3>2 DEF Overlapping
  <2> DEFINE g == [r.seg EXCEPT !.speaker = s.speaker]
  <2>2. g \in Segments /\ g.from = r.seg.from /\ g.to = r.seg.to /\ g.words = r.seg.words
        /\ g.speaker = s.speaker
    <3> HIDE DEF s
    <3> QED
      BY <1>1, <2>1 DEF Segments
  <2>3. Named(r) = [r EXCEPT !.seg = g]
    BY <1>3 DEF Named
  <2>4. s.from <= r.seg.to /\ r.seg.from <= s.to
    BY <2>1 DEF Overlapping
  <2> HIDE DEF g, s
  <2>5. Named(r) = [seg |-> g, source |-> r.source]
    BY <1>1, <2>3
  <2> QED
    BY <1>1, <2>1, <2>2, <2>4, <2>5 DEF Rows
<1> QED
  BY <1>2, <1>3

\* Every step of the transcript keeps the segments.
LEMMA SegmentsKept ==
  ASSUME PlainTypes, StreamInv, SegmentInv, StoreInv, TranscriptStep
  PROVE  SegmentInv'
<1>1. voice' = voice /\ (~cut' => ~cut)
  BY VoiceAndCut
<1>2. rows \subseteq Rows /\ batch \in Batches /\ batch.todo \subseteq batch.all
      /\ batch = [all |-> batch.all, todo |-> batch.todo] /\ batch.all \subseteq Segments
  BY DEF SegmentInv, SegmentTypes, Batches
<1>10. /\ \A s : Spoke(s)' <=> Spoke(s)
       /\ \A p, W : Most(p, W)' <=> Most(p, W)
       /\ \A a, b : Voiced(a, b)' = Voiced(a, b)
  <2>1. \A p, W : Count(p, W)' = Count(p, W)
    BY <1>1 DEF Count
  <2> QED
    BY <1>1, <2>1 DEF Spoke, Most, Voiced
<1>11. ASSUME UNCHANGED <<rows, batch>>
       PROVE  SegmentInv'
  BY <1>1, <1>10, <1>11 DEF SegmentInv, SegmentTypes, RowsInv, BatchInv, NamesInv
<1>3. CASE ~Final /\ ~Batch /\ ~Merge /\ ~StoreNext /\ ~Annotate
  BY <1>3, <1>11, SegmentsStill
\* The rows of a segment that is put down.
<1>4. ASSUME NEW s \in Segments, NEW source \in {"live", "batch"}, Ingest(s, source),
             s.from <= s.to, ~cut => s.words = Voiced(s.from, s.to),
             batch'.all = batch.all,
             s.speaker # 0 => s \in batch.all /\ s.words # {} /\ Most(s.speaker, s.words)
      PROVE  rows' \subseteq Rows /\ RowsInv' /\ NamesInv'
  <2>1. /\ rows' \subseteq Rows /\ \A r \in rows' : r \in rows \/ r.seg = s
    BY <1>2, <1>4, Ingested
  <2>2. RowsInv'
    BY <1>1, <1>4, <2>1 DEF RowsInv, SegmentInv, Voiced
  <2>3. NamesInv'
    <3> SUFFICES ASSUME ~cut', NEW r \in rows', r.seg.speaker # 0
                 PROVE  \E x \in batch.all : /\ x.words \cap r.seg.words # {}
                                             /\ Most(r.seg.speaker, x.words)
      BY <1>1, <1>4, <1>10 DEF NamesInv
    <3>1. CASE r \in rows
      BY <1>1, <3>1 DEF SegmentInv, NamesInv
    <3>2. CASE r.seg = s
      BY <1>4, <3>2
    <3> QED
      BY <2>1, <3>1, <3>2
  <2> QED
    BY <2>1, <2>2, <2>3
<1>5. CASE Final
  <2>1. PICK k \in live.said + 1..Len(live.sent) :
          (Spoken(k) # {} /\ Ingest(LiveSegment(k), "live")) \/ rows' = rows
    BY <1>5 DEF Final
  <2>2. batch' = batch /\ OnAir
    BY <1>5 DEF Final, Steady, OnAir, Running
  <2>3. CASE Spoken(k) # {} /\ Ingest(LiveSegment(k), "live")
    <3> DEFINE s == LiveSegment(k)
    <3>1. s \in Segments /\ s.from <= s.to /\ (~cut => s.words = Voiced(s.from, s.to))
          /\ s.speaker = 0 /\ Ingest(s, "live")
      BY <2>2, <2>3, LiveSegmentIs
    <3> HIDE DEF s
    <3>2. rows' \subseteq Rows /\ RowsInv' /\ NamesInv'
      BY <1>4, <2>2, <3>1
    <3> QED
      BY <1>2, <1>10, <2>2, <3>2 DEF SegmentInv, SegmentTypes, BatchInv
  <2>4. CASE rows' = rows
    BY <1>11, <2>2, <2>4
  <2> QED
    BY <2>1, <2>3, <2>4
<1>6. CASE Batch
  <2>1. PICK result \in {Sentences(breaks) : breaks \in SUBSET (2..heard)} \cup {{}} :
          /\ batch' = [all |-> result, todo |-> result] /\ rows' = rows /\ phase = "batch"
    BY <1>6 DEF Batch, Step
  <2>2. \A s \in result : s \in Segments /\ Spoke(s) /\ (s.speaker # 0 => Most(s.speaker, s.words))
    BY SentencesAre DEF StreamInv, StreamTypes
  <2>3. result \subseteq Segments /\ batch' \in Batches /\ batch'.all = result /\ batch'.todo = result
    BY <2>1, <2>2 DEF Batches
  <2>4. BatchInv'
    BY <1>10, <2>2, <2>3 DEF BatchInv
  <2>5. \A r \in rows' : r.seg.speaker = 0
    BY <2>1 DEF StoreInv
  <2> QED
    BY <1>1, <1>2, <1>10, <2>1, <2>3, <2>4, <2>5
    DEF SegmentInv, SegmentTypes, RowsInv, NamesInv
<1>7. CASE Merge
  <2>1. rows' = rows /\ batch' \in Batches /\ batch'.all = batch.all /\ batch'.todo \subseteq batch.todo
    BY <1>2, <1>7 DEF Merge, Batches
  <2> QED
    BY <1>1, <1>2, <1>10, <2>1 DEF SegmentInv, SegmentTypes, RowsInv, BatchInv, NamesInv
<1>8. CASE StoreNext
  <2> DEFINE s == First(batch.todo)
  <2>1. s \in batch.todo /\ s \in batch.all /\ s \in Segments
    <3>1. batch.todo \in SUBSET Segments /\ batch.todo # {}
      BY <1>2, <1>8 DEF StoreNext
    <3> QED
      BY <1>2, <3>1, FirstIs
  <2>2. Ingest(s, "batch") /\ batch' = [batch EXCEPT !.todo = batch.todo \ {s}]
    BY <1>8 DEF StoreNext
  <2> HIDE DEF s
  <2>3. batch' \in Batches /\ batch'.all = batch.all /\ batch'.todo \subseteq batch.todo
    BY <1>2, <2>2 DEF Batches
  <2>4. Spoke(s) /\ (s.speaker # 0 => Most(s.speaker, s.words))
    BY <2>1 DEF SegmentInv, BatchInv
  <2>5. s.from <= s.to /\ s.words = Voiced(s.from, s.to)
    BY <2>4 DEF Voiced, Spoke
  <2>6. s.words # {}
    <3>1. s.from \in s.words
      BY <2>1, <2>4 DEF Segments, Spoke
    <3> QED
      BY <3>1
  <2>7. rows' \subseteq Rows /\ RowsInv' /\ NamesInv'
    BY <1>4, <2>1, <2>2, <2>3, <2>4, <2>5, <2>6
  <2> QED
    BY <1>2, <1>10, <2>3, <2>7 DEF SegmentInv, SegmentTypes, BatchInv
<1>9. CASE Annotate
  <2>1. batch' = batch /\ cut' = cut /\ (rows' = rows \/ rows' = {Named(r) : r \in rows})
    BY <1>9 DEF Annotate, Quiet
  <2>2. CASE rows' = rows
    BY <1>11, <2>1, <2>2
  <2>3. CASE rows' = {Named(r) : r \in rows}
    <3>1. rows' \subseteq Rows
      BY <1>2, <2>3, NamedIs
    <3>2. RowsInv'
      <4> SUFFICES ASSUME NEW r \in rows
                   PROVE  /\ Named(r).seg.from <= Named(r).seg.to
                          /\ ~cut => Named(r).seg.words = Voiced(Named(r).seg.from, Named(r).seg.to)
        BY <1>1, <2>1, <2>3 DEF RowsInv, Voiced
      <4> QED
        BY <1>2, NamedIs DEF SegmentInv, RowsInv
    <3>3. NamesInv'
      <4> SUFFICES ASSUME ~cut, NEW r \in rows, Named(r).seg.speaker # 0
                   PROVE  \E x \in batch.all : /\ x.words \cap Named(r).seg.words # {}
                                               /\ Most(Named(r).seg.speaker, x.words)
        BY <1>1, <1>10, <2>1, <2>3 DEF NamesInv
      <4>1. Named(r).seg.words = r.seg.words /\ r \in Rows /\ r.seg \in Segments
        BY <1>2, NamedIs, SegmentParts
      <4>2. CASE Named(r).seg.speaker = r.seg.speaker
        BY <4>1, <4>2 DEF SegmentInv, NamesInv
      <4>3. CASE Named(r).seg.speaker # r.seg.speaker
        <5>1. PICK s \in batch.all : /\ s.from <= r.seg.to /\ r.seg.from <= s.to
                                     /\ Named(r).seg.speaker = s.speaker
          BY <1>2, <4>1, <4>3, NamedIs
        <5>2. /\ s.from \in Int /\ s.to \in Int /\ r.seg.from \in Int /\ r.seg.to \in Int
              /\ s.from <= s.to /\ r.seg.from <= r.seg.to
          BY <1>2, <4>1, <5>1 DEF Segments, SegmentInv, BatchInv, Spoke, RowsInv
        <5>3. PICK w \in Int : s.from <= w /\ w <= s.to /\ r.seg.from <= w /\ w <= r.seg.to
          <6>1. CASE s.from <= r.seg.from
            BY <5>1, <5>2, <6>1
          <6>2. CASE r.seg.from <= s.from
            BY <5>1, <5>2, <6>2
          <6> QED
            BY <5>2, <6>1, <6>2
        <5>4. w \in s.words /\ voice[w] # 0 /\ Most(s.speaker, s.words)
          <6>1. w \in s.words
            BY <5>2, <5>3 DEF SegmentInv, BatchInv, Spoke
          <6> QED
            BY <4>3, <5>1, <6>1 DEF SegmentInv, BatchInv, Spoke
        <5>5. w \in r.seg.words
          <6>1. r.seg.words = Voiced(r.seg.from, r.seg.to)
            BY DEF SegmentInv, RowsInv
          <6> QED
            BY <5>2, <5>3, <5>4, <6>1 DEF Voiced
        <5> QED
          BY <4>1, <5>1, <5>4, <5>5
      <4> QED
        BY <4>2, <4>3
    <3> QED
      BY <1>2, <1>10, <2>1, <3>1, <3>2, <3>3 DEF SegmentInv, SegmentTypes, BatchInv
  <2> QED
    BY <2>1, <2>2, <2>3
<1> QED
  BY <1>3, <1>5, <1>6, <1>7, <1>8, <1>9

-----------------------------------------------------------------------------
(* What is stored                                                           *)

\* A row that says what a sentence does.
Kept(s) == \E r \in rows : r.seg.from = s.from /\ r.seg.to = s.to /\ r.seg.words = s.words

\* Nothing that was transcribed live is, or will be, stored again.
ReplayInv ==
  live.result = "done" /\ ~cut =>
    /\ \A r \in rows : r.source = "batch" => ~Replayed(r.seg)
    /\ phase = "store" => \A s \in batch.todo : ~Replayed(s)

\* Every sentence is there, once it has been stored.
LostInv ==
  ~cut =>
    /\ phase = "store" => \A s \in batch.all : Replayed(s) \/ s \in batch.todo \/ Kept(s)
    /\ record.transcription = "ready" => \A s \in batch.all : Replayed(s) \/ Kept(s)

\* The columns of the transcript: each status is set when its rows are stored, and the last.
Late == {"transcribed", "notes", "keep notes", "mark notes", "settled"}
RecordInv ==
  /\ record.transcription = "ready" => phase \in Late \cup {"annotate", "raised"} /\ rows # {}
  /\ record.transcription = "silence" => phase \in Late \cup {"raised"}
  /\ OnAir => record.transcription \notin {"ready", "silence"}
  /\ record.transcription = "silence" /\ live.result = "done" => rows = {}
  /\ stt = "none" /\ phase # "idle" => record.transcription = "disabled"
  /\ phase = "annotate" => record.transcription = "ready"
  /\ phase \in Late /\ heard > 0 => record.transcription # "pending"

\* The columns of the notes.
NotesInv ==
  /\ record.noted => phase \in {"mark notes", "settled", "raised"}
  /\ phase = "mark notes" => record.noted
  /\ record.notes = "ready" => record.noted /\ phase = "settled"
  /\ phase = "settled" /\ record.noted => record.notes = "ready"

\* The columns that a step sets.
LEMMA RecordFields ==
  ASSUME record \in Records
  PROVE  /\ record.noted \in BOOLEAN
         /\ record = [transcription |-> record.transcription, error |-> record.error,
                      notes |-> record.notes, noted |-> record.noted, tries |-> record.tries]
BY DEF Records

\* Every step keeps what is known of the segments still to be stored.
LEMMA StoreKept ==
  ASSUME PlainTypes, StreamInv, SegmentInv, StoreInv, TranscriptStep
  PROVE  StoreInv'
<1>1. /\ voice' = voice /\ stt' = stt /\ Parts(live) /\ live.finals \in Nat /\ rows \subseteq Rows
      /\ batch = [all |-> batch.all, todo |-> batch.todo]
  BY VoiceAndCut DEF StreamInv, StreamTypes, Lives, Parts, SegmentInv, SegmentTypes, Batches
<1>16. OnAir => phase \in {"meeting", "drain", "raised"}
  BY DEF StreamInv, AirInv
<1> USE DEF StoreInv, OnAir
<1>2. CASE StartTranscript
  BY <1>1, <1>2 DEF StartTranscript, StreamInv, AirInv, Parts
<1>3. CASE Hear \/ StopTranscript
  BY <1>1, <1>3 DEF Hear, Drained, StopTranscript, Step
<1>4. CASE Connect \/ Send
  BY <1>1, <1>4 DEF Connect, Send, Steady, Parts, Running
<1>5. CASE Final
  <2>1. PICK k \in live.said + 1..Len(live.sent) :
          \/ /\ Spoken(k) # {} /\ Ingest(LiveSegment(k), "live")
             /\ live' = [live EXCEPT !.said = k, !.finals = @ + 1]
          \/ live' = [live EXCEPT !.said = k] /\ rows' = rows
    BY <1>5 DEF Final
  <2>2. batch' = batch /\ OnAir /\ phase' = phase /\ OnAir'
    BY <1>1, <1>5 DEF Final, Steady, Running, Parts
  <2>3. CASE Spoken(k) # {} /\ Ingest(LiveSegment(k), "live")
             /\ live' = [live EXCEPT !.said = k, !.finals = @ + 1]
    <3> DEFINE s == LiveSegment(k)
    <3>1. s \in Segments /\ s.speaker = 0 /\ Ingest(s, "live")
      BY <2>2, <2>3, LiveSegmentIs
    <3> HIDE DEF s
    <3>2. /\ rows' \subseteq rows \cup {[seg |-> s, source |-> "live"]} /\ rows' # {}
      BY <1>1, <3>1, Ingested
    <3>3. live'.finals = live.finals + 1 /\ live'.result = live.result
      BY <1>1, <2>3 DEF Parts
    <3>4. \A r \in rows' : r.source = "live" /\ r.seg.speaker = 0
      BY <2>2, <3>1, <3>2
    <3> QED
      BY <1>1, <2>2, <3>2, <3>3, <3>4
  <2>4. CASE live' = [live EXCEPT !.said = k] /\ rows' = rows
    BY <1>1, <2>2, <2>4 DEF Parts
  <2> QED
    BY <2>1, <2>3, <2>4
<1>6. CASE StreamEnds \/ StreamFails
  <2>1. UNCHANGED <<rows, batch, phase>> /\ OnAir /\ phase \in {"meeting", "drain", "raised"}
    BY <1>6 DEF StreamEnds, StreamFails, Steady, OnAir, Running, StreamInv, AirInv
  <2>2. PICK r \in {"done", "live-failed", "raised"} : Over(r)
    BY <1>6 DEF StreamEnds, StreamFails
  <2>3. live'.result = r /\ live'.finals = (IF r = "done" THEN live.finals ELSE 0) /\ live.result = "none"
        /\ ~OnAir'
    BY <1>1, <2>1, <2>2, WhenOver DEF OnAir, Running, StreamInv, StreamTypes, AirInv, Results
  <2> QED
    BY <1>1, <2>1, <2>2, <2>3
<1>7. CASE AbortTranscript
  BY <1>1, <1>7 DEF AbortTranscript, Step, Quiet
<1>15. CASE Drain \/ (phase \in {"idle", "raised"} /\ EndProcess)
  <2>1. /\ UNCHANGED <<rows, batch>> /\ phase' \in {"raised", "transcribed", "batch", "idle"}
        /\ (phase' = "batch" => stt # "none") /\ phase \in {"drain", "idle", "raised"}
        /\ (phase' = "idle" => phase = "idle") /\ (phase' = "batch" => phase = "drain")
        /\ (phase = "idle" => live' = live)
    BY <1>15 DEF Drain, EndProcess, Steady, Step, StreamInv, AirInv, Running
  <2>2. CASE live' = live
    <3>1. ~OnAir
      <4>1. OnAir => \E r \in {"live-drain-timeout", "raised"} : Over(r)
        BY <1>15 DEF Drain, Await, EndProcess
      <4>2. ASSUME NEW r \in {"live-drain-timeout", "raised"}, Over(r)
            PROVE  ~OnAir'
        BY <1>1, <4>2, WhenOver DEF Running
      <4> QED
        BY <2>2, <4>1, <4>2
    <3> QED
      BY <1>1, <2>1, <2>2, <3>1
  <2>3. CASE live' # live
    <3>1. PICK r \in {"live-drain-timeout", "raised"} : Over(r)
      BY <1>15, <2>3 DEF Drain, Await, EndProcess
    <3>2. live'.result = r /\ live'.finals = 0 /\ ~OnAir'
      BY <1>1, <3>1, WhenOver DEF Running
    <3> QED
      BY <1>1, <2>1, <3>1, <3>2
  <2> QED
    BY <2>2, <2>3
<1>8. CASE Batch
  <2>1. PICK result : /\ batch' = [all |-> result, todo |-> result]
                      /\ phase' \in {"transcribed", "merge"} /\ phase = "batch"
                      /\ phase' = "merge" => ~(live.finals = 0 /\ result = {})
                      /\ UNCHANGED <<rows, live>>
    BY <1>8 DEF Batch, Step, Quiet, Silent, LiveCount
  <2> QED
    BY <1>1, <2>1
<1>9. CASE BatchFails
  BY <1>1, <1>9 DEF BatchFails, Step, Quiet
<1>10. CASE Merge
  <2>1. phase = "merge" /\ phase' = "store" /\ UNCHANGED <<rows, live>>
        /\ (live.finals = 0 => batch' = batch)
    BY <1>10 DEF Merge, Step, Quiet, LiveCount
  <2> QED
    BY <1>1, <2>1
<1>11. CASE StoreNext
  <2> DEFINE s == First(batch.todo)
  <2>1. s \in Segments /\ Ingest(s, "batch")
    <3>1. batch.todo \in SUBSET Segments /\ batch.todo # {}
      BY <1>11 DEF StoreNext, SegmentInv, SegmentTypes, Batches
    <3> QED
      BY <1>11, <3>1, FirstIs DEF StoreNext
  <2>2. phase = "store" /\ phase' = "store" /\ live' = live
    BY <1>11 DEF StoreNext, Step, Quiet
  <2> HIDE DEF s
  <2>3. rows' # {}
    BY <1>1, <2>1, Ingested
  <2> QED
    BY <1>1, <1>16, <2>2, <2>3
<1>12. CASE MarkReady
  BY <1>1, <1>12, <1>16 DEF MarkReady, Step, Quiet
<1>13. CASE Annotate
  <2>1. /\ phase = "annotate" /\ phase' = "transcribed" /\ live' = live
        /\ (rows # {} => rows' # {})
    BY <1>13 DEF Annotate, Step, Quiet
  <2> QED
    BY <1>1, <1>16, <2>1
<1>14. CASE BeginNotes \/ NoNotes \/ Summarise \/ NotesExhausted \/ KeepNotes \/ MarkNotes \/ Raises
  <2>1. UNCHANGED <<rows, batch, live>>
        /\ phase' \in {"notes", "keep notes", "mark notes", "settled", "raised"}
    BY <1>14 DEF BeginNotes, NoNotes, Summarise, NotesExhausted, KeepNotes, MarkNotes, Raises,
       NotesStep, Step, Quiet
  <2> QED
    BY <1>1, <2>1
<1> QED
  BY <1>2, <1>3, <1>4, <1>5, <1>6, <1>7, <1>8, <1>9, <1>10, <1>11, <1>12, <1>13, <1>14,
     <1>15
  DEF TranscriptStep, Finalise, LiveStream

\* Every step keeps what the run's columns say of its transcript.
LEMMA RecordKept ==
  ASSUME PlainTypes, StreamInv, SegmentInv, StoreInv, RecordInv, TranscriptStep
  PROVE  RecordInv'
<1>1. /\ stt' = stt /\ Parts(live) /\ rows \subseteq Rows /\ record \in Records /\ heard \in Nat
      /\ batch = [all |-> batch.all, todo |-> batch.todo]
  BY VoiceAndCut, TranscriptConstants
  DEF PlainTypes, StreamInv, StreamTypes, Lives, Parts, SegmentInv, SegmentTypes, Batches
<1>2. record.noted \in BOOLEAN
      /\ record = [transcription |-> record.transcription, error |-> record.error,
                   notes |-> record.notes, noted |-> record.noted, tries |-> record.tries]
  BY <1>1, RecordFields
<1>14. OnAir => phase \in {"meeting", "drain", "raised"}
  BY DEF StreamInv, AirInv
<1> USE DEF RecordInv, Late, OnAir
<1>3. CASE StartTranscript
  <2>1. /\ phase = "idle" /\ phase' = "meeting" /\ rows' = rows /\ heard' = heard
        /\ stt = "none" => record' = [record EXCEPT !.transcription = "disabled"]
        /\ stt # "none" => record' = record
    BY <1>3 DEF StartTranscript, Audio
  <2> QED
    BY <1>1, <1>2, <2>1
<1>4. CASE Hear \/ StopTranscript \/ AbortTranscript
  <2>1. /\ phase \in {"meeting", "raised"} /\ phase' \in {"meeting", "drain", "raised"}
        /\ record' = record /\ live' = live /\ rows' = rows /\ (phase = "raised" => phase' = "raised")
    BY <1>4 DEF Hear, Drained, StopTranscript, AbortTranscript, Step, Quiet
  <2> QED
    BY <1>1, <2>1
<1>5. CASE LiveStream
  <2>1. /\ phase' = phase /\ phase \in {"meeting", "drain", "raised"} /\ stt # "none" /\ OnAir
        /\ \/ record' = record
           \/ record' = [record EXCEPT !.transcription = "provider-failed", !.error = "live-failed"]
    BY <1>5 DEF LiveStream, Connect, Send, Final, StreamEnds, StreamFails, Steady, StreamInv, AirInv,
       OnAir, Running
  <2>2. record'.transcription \in {record.transcription, "provider-failed"}
    BY <1>2, <2>1
  <2>3. record.transcription \notin {"ready", "silence"}
    BY <2>1
  <2> QED
    BY <1>1, <2>1, <2>2, <2>3
<1>6. CASE Drain
  <2>1. /\ phase = "drain" /\ phase' \in {"raised", "transcribed", "batch"} /\ record' = record
        /\ heard' = heard /\ (phase' = "transcribed" => heard = 0 \/ stt = "none")
    BY <1>6 DEF Drain, Step
  <2>2. record.transcription \notin {"ready", "silence"} /\ (stt = "none" => record.transcription = "disabled")
    BY <2>1
  <2>3. phase' = "transcribed" /\ heard' > 0 => record'.transcription # "pending"
    BY <2>1, <2>2
  <2>4. CASE phase' = "transcribed"
    BY <1>1, <2>1, <2>2, <2>3, <2>4
  <2>5. CASE phase' # "transcribed"
    BY <1>1, <2>1, <2>2, <2>5
  <2> QED
    BY <2>4, <2>5
<1>7. CASE Batch
  <2>1. /\ phase = "batch" /\ stt # "none" /\ UNCHANGED <<rows, live, heard>>
        /\ \/ /\ phase' = "transcribed" /\ live.finals = 0
              /\ record' = [record EXCEPT !.transcription = "silence", !.error = LiveError]
           \/ phase' = "merge" /\ record' = record
    BY <1>7 DEF Batch, Step, Quiet, Silent, LiveCount, StoreInv
  <2>2. live.result = "done" /\ live.finals = 0 => rows = {}
    BY <2>1 DEF StoreInv
  <2>3. \/ phase' = "transcribed" /\ live.finals = 0 /\ record'.transcription = "silence"
        \/ phase' = "merge" /\ record'.transcription = record.transcription
    BY <1>2, <2>1
  <2> QED
    BY <1>1, <1>14, <2>1, <2>2, <2>3
<1>8. CASE BatchFails
  <2>1. /\ phase = "batch" /\ phase' = "transcribed" /\ stt # "none"
        /\ record'.transcription = "provider-failed"
    BY <1>2, <1>8 DEF BatchFails, Step, StoreInv
  <2> QED
    BY <1>1, <2>1
<1>9. CASE Merge \/ StoreNext
  <2>1. /\ phase \in {"merge", "store"} /\ phase' = "store" /\ record' = record /\ stt # "none"
    BY <1>9 DEF Merge, StoreNext, Step, StoreInv
  <2> QED
    BY <1>1, <2>1
<1>10. CASE MarkReady
  <2>1. /\ phase = "store" /\ phase' \in {"annotate", "transcribed"} /\ rows' = rows /\ rows # {}
        /\ stt # "none" /\ record'.transcription = "ready" /\ live' = live
    BY <1>2, <1>10 DEF MarkReady, Step, Quiet, StoreInv
  <2> QED
    BY <1>1, <1>14, <2>1
<1>11. CASE Annotate
  <2>1. /\ phase = "annotate" /\ phase' = "transcribed" /\ record' = record /\ live' = live
        /\ (rows # {} => rows' # {})
    BY <1>11 DEF Annotate, Step, Quiet
  <2> QED
    BY <1>1, <1>14, <2>1
<1>12. CASE BeginNotes \/ NoNotes \/ Summarise \/ NotesExhausted \/ KeepNotes \/ MarkNotes
  <2>1. UNCHANGED <<rows, live, heard>> /\ phase \in Late /\ phase' \in Late
    BY <1>12 DEF BeginNotes, NoNotes, Summarise, NotesExhausted, KeepNotes, MarkNotes,
       NotesStep, Step, Quiet
  <2>2. record'.transcription = record.transcription
    BY <1>2, <1>12 DEF BeginNotes, NoNotes, Summarise, NotesExhausted, KeepNotes, MarkNotes, NotesStatus
  <2> QED
    BY <1>1, <2>1, <2>2
<1>15. CASE phase \in {"idle", "raised"} /\ EndProcess
  <2>1. /\ UNCHANGED <<rows, record, phase, heard>>
        /\ \/ live' = live
           \/ OnAir /\ live'.result = "raised" /\ ~OnAir'
    BY <1>1, <1>15, WhenOver DEF EndProcess, Steady, Running
  <2> QED
    BY <1>1, <1>15, <2>1
<1>13. CASE Raises
  <2>1. UNCHANGED <<rows, live, record>> /\ phase' = "raised" /\ phase # "idle"
    BY <1>13 DEF Raises
  <2> QED
    BY <1>1, <2>1
<1> QED
  BY <1>3, <1>4, <1>5, <1>6, <1>7, <1>8, <1>9, <1>10, <1>11, <1>12, <1>13,
     <1>15
  DEF TranscriptStep, Finalise

\* Every step keeps what the run's columns say of its notes.
LEMMA NotesKept ==
  ASSUME PlainTypes, StreamInv, NotesInv, TranscriptStep
  PROVE  NotesInv'
<1>1. record.noted \in BOOLEAN
      /\ record = [transcription |-> record.transcription, error |-> record.error,
                   notes |-> record.notes, noted |-> record.noted, tries |-> record.tries]
  BY RecordFields DEF PlainTypes
<1> USE DEF NotesInv
<1>2. CASE ~NoNotes /\ ~Summarise /\ ~NotesExhausted /\ ~KeepNotes /\ ~MarkNotes /\ ~Raises
  <2>1. record'.notes = record.notes /\ record'.noted = record.noted
    BY <1>1, <1>2 DEF TranscriptStep, StartTranscript, Hear, LiveStream, Connect, Send, Final,
       StreamEnds, StreamFails, StopTranscript, AbortTranscript, EndProcess, Finalise, Drain, Batch,
       BatchFails, Merge, StoreNext, MarkReady, Annotate, BeginNotes
  <2>2. phase' \notin {"mark notes", "settled"} \/ phase' = phase
    BY <1>2 DEF TranscriptStep, StartTranscript, Hear, LiveStream, Connect, Send, Final,
       StreamEnds, StreamFails, Steady, StopTranscript, AbortTranscript, EndProcess, Finalise, Drain, Batch,
       BatchFails, Merge, StoreNext, MarkReady, Annotate, BeginNotes, NotesStep, Step
  <2>3. phase \notin {"mark notes", "settled", "raised"} \/ phase' = phase
    BY <1>2 DEF TranscriptStep, StartTranscript, Hear, LiveStream, Connect, Send, Final,
       StreamEnds, StreamFails, Steady, StopTranscript, AbortTranscript, EndProcess, Finalise, Drain, Batch,
       BatchFails, Merge, StoreNext, MarkReady, Annotate, BeginNotes, NotesStep, Step
  <2> QED
    BY <2>1, <2>2, <2>3
<1>3. CASE NoNotes \/ NotesExhausted
  <2>1. /\ phase = "notes" /\ phase' = "settled" /\ record'.noted = record.noted
        /\ record'.notes \in {"disabled", "silence", "provider-failed"}
    BY <1>1, <1>3 DEF NoNotes, NotesExhausted, NotesStep, Step, NotesStatus
  <2> QED
    BY <2>1
<1>4. CASE Summarise
  <2>1. /\ phase = "notes" /\ phase' \in {"notes", "keep notes"} /\ record'.noted = record.noted
        /\ record'.notes = record.notes
    BY <1>1, <1>4 DEF Summarise, NotesStep, Step
  <2> QED
    BY <2>1
<1>5. CASE KeepNotes
  <2>1. /\ phase = "keep notes" /\ phase' = "mark notes" /\ record'.noted
        /\ record'.notes = record.notes
    BY <1>1, <1>5 DEF KeepNotes, NotesStep, Step
  <2> QED
    BY <2>1
<1>6. CASE MarkNotes
  <2>1. /\ phase = "mark notes" /\ phase' = "settled" /\ record'.noted = record.noted
        /\ record'.notes = "ready"
    BY <1>1, <1>6 DEF MarkNotes, NotesStep, Step, NotesStatus
  <2> QED
    BY <2>1
<1>7. CASE Raises
  BY <1>7 DEF Raises
<1> QED
  BY <1>2, <1>3, <1>4, <1>5, <1>6, <1>7

-----------------------------------------------------------------------------
(* What was said, once                                                      *)

\* What was said live of a sentence depends on the chunks of the live rows alone.
LEMMA ReplayedSame ==
  ASSUME LiveChunks' = LiveChunks, NEW s
  PROVE  Replayed(s)' <=> Replayed(s)
BY DEF Replayed, SaidLive

\* The words of a segment are finitely many.
LEMMA WordsFinite ==
  ASSUME NEW s \in Segments
  PROVE  IsFiniteSet(s.words) /\ Cardinality(s.words) \in Nat
<1>1. s.words \subseteq 1..MaxChunks /\ MaxChunks \in Nat
  BY TranscriptConstants DEF Segments
<1>2. IsFiniteSet(s.words)
  BY <1>1, IntervalsFinite
<1> QED
  BY <1>2, FS_CardinalityType

\* As long as all rows are live, what the merge takes for covered is what is there.
LEMMA CoveredIsReplayed ==
  ASSUME PlainTypes, SegmentInv, ~cut, \A r \in rows : r.source = "live", NEW s \in batch.all
  PROVE  CoveredByLive(s, rows) <=> Replayed(s)
<1>1. rows \subseteq Rows /\ s \in Segments /\ s.words = Span(s)
      /\ \A w \in s.words : voice[w] # 0
  BY DEF SegmentInv, SegmentTypes, Batches, BatchInv, Spoke, Span
<1>2. \A r \in rows : r.seg.words = {i \in Span(r.seg) : voice[i] # 0}
  BY DEF SegmentInv, RowsInv, Voiced, Span
<1>3. SaidLive(s) = Span(s) \cap UNION {Span(r.seg) : r \in rows}
  <2>1. \A w : w \in SaidLive(s) <=> w \in s.words /\ \E r \in rows : w \in r.seg.words
    BY DEF SaidLive, LiveChunks
  <2>2. ASSUME NEW w \in s.words
        PROVE  \A r \in rows : w \in r.seg.words <=> w \in Span(r.seg)
    BY <1>1, <1>2
  <2>3. \A w : w \in Span(s) \cap UNION {Span(r.seg) : r \in rows}
                <=> w \in Span(s) /\ \E r \in rows : w \in Span(r.seg)
    OBVIOUS
  <2>4. \A w : w \in SaidLive(s) <=> w \in Span(s) \cap UNION {Span(r.seg) : r \in rows}
    BY <1>1, <2>1, <2>2, <2>3
  <2> QED
    BY <2>4
<1> QED
  BY <1>1, <1>3 DEF CoveredByLive, Replayed

\* What was not transcribed live does not replay it.
LEMMA NothingToReplay ==
  ASSUME rows = {}, NEW s \in Segments, s.words # {}
  PROVE  ~Replayed(s)
<1>1. SaidLive(s) = {} /\ Cardinality({}) = 0
  <2>1. \A w : w \notin SaidLive(s)
    BY DEF SaidLive, LiveChunks
  <2> QED
    BY <2>1, FS_EmptySet
<1>2. Cardinality(s.words) \in Nat /\ Cardinality(s.words) # 0
  BY WordsFinite, FS_EmptySet
<1>3. Coverage \in Nat /\ Coverage >= 1
  BY TranscriptConstants
<1>4. ~(0 >= Coverage * Cardinality(s.words))
  <2>1. PICK n \in Nat : n = Cardinality(s.words) /\ n >= 1
    BY <1>2
  <2>2. \A c, k \in Nat : c >= 1 /\ k >= 1 => c * k >= 1
    OBVIOUS
  <2>3. Coverage * n >= 1
    BY <1>3, <2>1, <2>2
  <2>4. Coverage * n \in Nat
    BY <1>3, <2>1
  <2> QED
    BY <2>1, <2>3, <2>4
<1> QED
  BY <1>1, <1>4 DEF Replayed

\* The steps that leave the live chunks alone.
LEMMA LiveChunksKept ==
  ASSUME SegmentInv, TranscriptStep, ~Final
  PROVE  LiveChunks' = LiveChunks
<1>1. rows \subseteq Rows /\ batch.all \subseteq Segments /\ batch.todo \subseteq batch.all
  BY DEF SegmentInv, SegmentTypes, Batches
<1>2. CASE ~Batch /\ ~Merge /\ ~StoreNext /\ ~Annotate
  BY <1>2, SegmentsStill DEF LiveChunks
<1>3. CASE Batch \/ Merge
  BY <1>3 DEF Batch, Merge, LiveChunks
<1>4. CASE StoreNext
  <2> DEFINE s == First(batch.todo)
  <2>1. s \in Segments /\ Ingest(s, "batch")
    <3>1. batch.todo \in SUBSET Segments /\ batch.todo # {}
      BY <1>1, <1>4 DEF StoreNext
    <3> QED
      BY <1>4, <3>1, FirstIs DEF StoreNext
  <2> HIDE DEF s
  <2>2. rows \subseteq rows' /\ rows' \subseteq rows \cup {[seg |-> s, source |-> "batch"]}
    BY <1>1, <2>1, Ingested
  <2>3. {q \in rows' : q.source = "live"} = {q \in rows : q.source = "live"}
    BY <2>2
  <2> QED
    BY <2>3 DEF LiveChunks
<1>5. CASE Annotate
  <2>1. CASE rows' = rows
    BY <2>1 DEF LiveChunks
  <2>2. CASE rows' = {Named(r) : r \in rows}
    <3>1. \A r \in rows : Named(r).seg.words = r.seg.words /\ Named(r).source = r.source
      BY <1>1, NamedIs
    <3>2. \A w : w \in LiveChunks' <=> \E r \in rows' : r.source = "live" /\ w \in r.seg.words
      BY DEF LiveChunks
    <3>3. \A w : w \in LiveChunks <=> \E r \in rows : r.source = "live" /\ w \in r.seg.words
      BY DEF LiveChunks
    <3>4. \A w : w \in LiveChunks' <=> w \in LiveChunks
      BY <2>2, <3>1, <3>2, <3>3
    <3> QED
      BY <3>4
  <2> QED
    BY <1>5, <2>1, <2>2 DEF Annotate
<1> QED
  BY <1>2, <1>3, <1>4, <1>5

\* No step stores a sentence that the live rows have told already.
LEMMA ReplayKept ==
  ASSUME PlainTypes, StreamInv, SegmentInv, StoreInv, ReplayInv, TranscriptStep
  PROVE  ReplayInv'
<1>1. /\ (~cut' => ~cut) /\ rows \subseteq Rows /\ batch.all \subseteq Segments /\ Parts(live)
      /\ batch.todo \subseteq batch.all /\ batch = [all |-> batch.all, todo |-> batch.todo]
  BY VoiceAndCut DEF StreamInv, StreamTypes, Lives, Parts, SegmentInv, SegmentTypes, Batches
<1>2. SUFFICES ASSUME live'.result = "done", ~cut'
               PROVE  /\ \A r \in rows' : r.source = "batch" => ~Replayed(r.seg)'
                      /\ phase' = "store" => \A s \in batch'.todo : ~Replayed(s)'
  BY DEF ReplayInv
\* Until the merge there is nothing but live rows.
<1>3. CASE phase' \in {"idle", "meeting", "drain", "batch", "merge"}
  <2>1. StoreInv'
    BY StoreKept
  <2> QED
    BY <1>3, <2>1 DEF StoreInv
<1>5. CASE Final \/ StreamEnds
  <2>1. rows' \subseteq rows \/ \A r \in rows' : r.source = "live"
    <3>1. CASE Final
      <4>1. OnAir'
        BY <1>1, <3>1 DEF Final, OnAir, Running, Parts
      <4>2. StoreInv'
        BY StoreKept
      <4> QED
        BY <4>1, <4>2 DEF StoreInv
    <3>2. CASE StreamEnds
      BY <3>2 DEF StreamEnds, Steady
    <3> QED
      BY <1>5, <3>1, <3>2
  <2>2. phase' = phase /\ phase # "store" /\ \A r \in rows : r.source = "live"
    BY <1>5 DEF Final, StreamEnds, Steady, StreamInv, AirInv, OnAir, Running, StoreInv
  <2> QED
    BY <2>1, <2>2
<1>4. CASE /\ phase' \notin {"idle", "meeting", "drain", "batch", "merge"}
           /\ ~Final /\ ~StreamEnds
  <2>1. ~Final /\ ~StreamEnds
    BY <1>4
  <2>2. live.result = "done" /\ LiveChunks' = LiveChunks
    <3>1. CASE live' = live
      BY <1>2, <2>1, <3>1, LiveChunksKept
    <3>2. CASE live' # live
      <4>1. CASE ~LiveStream
        <5>1. PICK x \in {"live-drain-timeout", "raised"} : Over(x)
          BY <1>4, <3>2, <4>1, StreamStill
          DEF StartTranscript, Hear, StopTranscript, AbortTranscript, Quiet, Drain, Await, EndProcess
        <5> QED
          BY <1>1, <1>2, <5>1, WhenOver
      <4>2. CASE LiveStream
        <5>1. live'.result = live.result \/ \E x \in {"live-failed", "raised"} : Over(x)
          BY <1>1, <2>1, <4>2 DEF LiveStream, Connect, Send, StreamFails, Parts
        <5>2. live.result = "done"
          BY <1>1, <1>2, <5>1, WhenOver
        <5> QED
          BY <4>2, <5>2 DEF LiveStream, Connect, Send, Final, StreamEnds, StreamFails,
             StreamInv, AirInv, OnAir, Running
      <4> QED
        BY <4>1, <4>2
    <3> QED
      BY <3>1, <3>2
  <2>3. \A s : Replayed(s)' <=> Replayed(s)
    BY <2>2, ReplayedSame
  <2>4. /\ \A r \in rows : r.source = "batch" => ~Replayed(r.seg)
        /\ phase = "store" => \A s \in batch.todo : ~Replayed(s)
    BY <1>1, <1>2, <2>2 DEF ReplayInv
  <2>5. CASE Merge
    <3>1. phase = "merge" /\ rows' = rows /\ \A r \in rows : r.source = "live"
      BY <2>5 DEF Merge, Step, StoreInv
    <3>2. ASSUME NEW s \in batch'.todo
          PROVE  ~Replayed(s)
      <4>1. CASE live.finals = 0
        <5>1. s \in batch.all /\ rows = {}
          BY <1>1, <2>2, <2>5, <3>1, <3>2, <4>1 DEF Merge, LiveCount, StoreInv
        <5>2. s \in Segments /\ s.words # {}
          <6>1. s \in Segments /\ s.from <= s.to /\ s.words = s.from..s.to
            BY <1>1, <5>1 DEF SegmentInv, BatchInv, Spoke
          <6>2. s.from \in Int /\ s.to \in Int
            BY <6>1 DEF Segments
          <6>3. s.from \in s.words
            BY <6>1, <6>2
          <6> QED
            BY <6>1, <6>3
        <5> QED
          BY <5>1, <5>2, NothingToReplay
      <4>2. CASE live.finals # 0
        <5>1. batch' = [batch EXCEPT !.todo = {x \in batch.todo : ~CoveredByLive(x, rows)}]
          BY <2>5, <4>2 DEF Merge, LiveCount
        <5>2. s \in batch.all /\ ~CoveredByLive(s, rows)
          BY <1>1, <3>2, <5>1
        <5> QED
          BY <1>1, <1>2, <3>1, <5>2, CoveredIsReplayed
      <4> QED
        BY <4>1, <4>2
    <3>3. \A r \in rows' : r.source # "batch"
      BY <3>1
    <3> QED
      BY <2>3, <3>2, <3>3
  <2>6. CASE StoreNext
    <3> DEFINE s == First(batch.todo)
    <3>1. s \in Segments /\ s \in batch.todo /\ Ingest(s, "batch") /\ phase = "store"
          /\ batch' = [batch EXCEPT !.todo = batch.todo \ {s}]
      <4>1. batch.todo \in SUBSET Segments /\ batch.todo # {}
        BY <1>1, <2>6 DEF StoreNext
      <4> QED
        BY <2>6, <4>1, FirstIs DEF StoreNext, Step
    <3> HIDE DEF s
    <3>2. rows' \subseteq rows \cup {[seg |-> s, source |-> "batch"]} /\ batch'.todo \subseteq batch.todo
      BY <1>1, <3>1, Ingested
    <3>3. ~Replayed(s) /\ \A r \in rows' : r \in rows \/ r.seg = s
      BY <2>4, <3>1, <3>2
    <3> QED
      BY <2>3, <2>4, <3>1, <3>2, <3>3
  <2>7. CASE Annotate
    <3>1. phase' # "store" /\ (rows' = rows \/ rows' = {Named(r) : r \in rows})
      BY <2>7 DEF Annotate, Step
    <3>2. \A r \in rows : /\ Named(r).source = r.source
                          /\ Replayed(Named(r).seg) <=> Replayed(r.seg)
      <4> SUFFICES ASSUME NEW r \in rows
                   PROVE  /\ Named(r).source = r.source
                          /\ Replayed(Named(r).seg) <=> Replayed(r.seg)
        OBVIOUS
      <4>1. Named(r).source = r.source /\ Named(r).seg.words = r.seg.words
        BY <1>1, NamedIs
      <4> QED
        BY <4>1 DEF Replayed, SaidLive
    <3> QED
      BY <2>3, <2>4, <3>1, <3>2
  <2>8. CASE ~Merge /\ ~StoreNext /\ ~Annotate /\ ~Batch
    <3>1. UNCHANGED <<rows, batch>>
      BY <2>1, <2>8, SegmentsStill
    <3>2. phase' = "store" => phase = "store"
      BY <1>4, <2>8 DEF TranscriptStep, StartTranscript, Hear, LiveStream, Connect, Send, Final,
       StreamEnds, StreamFails, Steady, StopTranscript, AbortTranscript, EndProcess, Finalise, Drain,
       BatchFails, MarkReady, BeginNotes, NoNotes, Summarise,
       NotesExhausted, KeepNotes, MarkNotes, NotesStep, Raises, Step
    <3> QED
      BY <2>3, <2>4, <3>1, <3>2
  <2>9. CASE Batch
    BY <2>3, <2>4, <2>9 DEF Batch, Step
  <2> QED
    BY <2>5, <2>6, <2>7, <2>8, <2>9
<1> QED
  BY <1>3, <1>4, <1>5

\* A row that is kept stays, or is given a name.
LEMMA KeptStays ==
  ASSUME SegmentInv, TranscriptStep, NEW s, Kept(s)
  PROVE  Kept(s)'
<1>1. rows \subseteq Rows /\ batch.all \subseteq Segments /\ batch.todo \subseteq batch.all
  BY DEF SegmentInv, SegmentTypes, Batches
<1>2. PICK r \in rows : r.seg.from = s.from /\ r.seg.to = s.to /\ r.seg.words = s.words
  BY DEF Kept
<1>3. CASE rows \subseteq rows'
  BY <1>2, <1>3 DEF Kept
<1>4. CASE Annotate
  <2>1. rows' = rows \/ Named(r) \in rows'
    BY <1>2, <1>4 DEF Annotate
  <2>2. /\ Named(r).seg.from = r.seg.from /\ Named(r).seg.to = r.seg.to
        /\ Named(r).seg.words = r.seg.words
    BY <1>1, <1>2, NamedIs
  <2> QED
    BY <1>2, <1>3, <2>1, <2>2 DEF Kept
<1>5. CASE ~Annotate
  <2>1. Final \/ StoreNext => \A x : rows \subseteq rows'
    BY DEF Final, StoreNext, Ingest
  <2>2. Batch \/ Merge => rows' = rows
    BY DEF Batch, Merge
  <2>3. ~Final /\ ~Batch /\ ~Merge /\ ~StoreNext => rows' = rows
    BY <1>5, SegmentsStill
  <2> QED
    BY <1>3, <2>1, <2>2, <2>3
<1> QED
  BY <1>4, <1>5

\* No step passes over a sentence that the live rows have not told.
LEMMA LostKept ==
  ASSUME PlainTypes, StreamInv, SegmentInv, StoreInv, RecordInv, LostInv, TranscriptStep
  PROVE  LostInv'
<1>1. /\ (~cut' => ~cut) /\ rows \subseteq Rows /\ batch.all \subseteq Segments
      /\ batch.todo \subseteq batch.all /\ batch = [all |-> batch.all, todo |-> batch.todo]
      /\ record \in Records
  BY VoiceAndCut DEF PlainTypes, SegmentInv, SegmentTypes, Batches
<1>2. record = [transcription |-> record.transcription, error |-> record.error,
                notes |-> record.notes, noted |-> record.noted, tries |-> record.tries]
  BY <1>1, RecordFields
<1>3. SUFFICES ASSUME ~cut'
               PROVE  /\ phase' = "store" =>
                           \A s \in batch'.all : Replayed(s)' \/ s \in batch'.todo \/ Kept(s)'
                      /\ record'.transcription = "ready" =>
                           \A s \in batch'.all : Replayed(s)' \/ Kept(s)'
  BY DEF LostInv
<1>4. /\ ~cut
      /\ phase = "store" => \A s \in batch.all : Replayed(s) \/ s \in batch.todo \/ Kept(s)
      /\ record.transcription = "ready" => \A s \in batch.all : Replayed(s) \/ Kept(s)
  BY <1>1, <1>3 DEF LostInv
<1>5. \A s : Kept(s) => Kept(s)'
  BY KeptStays
<1>6. ~Final => \A s : Replayed(s) => Replayed(s)'
  BY LiveChunksKept, ReplayedSame
<1>7. CASE Merge
  <2>1. phase = "merge" /\ phase' = "store" /\ rows' = rows /\ record' = record /\ ~Final
        /\ \A r \in rows : r.source = "live"
    BY <1>7 DEF Merge, Step, StoreInv, Final, StreamInv, AirInv, OnAir, Running
  <2>2. record.transcription # "ready" /\ batch'.all = batch.all
    BY <1>1, <1>7, <2>1 DEF RecordInv, Late, Merge
  <2>3. ASSUME NEW s \in batch.all
        PROVE  Replayed(s) \/ s \in batch'.todo
    <3>1. CoveredByLive(s, rows) <=> Replayed(s)
      BY <1>4, <2>1, <2>3, CoveredIsReplayed
    <3>2. s \in batch.todo
      BY <2>1, <2>3 DEF StoreInv
    <3> QED
      BY <1>1, <1>7, <3>1, <3>2 DEF Merge
  <2> QED
    BY <1>6, <2>1, <2>2, <2>3
<1>8. CASE StoreNext
  <2>0. PICK s : s = First(batch.todo)
    OBVIOUS
  <2>1. s \in Segments /\ s \in batch.todo /\ Ingest(s, "batch") /\ phase = "store" /\ ~Final
        /\ batch' = [batch EXCEPT !.todo = batch.todo \ {s}] /\ record' = record
    <3>1. batch.todo \in SUBSET Segments /\ batch.todo # {}
      BY <1>1, <1>8 DEF StoreNext
    <3> QED
      BY <1>8, <2>0, <3>1, FirstIs
      DEF StoreNext, Step, Final, StreamInv, AirInv, OnAir, Running
  <2>2. record.transcription # "ready" /\ batch'.all = batch.all /\ batch'.todo = batch.todo \ {s}
    BY <1>1, <2>1 DEF RecordInv, Late
  <2>3. Kept(s)'
    BY <1>1, <2>1, Ingested DEF Kept
  <2> QED
    BY <1>4, <1>5, <1>6, <2>1, <2>2, <2>3
<1>9. CASE MarkReady
  <2>1. phase = "store" /\ phase' # "store" /\ batch.todo = {} /\ batch' = batch /\ ~Final
    BY <1>9 DEF MarkReady, Step, Final, StreamInv, AirInv, OnAir, Running
  <2>2. batch'.all = batch.all /\ \A s \in batch.all : Replayed(s) \/ Kept(s)
    BY <1>4, <2>1
  <2>3. \A s \in batch.all : Replayed(s)' \/ Kept(s)'
    BY <1>5, <1>6, <2>1, <2>2
  <2> QED
    BY <2>1, <2>2, <2>3
<1>10. CASE Final
  <2>1. phase \in {"meeting", "drain", "raised"} /\ phase' = phase /\ record' = record /\ OnAir
    BY <1>10 DEF Final, Steady, StreamInv, AirInv, OnAir, Running
  <2> QED
    BY <2>1 DEF RecordInv, Late
<1>11. CASE ~Merge /\ ~StoreNext /\ ~MarkReady /\ ~Final
  <2>1. phase' = "store" => phase = "store" /\ batch' = batch
    BY <1>11 DEF TranscriptStep, StartTranscript, Hear, LiveStream, Connect, Send,
       StreamEnds, StreamFails, Steady, StopTranscript, AbortTranscript, EndProcess, Finalise, Drain, Batch,
       BatchFails, Annotate, BeginNotes, NoNotes, Summarise,
       NotesExhausted, KeepNotes, MarkNotes, NotesStep, Raises, Step
  <2>2. record'.transcription = "ready" => record.transcription = "ready"
    BY <1>2, <1>11 DEF TranscriptStep, StartTranscript, Hear, LiveStream, Connect, Send,
       StreamEnds, StreamFails, StopTranscript, AbortTranscript, EndProcess, Finalise, Drain, Batch,
       BatchFails, Annotate, BeginNotes, NoNotes, Summarise,
       NotesExhausted, KeepNotes, MarkNotes, NotesStatus, Raises
  <2>3. record.transcription = "ready" => batch' = batch
    <3>1. CASE Batch
      BY <3>1 DEF Batch, Step, RecordInv, Late
    <3>2. CASE ~Batch
      <4>1. CASE Annotate
        BY <4>1 DEF Annotate
      <4>2. CASE ~Annotate
        BY <1>11, <3>2, <4>2, SegmentsStill
      <4> QED
        BY <4>1, <4>2
    <3> QED
      BY <3>1, <3>2
  <2>4. \A s : (Replayed(s) => Replayed(s)') /\ (Kept(s) => Kept(s)')
    BY <1>5, <1>6, <1>11
  <2>5. CASE phase' = "store"
    <3>1. record'.transcription # "ready"
      BY <1>1, <2>1, <2>2, <2>5 DEF RecordInv, Late
    <3> QED
      BY <1>4, <2>1, <2>4, <2>5, <3>1
  <2>6. CASE phase' # "store"
    <3>1. SUFFICES ASSUME record'.transcription = "ready", NEW s \in batch'.all
                   PROVE  Replayed(s)' \/ Kept(s)'
      BY <2>6
    <3> QED
      BY <1>4, <2>2, <2>3, <2>4, <3>1
  <2> QED
    BY <2>5, <2>6
<1> QED
  BY <1>7, <1>8, <1>9, <1>10, <1>11

-----------------------------------------------------------------------------
(* The pod: the visit and the transcript together                           *)

\* The invariant of the transcript.
TranscriptInv ==
  /\ PlainTypes /\ StreamInv /\ SegmentInv /\ StoreInv /\ RecordInv /\ NotesInv
  /\ ReplayInv /\ LostInv

\* A completed run has come to the end of its notes.
StatusInv ==
  /\ status \in {"joining", "recording", "processing", "completed", "failed"}
  /\ status = "completed" => phase = "settled"

\* The invariant of the pod.
AttendInv == VisitInv /\ TranscriptInv /\ StatusInv

\* A transcript begins with everything its invariant says.
LEMMA TranscriptBegins == TranscriptInit => TranscriptInv
<1> SUFFICES ASSUME TranscriptInit PROVE TranscriptInv
  OBVIOUS
<1> USE DEF TranscriptInit
<1>1. MaxChunks \in Nat /\ QueueLimit \in Nat /\ Attempts \in Nat /\ MaxFaults \in Nat
  BY TranscriptConstants
<1>2. PlainTypes
  BY <1>1 DEF PlainTypes, Records, Phases
<1>3. StreamInv
  <2>1. Len(queue) = 0 /\ Len(live.sent) = 0 /\ queue \in Seq(0..MaxChunks) /\ live.sent \in Seq(Chunks)
    BY EmptySeq
  <2>2. live \in Lives
    BY <2>1 DEF Lives, Results
  <2>3. /\ live.pc = "off" /\ live.said = 0 /\ live.finals = 0 /\ live.result = "none"
        /\ live.sent = <<>> /\ queue = <<>> /\ heard = 0 /\ rows = {} /\ phase = "idle" /\ cut = FALSE
    OBVIOUS
  <2>4. StreamTypes
    <3>1. heard \in 0..MaxChunks
      BY <1>1, <2>3
    <3>2. cut \in BOOLEAN
      BY <2>3
    <3>3. Len(queue) <= QueueLimit /\ live.said <= Len(live.sent)
      BY <1>1, <2>1, <2>3
    <3> QED
      BY <2>1, <2>2, <3>1, <3>2, <3>3 DEF StreamTypes
  <2>5. AirInv /\ ~OnAir
    BY <2>3 DEF AirInv, OnAir, Running
  <2> QED
    BY <2>4, <2>5 DEF StreamInv, QueueInv, InStep
<1>4. SegmentInv
  BY DEF SegmentInv, SegmentTypes, Batches, RowsInv, BatchInv, NamesInv
<1>5. StoreInv /\ RecordInv /\ NotesInv
  BY DEF StoreInv, RecordInv, NotesInv, Late, OnAir, Running
<1>6. ReplayInv /\ LostInv
  BY DEF ReplayInv, LostInv
<1> QED
  BY <1>2, <1>3, <1>4, <1>5, <1>6 DEF TranscriptInv

\* Every step of the transcript keeps all of its invariant.
LEMMA TranscriptKept == TranscriptInv /\ (TranscriptStep \/ UNCHANGED trVars) => TranscriptInv'
<1> SUFFICES ASSUME TranscriptInv, TranscriptStep \/ UNCHANGED trVars PROVE TranscriptInv'
  OBVIOUS
<1>1. CASE TranscriptStep
  <2>1. PlainTypes /\ StreamInv /\ SegmentInv /\ AirInv /\ live.result \in Results
    BY DEF TranscriptInv, StreamInv, StreamTypes, Lives
  <2>2. PlainTypes' /\ StreamInv'
    BY <1>1, <2>1, PlainTypesKept, StreamKept
  <2>3. SegmentInv'
    BY <1>1, <2>1, SegmentsKept DEF TranscriptInv
  <2>4. StoreInv' /\ RecordInv' /\ NotesInv'
    BY <1>1, <2>1, StoreKept, RecordKept, NotesKept DEF TranscriptInv
  <2>5. ReplayInv' /\ LostInv'
    BY <1>1, <2>1, ReplayKept, LostKept DEF TranscriptInv
  <2> QED
    BY <2>2, <2>3, <2>4, <2>5 DEF TranscriptInv
<1>2. CASE UNCHANGED trVars
  <2> USE <1>2 DEF TranscriptInv, trVars
  <2>1. PlainTypes'
    BY DEF PlainTypes
  <2>2. StreamInv'
    BY DEF StreamInv, StreamTypes, AirInv, QueueInv, InStep, OnAir
  <2>3. SegmentInv'
    BY DEF SegmentInv, SegmentTypes, RowsInv, BatchInv, Spoke, Most, NamesInv, Voiced,
       Count
  <2>4. StoreInv' /\ RecordInv' /\ NotesInv'
    BY DEF StoreInv, RecordInv, NotesInv, OnAir
  <2>5. LiveChunks' = LiveChunks /\ \A s : Kept(s)' <=> Kept(s)
    BY DEF LiveChunks, Kept
  <2>6. \A s : Replayed(s)' <=> Replayed(s)
    BY <2>5, ReplayedSame
  <2>7. ReplayInv'
    BY <2>6 DEF ReplayInv
  <2>8. LostInv'
    BY <2>5, <2>6 DEF LostInv
  <2> QED
    BY <2>1, <2>2, <2>3, <2>4, <2>7, <2>8
<1> QED
  BY <1>1, <1>2

\* A step of the pod is one of the visit, one of the transcript, or both.
LEMMA AttendSteps ==
  ASSUME Next
  PROVE  [JoinNext]_joinVars /\ (TranscriptStep \/ UNCHANGED trVars)
<1>1. CASE Surroundings
  BY <1>1 DEF Surroundings, OnThePage, JoinNext
<1>2. CASE Look
  BY <1>2 DEF Look, OnThePage, JoinNext
<1>3. CASE Record
  BY <1>3 DEF Record, JoinNext, Visit, TranscriptStep
<1>4. CASE Listen \/ Transcribe
  BY <1>4 DEF Listen, Transcribe, OffThePage, TranscriptStep
<1>5. CASE StopRecording
  BY <1>5 DEF StopRecording, OffThePage, TranscriptStep
<1>6. CASE Finish \/ Persist
  BY <1>6 DEF Finish, Persist, OffThePage, TranscriptStep
<1>7. CASE Complete \/ FailRun
  BY <1>7 DEF Complete, FailRun, OffThePage, TranscriptStep
<1> QED
  BY <1>1, <1>2, <1>3, <1>4, <1>5, <1>6, <1>7 DEF Next, Pod

\* Nothing comes after the notes.
LEMMA SettledStays ==
  ASSUME StreamInv, TranscriptStep, phase = "settled"
  PROVE  FALSE
BY DEF StreamInv, AirInv, OnAir, Running, TranscriptStep, StartTranscript, Hear, LiveStream, Connect,
   Send, Final, StreamEnds, StreamFails, StopTranscript, AbortTranscript, EndProcess, Finalise, Drain, Batch,
   BatchFails, Merge, StoreNext, MarkReady, Annotate, BeginNotes, NoNotes, Summarise,
   NotesExhausted, KeepNotes, MarkNotes, NotesStep, Raises, Step, Drained

\* Every step of the pod keeps the columns of a completed run true.
LEMMA StatusKept ==
  ASSUME TranscriptInv, StatusInv, Next
  PROVE  StatusInv'
<1>1. phase = "settled" => UNCHANGED trVars
  BY AttendSteps, SettledStays DEF TranscriptInv
<1>2. phase = "settled" => phase' = "settled"
  BY <1>1 DEF trVars
<1> QED
  BY <1>2 DEF StatusInv, Next, Pod, Surroundings, Look, OnThePage, Record, Listen, Transcribe,
     StopRecording, Finish, Persist, Complete, FailRun, EndProcess, Steady, trVars

\* The pod begins with its invariant.
LEMMA AttendBegins == Init => AttendInv
<1>1. Init => VisitInv /\ TranscriptInv
  BY VisitBegins, TranscriptBegins DEF Init
<1>2. Init => StatusInv
  BY DEF Init, StatusInv
<1> QED
  BY <1>1, <1>2 DEF AttendInv

\* Every step of the pod keeps its invariant.
LEMMA AttendKept == AttendInv /\ [Next]_attendVars => AttendInv'
<1> SUFFICES ASSUME AttendInv, [Next]_attendVars PROVE AttendInv'
  OBVIOUS
<1>1. [JoinNext]_joinVars /\ (TranscriptStep \/ UNCHANGED trVars)
  BY AttendSteps DEF attendVars
<1>2. VisitInv' /\ TranscriptInv'
  BY <1>1, VisitKept, TranscriptKept DEF AttendInv
<1>3. StatusInv'
  <2>1. CASE Next
    BY <2>1, StatusKept DEF AttendInv
  <2>2. CASE UNCHANGED attendVars
    BY <2>2 DEF AttendInv, attendVars, StatusInv, trVars
  <2> QED
    BY <2>1, <2>2
<1> QED
  BY <1>2, <1>3 DEF AttendInv

-----------------------------------------------------------------------------

\* The pod pays the visits of JoinFlow: what is proved of a visit holds of every run.
THEOREM PodVisits == Spec => JoinSpec
<1>1. Init => JoinInit
  BY DEF Init
<1>2. [Next]_attendVars => [JoinNext]_joinVars
  BY AttendSteps DEF attendVars
<1> QED BY <1>1, <1>2, PTL DEF Spec, JoinSpec

\* The values of everything the pod keeps; in particular, the queue of live chunks is bounded.
THEOREM TypeCorrect == Spec => []TypeOK
<1>1. AttendInv => TypeOK
  <2> SUFFICES ASSUME AttendInv PROVE TypeOK
    OBVIOUS
  <2> USE DEF AttendInv, TranscriptInv
  <2>1. JoinTypeOK /\ status \in {"joining", "recording", "processing", "completed", "failed"}
    BY DEF VisitInv, StatusInv
  <2>2. /\ voice \in Voices /\ stt \in {"none", "plain", "diarize"} /\ phase \in Phases
        /\ faults \in 0..MaxFaults
        /\ record.transcription \in {"pending", "disabled", "provider-failed", "silence", "ready"}
        /\ record.error \in {"none", "live-failed", "live-drain-timeout", "batch-failed"}
        /\ record.notes \in {"pending", "disabled", "silence", "provider-failed", "ready"}
        /\ record.noted \in BOOLEAN /\ record.tries \in 0..Attempts
    BY DEF PlainTypes, Records
  <2>3. /\ heard \in 0..MaxChunks /\ cut \in BOOLEAN /\ Len(queue) <= QueueLimit
        /\ live.pc \in {"off", "over"} \cup Running /\ live.result \in Results /\ live.finals \in Nat
        /\ queue \in Seq(0..MaxChunks) /\ live.sent \in Seq(Chunks)
        /\ live.said \in Nat /\ live.said <= Len(live.sent)
    BY DEF StreamInv, StreamTypes, Lives
  <2>4. /\ \A i \in DOMAIN queue : queue[i] \in 0..MaxChunks
        /\ \A i \in DOMAIN live.sent : live.sent[i] \in 1..MaxChunks
        /\ live.said \in 0..Len(live.sent)
    <3>1. \A i \in DOMAIN queue : queue[i] \in 0..MaxChunks
      BY <2>3, LenProperties, ElementOfSeq
    <3>2. \A i \in DOMAIN live.sent : live.sent[i] \in 1..MaxChunks
      BY <2>3, LenProperties, ElementOfSeq DEF Chunks
    <3>3. PICK n \in Nat : n = Len(live.sent)
      BY <2>3, AtTheEnds
    <3>4. live.said \in 0..n
      BY <2>3, <3>3
    <3> QED
      BY <3>1, <3>2, <3>3, <3>4
  <2>5. rows \subseteq Rows /\ batch.all \subseteq Segments /\ batch.todo \subseteq batch.all
    BY DEF SegmentInv, SegmentTypes, Batches
  <2>6. TranscriptTypeOK
    BY <2>2, <2>3, <2>4, <2>5 DEF TranscriptTypeOK
  <2> QED
    BY <2>1, <2>6 DEF TypeOK
<1> QED BY <1>1, AttendBegins, AttendKept, PTL DEF Spec

\* What the finalisation adds to a live transcript that came to its end repeats none of it.
THEOREM MergeRepeatsNothing == Spec => []NothingReplayed
<1>1. AttendInv => NothingReplayed
  BY DEF AttendInv, TranscriptInv, ReplayInv, NothingReplayed
<1> QED BY <1>1, AttendBegins, AttendKept, PTL DEF Spec

\* .. and leaves nothing out, wherever the live stream broke off.
THEOREM MergeLosesNothing == Spec => []NothingSaidIsLost
<1>1. AttendInv => NothingSaidIsLost
  BY DEF AttendInv, TranscriptInv, LostInv, NothingSaidIsLost, Kept
<1> QED BY <1>1, AttendBegins, AttendKept, PTL DEF Spec

\* A row that has a name has it from a sentence that shares speech with it, in which nobody else
\* says more: of no other sentence, and of nobody with fewer words.
THEOREM NamesAreShared == Spec => []NamesFromSharedSpeech
<1>1. AttendInv => NamesFromSharedSpeech
  BY DEF AttendInv, TranscriptInv, SegmentInv, NamesInv, NamesFromSharedSpeech, Most
<1> QED BY <1>1, AttendBegins, AttendKept, PTL DEF Spec

\* What the columns of a completed run say of its transcript and notes is so.
THEOREM CompletedRunsTell == Spec => []StatusTellsTruth
<1>1. AttendInv => StatusTellsTruth
  <2> SUFFICES ASSUME AttendInv, status = "completed"
               PROVE  /\ record.transcription = "ready" => rows # {}
                      /\ record.transcription = "silence" /\ live.result = "done" => rows = {}
                      /\ heard > 0 => record.transcription # "pending"
                      /\ (record.notes = "ready") = record.noted
    BY DEF StatusTellsTruth
  <2>1. phase = "settled" /\ RecordInv /\ NotesInv /\ record.noted \in BOOLEAN
    BY DEF AttendInv, StatusInv, TranscriptInv, PlainTypes, Records
  <2> QED
    BY <2>1 DEF RecordInv, NotesInv, Late
<1> QED BY <1>1, AttendBegins, AttendKept, PTL DEF Spec
=============================================================================
