------------------------ MODULE RunLifecycle_proofs ------------------------
(***************************************************************************)
(* Proofs about RunLifecycle, for any number of worker tasks and of Job    *)
(* incarnations.  The inductive invariant is TypeOK /\ OneParticipant /\   *)
(* RowTracksPod: a pod enters the meeting through advance(JOINING), which  *)
(* needs a queued run, and RowTracksPod says that a run with a pod in its  *)
(* meeting is not queued.  BInv adds that the row says as much as the pods *)
(* have done, and EInv that the log walks the pipeline and tells           *)
(* "completed" once.  The lemmas ...Type show that a kind of step keeps    *)
(* TypeOK, the lemmas ...Meeting that it keeps the rest.                   *)
(***************************************************************************)
EXTENDS RunLifecycle, FiniteSetTheorems, TLAPS

IInv == TypeOK /\ OneParticipant /\ RowTracksPod

\* What advance accepts: the _ALLOWED table read backwards, for the targets of the
\* pipeline.
LEMMA AdvancesFrom ==
  ASSUME NEW s \in Statuses
  PROVE  /\ Advances(s, "joining") => s = "queued"
         /\ Advances(s, "joined") => s = "joining"
         /\ Advances(s, "recording") => s = "joined"
         /\ Advances(s, "processing") => s = "recording"
         /\ s \in Terminal => \A t \in Statuses : ~Advances(s, t)
BY DEF Advances, CanTransition, Allowed, Statuses, Live, Terminal

\* advance writes a well-typed row whose status is its target.
LEMMA AdvancedRow ==
  ASSUME NEW r \in Rows, NEW target \in Statuses
  PROVE  Advanced(r, target) \in Rows /\ Advanced(r, target).status = target
BY DEF Advanced, Rows, Terminal

\* So do the transactions that fail the run.
LEMMA FailedRow ==
  ASSUME row \in Rows, NEW c
  PROVE  Failed(c) \in Rows /\ Failed(c).status = "failed"
<1> DEFINE r == [row EXCEPT !.error = TRUE, !.stop = IF c = "stopped" THEN c ELSE "failure"]
<1>1. r \in Rows
  BY DEF Rows
<1>2. "failed" \in Statuses
  BY DEF Statuses, Terminal
<1> QED
  BY <1>1, <1>2, AdvancedRow DEF Failed

\* What store_recording leaves of a well-typed row is well-typed.
LEMMA RecordedRow ==
  ASSUME row \in Rows, NEW r \in Recorded
  PROVE  r \in Rows
<1>1. CASE r = row
  BY <1>1
<1>2. ASSUME NEW m \in {row.manifest, TRUE},
             r = [row EXCEPT !.recording = "stored", !.manifest = m]
      PROVE  r \in Rows
  BY <1>2 DEF Rows
<1> QED
  BY <1>1, <1>2 DEF Recorded

\* What a commit with an event leaves.
LEMMA CommitType ==
  ASSUME TypeOK, NEW r \in Rows, CommitStatus(r)
  PROVE  row' \in Rows /\ events' \in Seq(Statuses)
<1>1. r.status \in Statuses
  BY DEF Rows
<1> QED
  BY <1>1 DEF CommitStatus, TypeOK

\* The initial state of a queued run has its type.
LEMMA InitType == Init => TypeOK
<1> SUFFICES ASSUME Init PROVE TypeOK
  OBVIOUS
<1>1. row \in Rows
  BY DEF Init, Rows, Statuses, Live, Terminal
<1>2. events \in Seq(Statuses)
  <2>1. "queued" \in Statuses
    BY DEF Statuses
  <2> QED
    BY <2>1 DEF Init
<1>3. /\ pc \in [Callers -> JobPcs \cup TaskPcs]
      /\ \A j \in Jobs : pc[j] \in JobPcs
      /\ \A t \in Tasks : pc[t] \in TaskPcs
  BY JobsAndTasks DEF Init, Callers, JobPcs, TaskPcs
<1>4. mem \in [Callers -> Memories]
  BY DEF Init, Memories, Blank, Codes
<1> QED
  BY <1>1, <1>2, <1>3, <1>4 DEF Init, TypeOK

\* Go keeps pods at pod labels and tasks at task labels.
PcOK == /\ pc \in [Callers -> JobPcs \cup TaskPcs]
        /\ \A j \in Jobs : pc[j] \in JobPcs
        /\ \A t \in Tasks : pc[t] \in TaskPcs

\* Moving one pod's program counter keeps the pods' types.
LEMMA GoType ==
  ASSUME PcOK, NEW c \in Callers, NEW l,
         c \in Jobs => l \in JobPcs, c \in Tasks => l \in TaskPcs, Go(c, l)
  PROVE  PcOK'
BY DEF PcOK, Go, Callers

\* Fails and Ends leave well-typed memories and labels.
LEMMA FailsType ==
  ASSUME PcOK, mem \in [Callers -> Memories], NEW c \in Callers, NEW e \in Codes, Fails(c, e)
  PROVE  PcOK' /\ mem' \in [Callers -> Memories]
<1>1. "recover" \in JobPcs \cap TaskPcs
  BY DEF JobPcs, TaskPcs, FailPcs
<1>2. [Blank EXCEPT !.code = e] \in Memories
  BY DEF Blank, Memories, Codes
<1>3. Go(c, "recover") /\ mem' = [mem EXCEPT ![c] = [Blank EXCEPT !.code = e]]
  BY DEF Fails
<1> QED
  BY <1>1, <1>2, <1>3, GoType

\* A pod that ends keeps the pods' types.
LEMMA EndsType ==
  ASSUME PcOK, mem \in [Callers -> Memories], NEW c \in Callers, NEW l,
         c \in Jobs => l = "exit", c \in Tasks => l = "done", Ends(c, l)
  PROVE  PcOK' /\ mem' \in [Callers -> Memories]
<1>1. "exit" \in JobPcs /\ "done" \in TaskPcs
  BY DEF JobPcs, TaskPcs
<1>2. Blank \in Memories
  BY DEF Blank, Memories, Codes
<1>3. Go(c, l) /\ mem' = [mem EXCEPT ![c] = Blank]
  BY DEF Ends
<1> QED
  BY <1>1, <1>2, <1>3, GoType

\* TypeOK with its conjuncts about pc gathered.
LEMMA TypeSplit ==
  TypeOK <=> /\ row \in Rows /\ events \in Seq(Statuses)
             /\ beat \in BOOLEAN /\ flag \in BOOLEAN
             /\ jobObj \in Jobs \cup {NoJob}
             /\ PcOK /\ mem \in [Callers -> Memories]
             /\ api \in {"idle", "queued"} /\ sweep \in {"idle", "selected", "probed"}
BY DEF TypeOK, PcOK

\* The steps of a pod inside attend.
LEMMA PodType ==
  ASSUME TypeOK, NEW j \in Jobs,
         JobStep(j) \/ Checkpoint(j) \/ AttendRaises(j) \/ Beat(j) \/ Crash(j) \/ Sigterm(j)
  PROVE  TypeOK'
<1> USE JobsAndTasks
<1>0. /\ row \in Rows /\ events \in Seq(Statuses) /\ PcOK /\ mem \in [Callers -> Memories]
      /\ j \in Callers /\ j \notin Tasks
  BY TypeSplit DEF Callers
<1>1. ASSUME NEW l, NEW target \in Statuses, NEW m \in JobPcs, JobAdvance(j, l, target, m)
      PROVE  TypeOK'
  <2>1. CASE Advances(row.status, target)
    <3>1. Advanced(row, target) \in Rows
      BY <1>0, AdvancedRow
    <3>2. CommitStatus(Advanced(row, target)) /\ Go(j, m) /\ UNCHANGED <<beat, mem>>
      BY <1>1, <2>1 DEF JobAdvance
    <3>3. row' \in Rows /\ events' \in Seq(Statuses)
      BY <3>1, <3>2, CommitType
    <3>4. PcOK'
      BY <1>0, <3>2, GoType
    <3> QED
      BY <1>1, <3>2, <3>3, <3>4, TypeSplit DEF JobAdvance, JobUnchanged, TypeOK, PcOK
  <2>2. CASE ~Advances(row.status, target)
    <3>1. Fails(j, "other") /\ beat' = FALSE /\ UNCHANGED <<row, events>> /\ JobUnchanged
      BY <1>1, <2>2 DEF JobAdvance, Raised
    <3>2. PcOK' /\ mem' \in [Callers -> Memories]
      BY <1>0, <3>1, FailsType DEF Codes
    <3> QED
      BY <3>1, <3>2 DEF JobUnchanged, TypeOK, PcOK
  <2> QED
    BY <2>1, <2>2
<1>2. CASE AttendJoining(j)
  BY <1>1, <1>2 DEF AttendJoining, Statuses, Live, JobPcs, AttendPcs
<1>3. CASE AttendJoined(j)
  BY <1>1, <1>3 DEF AttendJoined, Statuses, Live, JobPcs, AttendPcs
<1>4. CASE AttendRecording(j)
  BY <1>1, <1>4 DEF AttendRecording, Statuses, Live, JobPcs, AttendPcs
<1>5. ASSUME NEW l \in JobPcs, Go(j, l)
      PROVE  PcOK'
  BY <1>0, <1>5, GoType
<1>6. ASSUME NEW h \in BOOLEAN, mem' = [mem EXCEPT ![j].halt = h]
      PROVE  mem' \in [Callers -> Memories]
  BY <1>0, <1>6 DEF Memories
<1>7. CASE Admission(j)
  BY <1>5, <1>6, <1>7 DEF Admission, Stopping, JobUnchanged, TypeOK, PcOK, JobPcs, AttendPcs
<1>8. CASE MeetingEnded(j)
  BY <1>5, <1>6, <1>8 DEF MeetingEnded, Stopping, JobUnchanged, TypeOK, PcOK, JobPcs, AttendPcs
<1>9. CASE StopCheck(j)
  <2>1. PcOK' /\ mem' \in [Callers -> Memories]
    BY <1>0, <1>5, <1>9, FailsType DEF StopCheck, JobPcs, AttendPcs, Codes
  <2> QED
    BY <1>9, <2>1 DEF StopCheck, JobUnchanged, TypeOK, PcOK
<1>10. CASE PersistRecording(j)
  <2>1. CASE Advances(row.status, "processing")
    <3>1. PICK r \in Recorded : CommitStatus(Advanced(r, "processing"))
      BY <1>10, <2>1 DEF PersistRecording
    <3>2. r \in Rows
      BY <1>0, <3>1, RecordedRow
    <3>3. Advanced(r, "processing") \in Rows
      BY <3>2, AdvancedRow DEF Statuses, Live
    <3>4. row' \in Rows /\ events' \in Seq(Statuses)
      BY <3>1, <3>3, CommitType
    <3>5. PcOK'
      BY <1>5, <1>10, <2>1 DEF PersistRecording, JobPcs, AttendPcs
    <3> QED
      BY <1>10, <2>1, <3>4, <3>5 DEF PersistRecording, JobUnchanged, TypeOK, PcOK
  <2>2. CASE ~Advances(row.status, "processing")
    <3>1. PcOK' /\ mem' \in [Callers -> Memories]
      BY <1>0, <1>10, <2>2, FailsType DEF PersistRecording, Raised, Codes
    <3> QED
      BY <1>10, <2>2, <3>1 DEF PersistRecording, Raised, JobUnchanged, TypeOK, PcOK
  <2> QED
    BY <2>1, <2>2
<1>11. CASE Summarized(j)
  <2>1. /\ mem[j].halt \in BOOLEAN /\ mem[j].sigterm \in BOOLEAN
        /\ flag \in BOOLEAN
    BY <1>0 DEF Memories, TypeOK
  <2>3. (mem[j].halt \/ Requested(j)) \in BOOLEAN
    BY <2>1 DEF Requested
  <2>2. PcOK' /\ mem' \in [Callers -> Memories]
    BY <1>5, <1>6, <1>11, <2>3 DEF Summarized, JobPcs, AttendPcs
  <2> QED
    BY <1>11, <2>2 DEF Summarized, JobUnchanged, TypeOK, PcOK
<1>12. CASE CompleteRead(j)
  <2>1. PcOK' /\ mem' \in [Callers -> Memories]
    BY <1>0, <1>5, <1>12, FailsType DEF CompleteRead, Raised, JobPcs, AttendPcs, Codes
  <2> QED
    BY <1>12, <2>1 DEF CompleteRead, Raised, JobUnchanged, TypeOK, PcOK
<1>13. CASE CompleteCommit(j)
  <2> DEFINE r == [row EXCEPT
                     !.recording = IF pc[j] = "completing-silent" THEN "no-audio" ELSE @,
                     !.error     = @ \/ mem[j].halt,
                     !.stop      = IF mem[j].halt THEN "stopped" ELSE @]
  <2>1. r \in Rows
    BY <1>0 DEF Rows
  <2>2. CommitStatus(Advanced(r, "completed"))
    BY <1>13 DEF CompleteCommit
  <2>3. Advanced(r, "completed") \in Rows
    BY <2>1, AdvancedRow DEF Statuses, Terminal
  <2>4. row' \in Rows /\ events' \in Seq(Statuses)
    BY <2>2, <2>3, CommitType
  <2>5. PcOK' /\ mem' \in [Callers -> Memories]
    BY <1>0, <1>13, EndsType DEF CompleteCommit
  <2> QED
    BY <1>13, <2>4, <2>5 DEF CompleteCommit, JobUnchanged, TypeOK, PcOK
<1>14. CASE Checkpoint(j)
  <2>1. row' \in Rows
    BY <1>0, <1>14 DEF Checkpoint, Rows
  <2> QED
    BY <1>14, <2>1 DEF Checkpoint, JobUnchanged, TypeOK, PcOK
<1>15. CASE AttendRaises(j)
  <2>1. PcOK' /\ mem' \in [Callers -> Memories]
    BY <1>0, <1>15, FailsType DEF AttendRaises, Raised, Codes
  <2> QED
    BY <1>15, <2>1 DEF AttendRaises, Raised, JobUnchanged, TypeOK, PcOK
<1>16. CASE Beat(j)
  BY <1>16 DEF Beat, JobUnchanged, TypeOK, PcOK
<1>17. CASE Crash(j)
  <2>1. PcOK' /\ mem' \in [Callers -> Memories]
    BY <1>0, <1>17, EndsType DEF Crash
  <2> QED
    BY <1>17, <2>1 DEF Crash, JobUnchanged, TypeOK, PcOK
<1>18. CASE Sigterm(j)
  <2>1. mem' \in [Callers -> Memories]
    BY <1>0, <1>18 DEF Sigterm, Memories
  <2> QED
    BY <1>18, <2>1 DEF Sigterm, TypeOK, PcOK
<1> QED
  BY <1>2, <1>3, <1>4, <1>7, <1>8, <1>9, <1>10, <1>11, <1>12, <1>13, <1>14, <1>15, <1>16,
     <1>17, <1>18 DEF JobStep

\* The steps of fail_run.
LEMMA FailType ==
  ASSUME TypeOK, NEW c \in Callers, FailStep(c)
  PROVE  TypeOK'
<1> USE JobsAndTasks
<1>0. /\ row \in Rows /\ events \in Seq(Statuses) /\ PcOK /\ mem \in [Callers -> Memories]
      /\ beat \in BOOLEAN
  BY TypeSplit
<1>1. \A l \in FailPcs : l \in JobPcs /\ l \in TaskPcs
  BY DEF JobPcs, TaskPcs
<1>2. ASSUME FailReturns(c)
      PROVE  PcOK' /\ mem' \in [Callers -> Memories] /\ beat' \in BOOLEAN
  <2>1. Ends(c, IF c \in Jobs THEN "exit" ELSE "done")
    BY <1>2 DEF FailReturns
  <2>2. PcOK' /\ mem' \in [Callers -> Memories]
    <3>1. CASE c \in Jobs
      BY <1>0, <2>1, <3>1, EndsType
    <3>2. CASE c \notin Jobs
      BY <1>0, <2>1, <3>2, EndsType
    <3> QED
      BY <3>1, <3>2
  <2>3. beat' = (beat /\ ~(c \in Jobs /\ mem[c].code # "other"))
    BY <1>2 DEF FailReturns
  <2> QED
    BY <1>0, <2>2, <2>3
<1>3. ASSUME NEW l \in FailPcs, Go(c, l)
      PROVE  PcOK'
  BY <1>0, <1>1, <1>3, GoType
<1>4. CASE FailRecoverRead(c)
  BY <1>3, <1>4 DEF FailRecoverRead, FailUnchanged, FailPcs, TypeOK, PcOK
<1>5. CASE FailRecoverCommit(c)
  <2>1. row' \in Rows
    BY <1>0, <1>5 DEF FailRecoverCommit, Rows
  <2> QED
    BY <1>3, <1>5, <2>1 DEF FailRecoverCommit, FailUnchanged, FailPcs, TypeOK, PcOK
<1>6. CASE FailRead(c)
  <2>1. PcOK' /\ mem' \in [Callers -> Memories] /\ beat' \in BOOLEAN
    BY <1>0, <1>2, <1>3, <1>6 DEF FailRead, FailPcs
  <2> QED
    BY <1>6, <2>1 DEF FailRead, FailUnchanged, TypeOK, PcOK
<1>7. CASE FailCommit(c)
  <2>1. CommitStatus(Failed(mem[c].code)) /\ FailReturns(c)
    BY <1>7 DEF FailCommit
  <2>2. row' \in Rows /\ events' \in Seq(Statuses)
    BY <1>0, <2>1, FailedRow, CommitType
  <2>3. PcOK' /\ mem' \in [Callers -> Memories] /\ beat' \in BOOLEAN
    BY <1>2, <2>1
  <2> QED
    BY <1>7, <2>2, <2>3 DEF FailCommit, FailUnchanged, TypeOK, PcOK
<1> QED
  BY <1>4, <1>5, <1>6, <1>7 DEF FailStep

\* The steps of a worker task.
LEMMA TaskType ==
  ASSUME TypeOK, NEW t \in Tasks, TaskStep(t) \/ TaskStops(t) \/ Redelivered(t)
  PROVE  TypeOK'
<1> USE JobsAndTasks
<1>0. PcOK /\ mem \in [Callers -> Memories] /\ t \in Callers /\ t \notin Jobs
  BY TypeSplit DEF Callers
<1>1. ASSUME NEW l \in TaskPcs, Go(t, l)
      PROVE  PcOK'
  BY <1>0, <1>1, GoType
<1>2. ASSUME NEW e \in Codes, Fails(t, e)
      PROVE  PcOK' /\ mem' \in [Callers -> Memories]
  BY <1>0, <1>2, FailsType
<1>3. ASSUME Ends(t, "done")
      PROVE  PcOK' /\ mem' \in [Callers -> Memories]
  BY <1>0, <1>3, EndsType
<1>4. ASSUME \/ UNCHANGED mem /\ \E l \in TaskPcs : Go(t, l)
             \/ \E e \in Codes : Fails(t, e)
             \/ Ends(t, "done")
      PROVE  PcOK' /\ mem' \in [Callers -> Memories]
  BY <1>0, <1>1, <1>2, <1>3, <1>4
<1>5. CASE RunClaim(t)
  BY <1>4, <1>5 DEF RunClaim, TaskUnchanged, TypeOK, PcOK, TaskPcs, Codes
<1>6. CASE CheckQueued(t)
  BY <1>4, <1>6 DEF CheckQueued, TaskUnchanged, TypeOK, PcOK, TaskPcs
<1>7. CASE Admit(t)
  BY <1>4, <1>7 DEF Admit, TaskUnchanged, TypeOK, PcOK, TaskPcs, Codes
<1>8. CASE LookupJob(t)
  BY <1>4, <1>8 DEF LookupJob, TaskUnchanged, TypeOK, PcOK, TaskPcs
<1>9. CASE CreateJob(t)
  <2>1. CASE jobObj # NoJob
    BY <1>4, <1>9, <2>1 DEF CreateJob, TaskUnchanged, TypeOK, PcOK, Codes
  <2>2. CASE jobObj = NoJob
    <3>1. PICK j \in Jobs : /\ jobObj' = j
                            /\ pc' = [pc EXCEPT ![t] = "watch", ![j] = "starting"]
                            /\ UNCHANGED mem
      BY <1>9, <2>2 DEF CreateJob
    <3>2. "watch" \in TaskPcs /\ "starting" \in JobPcs
      BY DEF TaskPcs, JobPcs, AttendPcs
    <3>3. PcOK'
      BY <1>0, <3>1, <3>2 DEF PcOK, Callers
    <3> QED
      BY <1>9, <3>1, <3>3 DEF CreateJob, TaskUnchanged, TypeOK, PcOK
  <2> QED
    BY <2>1, <2>2
<1>10. CASE WatchFinished(t)
  BY <1>4, <1>10 DEF WatchFinished, TaskUnchanged, TypeOK, PcOK, TaskPcs, Codes
<1>11. CASE WatchMissing(t)
  BY <1>4, <1>11 DEF WatchMissing, TaskUnchanged, TypeOK, PcOK, TaskPcs
<1>12. CASE WatchTimeout(t)
  <2>1. PcOK'
    BY <1>1, <1>12 DEF WatchTimeout, TaskPcs
  <2>2. mem' \in [Callers -> Memories] /\ jobObj' \in Jobs \cup {NoJob}
    <3>1. CASE UNCHANGED <<jobObj, mem>>
      BY <3>1 DEF TypeOK
    <3>2. ASSUME NEW s \in BOOLEAN, mem' = [mem EXCEPT ![jobObj].sigterm = @ \/ s],
                 jobObj' = NoJob
          PROVE  mem' \in [Callers -> Memories] /\ jobObj' \in Jobs \cup {NoJob}
      <4>1. jobObj \in Callers
        BY <1>12 DEF WatchTimeout, TypeOK, Callers
      <4>2. mem[jobObj].sigterm \in BOOLEAN
        BY <1>0, <4>1 DEF Memories
      <4>3. (mem[jobObj].sigterm \/ s) \in BOOLEAN
        BY <4>2
      <4> QED
        BY <1>0, <3>2, <4>1, <4>3 DEF Memories
    <3> QED
      BY <1>12, <3>1, <3>2 DEF WatchTimeout
  <2> QED
    BY <1>12, <2>1, <2>2 DEF WatchTimeout, TaskUnchanged, TypeOK, PcOK
<1>13. CASE AwaitTerminal(t)
  BY <1>4, <1>13 DEF AwaitTerminal, TaskUnchanged, TypeOK, PcOK, TaskPcs, Codes
<1>14. CASE TaskStops(t)
  BY <1>4, <1>14 DEF TaskStops, TaskUnchanged, TypeOK, PcOK
<1>15. CASE Redelivered(t)
  BY <1>4, <1>15 DEF Redelivered, TaskUnchanged, TypeOK, PcOK, TaskPcs
<1>16. CASE TaskRaises(t)
  BY <1>4, <1>16 DEF TaskRaises, TaskUnchanged, TypeOK, PcOK, Codes
<1> QED
  BY <1>5, <1>6, <1>7, <1>8, <1>9, <1>10, <1>11, <1>12, <1>13, <1>14, <1>15, <1>16 DEF TaskStep

\* The steps of the API, the sweep, Redis and Kubernetes.
OtherStep == \/ CancelGet \/ CancelCommit \/ RequestCancel \/ Sweep
             \/ BeatExpires \/ CancelExpires \/ JobExpires

\* The steps of the API, the sweep, Redis and Kubernetes keep the type invariant.
LEMMA OtherType ==
  ASSUME TypeOK, OtherStep
  PROVE  TypeOK'
<1>0. row \in Rows
  BY DEF TypeOK
<1>1. ASSUME NEW c, CommitStatus(Failed(c))
      PROVE  row' \in Rows /\ events' \in Seq(Statuses)
  BY <1>0, <1>1, FailedRow, CommitType
<1>2. CASE CancelCommit
  BY <1>1, <1>2 DEF CancelCommit, Others, TypeOK
<1>3. CASE SweepCommit
  BY <1>1, <1>3 DEF SweepCommit, Others, TypeOK
<1>4. CASE CancelGet \/ RequestCancel \/ SweepSelect \/ SweepProbe
           \/ BeatExpires \/ CancelExpires \/ JobExpires
  BY <1>4 DEF CancelGet, RequestCancel, SweepSelect, SweepProbe, BeatExpires, CancelExpires,
              JobExpires, Others, TypeOK
<1> QED
  BY <1>2, <1>3, <1>4 DEF OtherStep, Sweep

\* Every step keeps the type invariant.
LEMMA NextType == TypeOK /\ [Next]_vars => TypeOK'
<1> SUFFICES ASSUME TypeOK, [Next]_vars PROVE TypeOK'
  OBVIOUS
<1>1. CASE UNCHANGED vars
  BY <1>1 DEF vars, TypeOK
<1>2. CASE Next
  BY <1>2, PodType, FailType, TaskType, OtherType DEF Next, OtherStep
<1> QED
  BY <1>1, <1>2

\* TypeOK of every reachable state, whatever the number of tasks and pods.
THEOREM TypeCorrect == Spec => []TypeOK
BY InitType, NextType, PTL DEF Spec

-----------------------------------------------------------------------------
(* Who is in the meeting, and what the row says of it.                      *)

\* A step of one caller keeps both facts when it leaves the other pods alone, does
\* not bring its own pod into the meeting, keeps the row at its pod's stage, and
\* moves the pipeline for its own pod only.
LEMMA KeepsMeeting ==
  ASSUME TypeOK, OneParticipant, RowTracksPod, NEW c \in Callers,
         \A k \in Jobs \ {c} : pc'[k] = pc[k] /\ mem'[k].code = mem[k].code,
         c \in Jobs /\ InMeeting(c)' =>
           InMeeting(c) /\ row'.status \in Expected(pc'[c]) \cup Terminal,
         \/ row'.status = row.status
         \/ row'.status \in Terminal
         \/ c \in Jobs /\ InMeeting(c)
  PROVE  OneParticipant' /\ RowTracksPod'
<1>1. \A k \in Jobs : InMeeting(k)' => InMeeting(k)
  <2> SUFFICES ASSUME NEW k \in Jobs, InMeeting(k)' PROVE InMeeting(k)
    OBVIOUS
  <2>1. CASE k = c
    BY <2>1
  <2>2. CASE k # c
    BY <2>2 DEF InMeeting
  <2> QED
    BY <2>1, <2>2
<1>2. OneParticipant'
  BY <1>1 DEF OneParticipant
<1>3. ASSUME NEW k \in Jobs, InMeeting(k)'
      PROVE  row'.status \in Expected(pc'[k]) \cup Terminal
  <2>1. CASE k = c
    BY <1>3, <2>1
  <2>2. CASE k # c
    <3>1. InMeeting(k) /\ pc'[k] = pc[k]
      BY <1>1, <1>3, <2>2
    <3>2. row.status \in Expected(pc[k]) \cup Terminal
      BY <3>1 DEF RowTracksPod
    <3>3. row'.status = row.status \/ row'.status \in Terminal
      BY <2>2, <3>1 DEF OneParticipant
    <3> QED
      BY <3>1, <3>2, <3>3
  <2> QED
    BY <2>1, <2>2
<1>4. RowTracksPod'
  BY <1>3 DEF RowTracksPod
<1> QED
  BY <1>2, <1>4

\* A run with a pod in its meeting is not queued any more.
LEMMA MeetingNotQueued ==
  ASSUME RowTracksPod, NEW j \in Jobs, InMeeting(j)
  PROVE  row.status # "queued"
BY DEF RowTracksPod, Expected, Terminal

\* The effect of the helpers on the pods' labels and codes.
LEMMA GoMoves ==
  ASSUME TypeOK, NEW c \in Callers, NEW l, Go(c, l)
  PROVE  pc'[c] = l /\ \A k \in Jobs \ {c} : pc'[k] = pc[k]
BY DEF Go, TypeOK, Callers

\* A caller that fails moves to fail_run, and no other pod moves.
LEMMA FailsMoves ==
  ASSUME TypeOK, NEW c \in Callers, NEW e, Fails(c, e)
  PROVE  /\ pc'[c] = "recover" /\ mem'[c].code = e
         /\ \A k \in Jobs \ {c} : pc'[k] = pc[k] /\ mem'[k].code = mem[k].code
<1>1. Go(c, "recover") /\ mem' = [mem EXCEPT ![c] = [Blank EXCEPT !.code = e]]
  BY DEF Fails
<1>2. [Blank EXCEPT !.code = e].code = e
  BY DEF Blank
<1> QED
  BY <1>1, <1>2, GoMoves DEF TypeOK, Callers

\* A caller that ends moves to its last label, and no other pod moves.
LEMMA EndsMoves ==
  ASSUME TypeOK, NEW c \in Callers, NEW l, Ends(c, l)
  PROVE  /\ pc'[c] = l
         /\ \A k \in Jobs \ {c} : pc'[k] = pc[k] /\ mem'[k].code = mem[k].code
BY GoMoves DEF Ends, TypeOK, Callers

\* A caller that goes to report an error has left attend.
LEMMA FailsOther ==
  ASSUME TypeOK, OneParticipant, RowTracksPod, NEW c \in Callers, Fails(c, "other"),
         UNCHANGED row
  PROVE  OneParticipant' /\ RowTracksPod'
<1>1. ~InMeeting(c)'
  BY FailsMoves DEF InMeeting, AttendPcs, FailPcs
<1> QED
  BY <1>1, FailsMoves, KeepsMeeting

\* A caller that is over has left the meeting.
LEMMA EndsMeeting ==
  ASSUME TypeOK, OneParticipant, RowTracksPod, NEW c \in Callers, NEW l \in {"exit", "done"},
         Ends(c, l), row'.status \in {row.status} \cup Terminal
  PROVE  OneParticipant' /\ RowTracksPod'
<1>1. ~InMeeting(c)'
  BY EndsMoves DEF InMeeting, AttendPcs, FailPcs
<1> QED
  BY <1>1, EndsMoves, KeepsMeeting

\* The pipeline's own advances.
LEMMA JobAdvanceMeeting ==
  ASSUME IInv, NEW j \in Jobs,
         AttendJoining(j) \/ AttendJoined(j) \/ AttendRecording(j) \/ PersistRecording(j)
  PROVE  OneParticipant' /\ RowTracksPod'
<1>0. TypeOK /\ OneParticipant /\ RowTracksPod /\ j \in Callers
      /\ row \in Rows /\ row.status \in Statuses
  BY DEF IInv, TypeOK, Rows, Callers
<1>1. CASE Raised(j) /\ UNCHANGED row
  BY <1>0, <1>1, FailsOther DEF Raised
<1>2. ASSUME NEW target \in {"joined", "recording", "processing"}, NEW m, Go(j, m),
             UNCHANGED mem, InMeeting(j), target \in Expected(m), NEW r \in Rows,
             CommitStatus(Advanced(r, target))
      PROVE  OneParticipant' /\ RowTracksPod'
  <2>1. row'.status = target
    BY <1>2, AdvancedRow DEF CommitStatus, Statuses, Live
  <2>2. pc'[j] = m /\ \A k \in Jobs \ {j} : pc'[k] = pc[k] /\ mem'[k].code = mem[k].code
    BY <1>0, <1>2, GoMoves
  <2> QED
    BY <1>0, <1>2, <2>1, <2>2, KeepsMeeting
<1>3. CASE AttendJoining(j) /\ ~(Raised(j) /\ UNCHANGED row)
  <2>1. /\ Advances(row.status, "joining") /\ CommitStatus(Advanced(row, "joining"))
        /\ Go(j, "admission") /\ UNCHANGED mem
    BY <1>3 DEF AttendJoining, JobAdvance
  <2>2. row.status = "queued"
    BY <1>0, <2>1, AdvancesFrom
  <2>3. \A k \in Jobs : ~InMeeting(k)
    BY <1>0, <2>2, MeetingNotQueued
  <2>4. row'.status = "joining"
    BY <1>0, <2>1, AdvancedRow DEF CommitStatus, TypeOK, Statuses, Live
  <2>5. pc'[j] = "admission" /\ \A k \in Jobs \ {j} : pc'[k] = pc[k]
    BY <1>0, <2>1, GoMoves
  <2>6. \A k \in Jobs : InMeeting(k)' => k = j
    BY <2>1, <2>3, <2>5 DEF InMeeting
  <2> QED
    BY <2>4, <2>5, <2>6 DEF OneParticipant, RowTracksPod, Expected
<1>4. CASE AttendJoined(j) /\ ~(Raised(j) /\ UNCHANGED row)
  <2>1. /\ CommitStatus(Advanced(row, "joined")) /\ Go(j, "joined") /\ mem' = mem
        /\ pc[j] = "admitted"
    BY <1>4 DEF AttendJoined, JobAdvance
  <2>2. InMeeting(j) /\ "joined" \in Expected("joined")
    BY <2>1 DEF InMeeting, AttendPcs, Expected, FailPcs
  <2> QED
    BY <1>0, <1>2, <2>1, <2>2
<1>5. CASE AttendRecording(j) /\ ~(Raised(j) /\ UNCHANGED row)
  <2>1. /\ CommitStatus(Advanced(row, "recording")) /\ Go(j, "recording") /\ UNCHANGED mem
        /\ pc[j] = "joined"
    BY <1>5 DEF AttendRecording, JobAdvance
  <2>2. InMeeting(j) /\ "recording" \in Expected("recording")
    BY <2>1 DEF InMeeting, AttendPcs, Expected, FailPcs
  <2> QED
    BY <1>0, <1>2, <2>1, <2>2
<1>6. CASE PersistRecording(j) /\ ~(Raised(j) /\ UNCHANGED row)
  <2>1. /\ Go(j, "summarize") /\ UNCHANGED mem /\ pc[j] = "persist"
        /\ \E r \in Recorded : CommitStatus(Advanced(r, "processing"))
    BY <1>6 DEF PersistRecording
  <2>2. PICK r \in Recorded : CommitStatus(Advanced(r, "processing"))
    BY <2>1
  <2>3. r \in Rows
    BY <1>0, <2>2, RecordedRow DEF TypeOK
  <2>4. InMeeting(j) /\ "processing" \in Expected("summarize")
    BY <2>1 DEF InMeeting, AttendPcs, Expected, FailPcs
  <2> QED
    BY <1>0, <1>2, <2>1, <2>2, <2>3, <2>4
<1> QED
  BY <1>1, <1>3, <1>4, <1>5, <1>6

\* The other steps of a pod.
LEMMA PodMeeting ==
  ASSUME IInv, NEW j \in Jobs,
         JobStep(j) \/ Checkpoint(j) \/ AttendRaises(j) \/ Beat(j) \/ Crash(j) \/ Sigterm(j)
  PROVE  OneParticipant' /\ RowTracksPod'
<1>0. TypeOK /\ OneParticipant /\ RowTracksPod /\ j \in Callers /\ row \in Rows
  BY DEF IInv, TypeOK, Callers
<1>1. ASSUME NEW m, InMeeting(j), Go(j, m), UNCHANGED row,
             \A k \in Jobs : mem'[k].code = mem[k].code,
             \A s \in Expected(pc[j]) : s \in Expected(m)
      PROVE  OneParticipant' /\ RowTracksPod'
  <2>1. row'.status \in Expected(m) \cup Terminal
    BY <1>0, <1>1 DEF RowTracksPod
  <2>2. pc'[j] = m /\ \A k \in Jobs \ {j} : pc'[k] = pc[k]
    BY <1>0, <1>1, GoMoves
  <2> QED
    BY <1>0, <1>1, <2>1, <2>2, KeepsMeeting
<1>2. ASSUME UNCHANGED pc, row'.status = row.status,
             \A k \in Jobs : mem'[k].code = mem[k].code
      PROVE  OneParticipant' /\ RowTracksPod'
  <2>1. \A k \in Jobs : InMeeting(k)' <=> InMeeting(k)
    BY <1>2 DEF InMeeting
  <2> QED
    BY <1>0, <1>2, <2>1 DEF OneParticipant, RowTracksPod
<1>3. ASSUME NEW h, mem' = [mem EXCEPT ![j].halt = h]
      PROVE  \A k \in Jobs : mem'[k].code = mem[k].code
  BY <1>0, <1>3 DEF TypeOK, Memories, Callers
<1>4. CASE Admission(j)
  <2>1. InMeeting(j) /\ pc[j] = "admission"
    BY <1>4 DEF Admission, InMeeting, AttendPcs
  <2>2. CASE Go(j, "admitted") /\ UNCHANGED mem
    <3>1. Expected("admission") = Expected("admitted")
      BY DEF Expected, FailPcs
    <3>2. Go(j, "admitted") /\ mem' = mem /\ row' = row
      BY <1>4, <2>2 DEF Admission
    <3> QED
      BY <1>1, <2>1, <3>1, <3>2
  <2>3. CASE Stopping(j)
    BY <1>1, <1>3, <1>4, <2>1, <2>3 DEF Admission, Stopping, Expected
  <2> QED
    BY <1>4, <2>2, <2>3 DEF Admission
<1>5. CASE MeetingEnded(j)
  <2>1. InMeeting(j) /\ pc[j] = "recording"
    BY <1>5 DEF MeetingEnded, InMeeting, AttendPcs
  <2>2. CASE Go(j, "persist") /\ UNCHANGED mem
    <3>1. Expected("recording") = Expected("persist")
      BY DEF Expected, FailPcs
    <3>2. Go(j, "persist") /\ mem' = mem /\ row' = row
      BY <1>5, <2>2 DEF MeetingEnded
    <3> QED
      BY <1>1, <2>1, <3>1, <3>2
  <2>3. CASE Stopping(j)
    BY <1>1, <1>3, <1>5, <2>1, <2>3 DEF MeetingEnded, Stopping, Expected
  <2> QED
    BY <1>5, <2>2, <2>3 DEF MeetingEnded
<1>6. CASE StopCheck(j)
  <2>1. InMeeting(j) /\ pc[j] = "stopping"
    BY <1>6 DEF StopCheck, InMeeting, AttendPcs
  <2>2. row.status \in {"joining", "recording"} \cup Terminal
    BY <1>0, <2>1 DEF RowTracksPod, Expected
  <2>3. CASE row.status \in {"joined", "recording"}
    <3>1. Go(j, "persist") /\ UNCHANGED <<mem, row>> /\ row.status = "recording"
      BY <1>6, <2>2, <2>3 DEF StopCheck, Terminal
    <3>2. pc'[j] = "persist" /\ \A k \in Jobs \ {j} : pc'[k] = pc[k]
      BY <1>0, <3>1, GoMoves
    <3>3. row'.status \in Expected("persist")
      BY <3>1 DEF Expected
    <3> QED
      BY <1>0, <2>1, <3>1, <3>2, <3>3, KeepsMeeting
  <2>4. CASE row.status \notin {"joined", "recording"}
    <3>1. Fails(j, "stopped") /\ UNCHANGED row
      BY <1>6, <2>4 DEF StopCheck
    <3>2. row'.status \in Expected("recover") \cup Terminal
      BY <2>2, <3>1 DEF Expected, FailPcs
    <3> QED
      BY <1>0, <2>1, <3>1, <3>2, FailsMoves, KeepsMeeting
  <2> QED
    BY <2>3, <2>4
<1>7. CASE Summarized(j)
  <2>1. InMeeting(j) /\ pc[j] = "summarize"
    BY <1>7 DEF Summarized, InMeeting, AttendPcs
  <2> QED
    BY <1>1, <1>3, <1>7, <2>1 DEF Summarized, Expected, FailPcs
<1>8. CASE CompleteRead(j)
  <2>1. CASE row.status = "processing"
    <3>1. InMeeting(j) /\ pc[j] = "complete"
      BY <1>8 DEF CompleteRead, InMeeting, AttendPcs
    <3>2. PICK m \in {"completing", "completing-silent"} : Go(j, m)
      BY <1>8, <2>1 DEF CompleteRead
    <3>3. UNCHANGED <<row, mem>>
      BY <1>8, <2>1 DEF CompleteRead
    <3>4. \A s \in Expected(pc[j]) : s \in Expected(m)
      BY <3>1 DEF Expected, FailPcs
    <3> QED
      BY <1>1, <3>1, <3>2, <3>3, <3>4
  <2>2. CASE row.status # "processing"
    BY <1>0, <1>8, <2>2, FailsOther DEF CompleteRead, Raised
  <2> QED
    BY <2>1, <2>2
<1>9. CASE CompleteCommit(j)
  <2> DEFINE r == [row EXCEPT
                     !.recording = IF pc[j] = "completing-silent" THEN "no-audio" ELSE @,
                     !.error     = @ \/ mem[j].halt,
                     !.stop      = IF mem[j].halt THEN "stopped" ELSE @]
  <2>1. CommitStatus(Advanced(r, "completed")) /\ Ends(j, "exit")
    BY <1>9 DEF CompleteCommit
  <2>2. r \in Rows
    BY <1>0 DEF Rows
  <2>3. row'.status = "completed"
    BY <2>1, <2>2, AdvancedRow DEF CommitStatus, Statuses, Terminal
  <2> QED
    BY <1>0, <2>1, <2>3, EndsMeeting DEF Terminal
<1>10. CASE Checkpoint(j)
  BY <1>0, <1>2, <1>10 DEF Checkpoint, Rows
<1>11. CASE AttendRaises(j)
  BY <1>0, <1>11, FailsOther DEF AttendRaises, Raised
<1>12. CASE Beat(j)
  BY <1>2, <1>12 DEF Beat
<1>13. CASE Crash(j)
  BY <1>0, <1>13, EndsMeeting DEF Crash
<1>14. CASE Sigterm(j)
  <2>1. \A k \in Jobs : mem'[k].code = mem[k].code
    BY <1>0, <1>14 DEF Sigterm, TypeOK, Memories, Callers
  <2> QED
    BY <1>2, <1>14, <2>1 DEF Sigterm
<1> QED
  BY <1>4, <1>5, <1>6, <1>7, <1>8, <1>9, <1>10, <1>11, <1>12, <1>13, <1>14, JobAdvanceMeeting
     DEF JobStep

\* The steps of fail_run, in a pod or in a worker task, keep the pod in the meeting the only one.
LEMMA FailMeeting ==
  ASSUME IInv, NEW c \in Callers, FailStep(c)
  PROVE  OneParticipant' /\ RowTracksPod'
<1>0. TypeOK /\ OneParticipant /\ RowTracksPod /\ row \in Rows
  BY DEF IInv, TypeOK
<1>1. ASSUME NEW l \in FailPcs, pc[c] \in FailPcs, Go(c, l), UNCHANGED mem,
             row'.status = row.status
      PROVE  OneParticipant' /\ RowTracksPod'
  <2>1. pc'[c] = l /\ \A k \in Jobs \ {c} : pc'[k] = pc[k]
    BY <1>0, <1>1, GoMoves
  <2>2. InMeeting(c)' => InMeeting(c)
    BY <1>1, <2>1 DEF InMeeting, FailPcs, AttendPcs
  <2>3. Expected(l) = Expected(pc[c])
    BY <1>1 DEF Expected, FailPcs
  <2>4. c \in Jobs /\ InMeeting(c) => row.status \in Expected(pc[c]) \cup Terminal
    BY <1>0 DEF RowTracksPod
  <2> QED
    BY <1>0, <1>1, <2>1, <2>2, <2>3, <2>4, KeepsMeeting
<1>2. ASSUME FailReturns(c), row'.status \in {row.status} \cup Terminal
      PROVE  OneParticipant' /\ RowTracksPod'
  BY <1>0, <1>2, EndsMeeting DEF FailReturns
<1>3. CASE FailRecoverRead(c)
  BY <1>1, <1>3 DEF FailRecoverRead, FailPcs
<1>4. CASE FailRecoverCommit(c)
  <2>1. row'.status = row.status
    BY <1>0, <1>4 DEF FailRecoverCommit, Rows
  <2> QED
    BY <1>1, <1>4, <2>1 DEF FailRecoverCommit, FailPcs
<1>5. CASE FailRead(c)
  BY <1>1, <1>2, <1>5 DEF FailRead, FailPcs
<1>6. CASE FailCommit(c)
  <2>1. row'.status = "failed"
    BY <1>0, <1>6, FailedRow DEF FailCommit, CommitStatus
  <2> QED
    BY <1>2, <1>6, <2>1 DEF FailCommit, Terminal
<1> QED
  BY <1>3, <1>4, <1>5, <1>6 DEF FailStep

\* The steps of a worker task, of which only those of fail_run write the row, keep it so.
LEMMA TaskMeeting ==
  ASSUME IInv, NEW t \in Tasks, TaskStep(t) \/ TaskStops(t) \/ Redelivered(t)
  PROVE  OneParticipant' /\ RowTracksPod'
<1> USE JobsAndTasks
<1>0. TypeOK /\ OneParticipant /\ RowTracksPod /\ t \in Callers /\ t \notin Jobs
  BY DEF IInv, Callers
<1>1. UNCHANGED row
  BY DEF TaskStep, TaskStops, Redelivered, TaskUnchanged, RunClaim, CheckQueued, Admit,
         LookupJob, CreateJob, WatchFinished, WatchMissing, WatchTimeout, AwaitTerminal, TaskRaises
<1>2. ASSUME NEW l, Go(t, l), UNCHANGED mem
      PROVE  OneParticipant' /\ RowTracksPod'
  BY <1>0, <1>1, <1>2, GoMoves, KeepsMeeting
<1>3. ASSUME NEW e, Fails(t, e)
      PROVE  OneParticipant' /\ RowTracksPod'
  BY <1>0, <1>1, <1>3, FailsMoves, KeepsMeeting
<1>4. ASSUME Ends(t, "done")
      PROVE  OneParticipant' /\ RowTracksPod'
  BY <1>0, <1>1, <1>4, EndsMeeting
<1>5. CASE CreateJob(t) /\ jobObj = NoJob
  <2>1. PICK j \in Jobs : /\ pc[j] = "absent"
                          /\ pc' = [pc EXCEPT ![t] = "watch", ![j] = "starting"]
                          /\ UNCHANGED mem
    BY <1>5 DEF CreateJob
  <2>2. /\ pc'[j] = "starting"
        /\ \A k \in Jobs \ {j} : pc'[k] = pc[k]
    BY <1>0, <2>1 DEF TypeOK, Callers
  <2>3. ~InMeeting(j)'
    BY <2>2 DEF InMeeting, AttendPcs, FailPcs
  <2>4. j \in Callers
    BY DEF Callers
  <2> QED
    BY <1>0, <1>1, <2>1, <2>2, <2>3, <2>4, KeepsMeeting
<1>6. CASE CreateJob(t) /\ jobObj # NoJob
  BY <1>3, <1>6 DEF CreateJob
<1>7. CASE WatchTimeout(t)
  <2>1. Go(t, "await")
    BY <1>7 DEF WatchTimeout
  <2>2. \A k \in Jobs : mem'[k].code = mem[k].code
    <3>1. CASE UNCHANGED mem
      BY <3>1
    <3>2. ASSUME NEW s, mem' = [mem EXCEPT ![jobObj].sigterm = s]
          PROVE  \A k \in Jobs : mem'[k].code = mem[k].code
      BY <1>0, <3>2 DEF TypeOK, Memories, Callers
    <3> QED
      BY <1>7, <3>1, <3>2 DEF WatchTimeout
  <2> QED
    BY <1>0, <1>1, <2>1, <2>2, GoMoves, KeepsMeeting
<1>8. CASE \/ RunClaim(t) \/ CheckQueued(t) \/ Admit(t) \/ LookupJob(t)
           \/ WatchFinished(t) \/ WatchMissing(t) \/ AwaitTerminal(t)
           \/ TaskRaises(t) \/ TaskStops(t) \/ Redelivered(t)
  BY <1>2, <1>3, <1>4, <1>8
     DEF RunClaim, CheckQueued, Admit, LookupJob, WatchFinished, WatchMissing,
         AwaitTerminal, TaskRaises, TaskStops, Redelivered
<1> QED
  BY <1>5, <1>6, <1>7, <1>8 DEF TaskStep

\* The API's cancel, the orphan sweep, expiries and the crash of a pod keep it so.
LEMMA OtherMeeting ==
  ASSUME IInv, OtherStep
  PROVE  OneParticipant' /\ RowTracksPod'
<1>0. TypeOK /\ OneParticipant /\ RowTracksPod /\ row \in Rows
  BY DEF IInv, TypeOK
<1>1. UNCHANGED <<pc, mem>>
  BY DEF OtherStep, Sweep, Others, CancelGet, CancelCommit, RequestCancel, SweepSelect,
         SweepProbe, SweepCommit, BeatExpires, CancelExpires, JobExpires
<1>2. ASSUME NEW c, CommitStatus(Failed(c))
      PROVE  row'.status \in Terminal
  BY <1>0, <1>2, FailedRow DEF CommitStatus, Terminal
<1>3. row' = row \/ row'.status \in Terminal
  BY <1>2 DEF OtherStep, Sweep, Others, CancelGet, CancelCommit, RequestCancel, SweepSelect,
         SweepProbe, SweepCommit, BeatExpires, CancelExpires, JobExpires
<1>4. \A k \in Jobs : InMeeting(k)' <=> InMeeting(k)
  BY <1>1 DEF InMeeting
<1> QED
  BY <1>0, <1>1, <1>3, <1>4 DEF OneParticipant, RowTracksPod

\* The inductive invariant holds of a queued run.
LEMMA IInvInit == Init => IInv
<1> SUFFICES ASSUME Init PROVE IInv
  OBVIOUS
<1>1. \A j \in Jobs : ~InMeeting(j)
  BY DEF Init, InMeeting, Callers, AttendPcs, FailPcs
<1> QED
  BY <1>1, InitType DEF IInv, OneParticipant, RowTracksPod

\* Every step keeps the inductive invariant.
LEMMA IInvNext == IInv /\ [Next]_vars => IInv'
<1> SUFFICES ASSUME IInv, [Next]_vars PROVE IInv'
  OBVIOUS
<1>1. TypeOK'
  BY NextType DEF IInv
<1>2. CASE UNCHANGED vars
  BY <1>1, <1>2 DEF vars, IInv, OneParticipant, RowTracksPod, InMeeting
<1>3. CASE Next
  BY <1>1, <1>3, PodMeeting, FailMeeting, TaskMeeting, OtherMeeting DEF Next, OtherStep, IInv
<1> QED
  BY <1>2, <1>3

\* However many tasks and Job incarnations work on the run, at most one pod is in
\* the meeting: advance(JOINING) is a mutual exclusion lock on the run's row.
THEOREM SingleParticipant == Spec => []OneParticipant
<1>1. IInv => OneParticipant
  BY DEF IInv
<1> QED
  BY <1>1, IInvInit, IInvNext, PTL DEF Spec

\* While a pod attends, the row is at the pod's own stage or final.
THEOREM PodTracked == Spec => []RowTracksPod
<1>1. IInv => RowTracksPod
  BY DEF IInv
<1> QED
  BY <1>1, IInvInit, IInvNext, PTL DEF Spec

\* The pipeline's own transactions write a row only through advance, which refuses a
\* final one; every other write keeps the status or makes it final.
LEMMA StaysFinal ==
  ASSUME TypeOK, [Next]_vars, row.status \in Terminal
  PROVE  row'.status \in Terminal
<1>0. row \in Rows /\ row.status \in Statuses
  BY DEF TypeOK, Rows
<1>1. CASE UNCHANGED row
  BY <1>1
<1>2. ASSUME NEW j \in Jobs, \/ AttendJoining(j) \/ AttendJoined(j) \/ AttendRecording(j)
                             \/ PersistRecording(j)
      PROVE  UNCHANGED row
  <2>1. \A target \in Statuses : ~Advances(row.status, target)
    BY <1>0, AdvancesFrom
  <2>2. {"joining", "joined", "recording", "processing"} \subseteq Statuses
    BY DEF Statuses, Live
  <2> QED
    BY <1>2, <2>1, <2>2
       DEF AttendJoining, AttendJoined, AttendRecording, PersistRecording, JobAdvance
<1>3. ASSUME NEW j \in Jobs, CompleteCommit(j)
      PROVE  row'.status \in Terminal
  <2> DEFINE r == [row EXCEPT
                     !.recording = IF pc[j] = "completing-silent" THEN "no-audio" ELSE @,
                     !.error     = @ \/ mem[j].halt,
                     !.stop      = IF mem[j].halt THEN "stopped" ELSE @]
  <2>1. CommitStatus(Advanced(r, "completed"))
    BY <1>3 DEF CompleteCommit
  <2>2. r \in Rows
    BY <1>0 DEF Rows
  <2> QED
    BY <2>1, <2>2, AdvancedRow DEF CommitStatus, Statuses, Terminal
<1>4. ASSUME NEW c, CommitStatus(Failed(c))
      PROVE  row'.status \in Terminal
  BY <1>0, <1>4, FailedRow DEF CommitStatus, Terminal
<1>5. ASSUME NEW j \in Jobs, JobStep(j) \/ Checkpoint(j) \/ AttendRaises(j) \/ Beat(j)
                             \/ Crash(j) \/ Sigterm(j)
      PROVE  row'.status \in Terminal
  <2>1. CASE Checkpoint(j)
    BY <1>0, <2>1 DEF Checkpoint, Rows
  <2>2. CASE \/ Admission(j) \/ MeetingEnded(j) \/ StopCheck(j) \/ Summarized(j)
             \/ CompleteRead(j) \/ AttendRaises(j) \/ Beat(j) \/ Crash(j) \/ Sigterm(j)
    BY <2>2 DEF Admission, MeetingEnded, StopCheck, Summarized, CompleteRead, AttendRaises,
                Beat, Crash, Sigterm
  <2> QED
    BY <1>2, <1>3, <1>5, <2>1, <2>2 DEF JobStep
<1>6. ASSUME NEW c \in Callers, FailStep(c)
      PROVE  row'.status \in Terminal
  <2>1. CASE FailRecoverCommit(c)
    BY <1>0, <2>1 DEF FailRecoverCommit, Rows
  <2>2. CASE FailCommit(c)
    BY <1>4, <2>2 DEF FailCommit
  <2>3. CASE FailRecoverRead(c) \/ FailRead(c)
    BY <2>3 DEF FailRecoverRead, FailRead
  <2> QED
    BY <1>6, <2>1, <2>2, <2>3 DEF FailStep
<1>7. ASSUME NEW t \in Tasks, TaskStep(t) \/ TaskStops(t) \/ Redelivered(t)
      PROVE  UNCHANGED row
  BY <1>7 DEF TaskStep, TaskStops, Redelivered, TaskUnchanged, RunClaim, CheckQueued, Admit,
              LookupJob, CreateJob, WatchFinished, WatchMissing, WatchTimeout,
              AwaitTerminal, TaskRaises
<1>8. ASSUME OtherStep
      PROVE  UNCHANGED row \/ row'.status \in Terminal
  BY <1>4, <1>8 DEF OtherStep, Sweep, CancelGet, CancelCommit, RequestCancel, SweepSelect,
                    SweepProbe, SweepCommit, BeatExpires, CancelExpires, JobExpires
<1>9. CASE UNCHANGED vars
  BY <1>9 DEF vars
<1>10. CASE Next
  BY <1>1, <1>5, <1>6, <1>7, <1>8, <1>10 DEF Next, OtherStep
<1> QED
  BY <1>9, <1>10

\* A final run never becomes active again, whoever else writes its row.
THEOREM NeverResurrected == Spec => NoResurrection
<1>1. TypeOK /\ [Next]_vars => [row.status \in Terminal => row'.status \in Terminal]_vars
  BY StaysFinal
<1> QED
  BY <1>1, TypeCorrect, PTL DEF Spec, NoResurrection

-----------------------------------------------------------------------------
(* What the row and its events say of a run, in the end and on the way.       *)

\* Labels of a pod whose run got past advance(JOINED).
PastJoined == {"joined", "recording", "persist", "summarize", "complete", "completing",
               "completing-silent"}

\* The row says as much as the pods have done.
RowBacked ==
  /\ row.status \in {"joined", "recording", "processing"} => row.joined
  /\ \A j \in Jobs : pc[j] \in PastJoined => row.joined
  /\ \A j \in Jobs : pc[j] = "completing" => row.recording # "pending"

\* "completed" is told once, by the pod that leaves the meeting with it.
CompletedOnce ==
  /\ \A i \in DOMAIN events :
       events[i] = "completed" => row.status \in Terminal /\ \A j \in Jobs : ~InMeeting(j)
  /\ \A i, k \in DOMAIN events : events[i] = "completed" /\ events[k] = "completed" => i = k

\* What a step may write to the row and to the log.
Keeps == \E rec \in {row.recording, "stored"}, m \in BOOLEAN :
           row' = [row EXCEPT !.recording = rec, !.manifest = m]
Moves == \E target \in {"joining", "joined", "recording", "processing"}, r \in Recorded :
           Advances(row.status, target) /\ CommitStatus(Advanced(r, target))
FailsRun == \E c : CommitStatus(Failed(c))

\* A step that leaves the row alone is the smallest of the writes without an event.
LEMMA KeepsRow ==
  ASSUME row \in Rows, row' = row
  PROVE  Keeps
<1>1. row' = [row EXCEPT !.recording = row.recording, !.manifest = row.manifest]
  BY DEF Rows
<1>2. row.manifest \in BOOLEAN
  BY DEF Rows
<1> QED
  BY <1>1, <1>2 DEF Keeps

\* Every writer of the row does one of four things: it touches the recording columns,
\* advances a run, fails it, or completes it.
LEMMA StepWrites ==
  ASSUME TypeOK, [Next]_vars
  PROVE  \/ Keeps /\ events' = events
         \/ Moves
         \/ FailsRun
         \/ \E j \in Jobs : CompleteCommit(j)
<1>0. row \in Rows /\ row \in Recorded
  BY DEF TypeOK, Recorded
<1>1. CASE UNCHANGED <<row, events>>
  BY <1>0, <1>1, KeepsRow
<1>2. ASSUME NEW j \in Jobs, JobStep(j)
      PROVE  \/ UNCHANGED <<row, events>>
             \/ Moves
             \/ CompleteCommit(j)
  <2>1. CASE AttendJoining(j) \/ AttendJoined(j) \/ AttendRecording(j)
    BY <1>0, <2>1 DEF AttendJoining, AttendJoined, AttendRecording, JobAdvance, Moves
  <2>2. CASE PersistRecording(j)
    BY <2>2 DEF PersistRecording, Moves
  <2> QED
    BY <1>2, <2>1, <2>2
       DEF JobStep, Admission, MeetingEnded, StopCheck, Summarized, CompleteRead
<1>3. ASSUME NEW j \in Jobs, Checkpoint(j)
      PROVE  Keeps /\ events' = events
  <2>1. row' = [row EXCEPT !.recording = row.recording, !.manifest = TRUE] /\ events' = events
    BY <1>0, <1>3 DEF Checkpoint, Rows
  <2> QED
    BY <2>1 DEF Keeps
<1>4. ASSUME NEW j \in Jobs, AttendRaises(j) \/ Beat(j) \/ Crash(j) \/ Sigterm(j)
      PROVE  UNCHANGED <<row, events>>
  BY <1>4 DEF AttendRaises, Beat, Crash, Sigterm
<1>5. ASSUME NEW c \in Callers, FailStep(c)
      PROVE  (Keeps /\ events' = events) \/ UNCHANGED <<row, events>> \/ FailsRun
  BY <1>5 DEF FailStep, FailRecoverRead, FailRecoverCommit, FailRead, FailCommit, Keeps, FailsRun
<1>6. ASSUME NEW t \in Tasks, TaskStep(t) \/ TaskStops(t) \/ Redelivered(t)
      PROVE  UNCHANGED <<row, events>>
  BY <1>6 DEF TaskStep, TaskStops, Redelivered, TaskUnchanged, RunClaim, CheckQueued, Admit,
              LookupJob, CreateJob, WatchFinished, WatchMissing, WatchTimeout,
              AwaitTerminal, TaskRaises
<1>7. ASSUME OtherStep
      PROVE  UNCHANGED <<row, events>> \/ FailsRun
  BY <1>7 DEF OtherStep, Sweep, CancelGet, CancelCommit, RequestCancel, SweepSelect,
              SweepProbe, SweepCommit, BeatExpires, CancelExpires, JobExpires, FailsRun
<1>8. CASE UNCHANGED vars
  BY <1>1, <1>8 DEF vars
<1>9. CASE Next
  BY <1>1, <1>2, <1>3, <1>4, <1>5, <1>6, <1>7, <1>9 DEF Next, OtherStep
<1> QED
  BY <1>8, <1>9

\* A pod moves by its own steps only, but for its creation.
LEMMA PodMoves ==
  ASSUME TypeOK, [Next]_vars, NEW k \in Jobs
  PROVE  \/ pc'[k] = pc[k] /\ mem'[k].code = mem[k].code
         \/ pc'[k] = "starting"
         \/ JobStep(k) \/ AttendRaises(k) \/ Crash(k) \/ FailStep(k)
<1> USE JobsAndTasks
<1> DEFINE Stays == pc'[k] = pc[k] /\ mem'[k].code = mem[k].code
<1>0. k \in Callers /\ k \notin Tasks
  BY DEF Callers
<1>1. CASE UNCHANGED <<pc, mem>>
  BY <1>1
<1>2. ASSUME NEW c \in Callers, c # k, NEW l, Go(c, l), UNCHANGED mem
      PROVE  Stays
  BY <1>2, GoMoves
<1>3. ASSUME NEW c \in Callers, c # k, NEW e, Fails(c, e)
      PROVE  Stays
  BY <1>3, FailsMoves
<1>4. ASSUME NEW c \in Callers, c # k, NEW l, Ends(c, l)
      PROVE  Stays
  BY <1>4, EndsMoves
<1>5. ASSUME NEW c \in Callers, NEW h, \/ mem' = [mem EXCEPT ![c].halt = h]
                                       \/ mem' = [mem EXCEPT ![c].sigterm = h]
      PROVE  mem'[k].code = mem[k].code
  BY <1>0, <1>5 DEF TypeOK, Memories
<1>6. ASSUME NEW j \in Jobs, j # k, \/ JobStep(j) \/ AttendRaises(j) \/ Crash(j)
      PROVE  Stays
  <2>1. j \in Callers
    BY DEF Callers
  <2>2. CASE AttendJoining(j) \/ AttendJoined(j) \/ AttendRecording(j) \/ PersistRecording(j)
             \/ StopCheck(j) \/ CompleteRead(j) \/ AttendRaises(j) \/ Crash(j) \/ CompleteCommit(j)
    BY <1>2, <1>3, <1>4, <1>6, <2>1, <2>2
       DEF AttendJoining, AttendJoined, AttendRecording, JobAdvance, PersistRecording, StopCheck,
           CompleteRead, CompleteCommit, AttendRaises, Crash, Raised
  <2>3. CASE Admission(j) \/ MeetingEnded(j) \/ Summarized(j)
    <3>1. \E l : Go(j, l)
      BY <2>3 DEF Admission, MeetingEnded, Summarized, Stopping
    <3>2. pc'[k] = pc[k]
      BY <1>6, <2>1, <3>1, GoMoves
    <3>3. UNCHANGED mem \/ \E h : mem' = [mem EXCEPT ![j].halt = h]
      BY <2>3 DEF Admission, MeetingEnded, Summarized, Stopping
    <3> QED
      BY <1>5, <2>1, <3>2, <3>3
  <2> QED
    BY <1>6, <2>2, <2>3 DEF JobStep
<1>7. ASSUME NEW j \in Jobs, Checkpoint(j) \/ Beat(j) \/ Sigterm(j)
      PROVE  Stays
  <2>1. pc' = pc /\ (mem' = mem \/ mem' = [mem EXCEPT ![j].sigterm = TRUE])
    BY <1>7 DEF Checkpoint, Beat, Sigterm
  <2> QED
    BY <1>5, <2>1 DEF Callers
<1>8. ASSUME NEW c \in Callers, c # k, FailStep(c)
      PROVE  Stays
  BY <1>2, <1>4, <1>8 DEF FailStep, FailRecoverRead, FailRecoverCommit, FailRead, FailCommit,
                          FailReturns
<1>9. ASSUME NEW t \in Tasks, TaskStep(t) \/ TaskStops(t) \/ Redelivered(t)
      PROVE  Stays \/ pc'[k] = "starting"
  <2>1. t \in Callers /\ t # k
    BY <1>0 DEF Callers
  <2>2. CASE CreateJob(t)
    <3>1. CASE Fails(t, "other")
      BY <1>3, <2>1, <3>1
    <3>2. ASSUME NEW j \in Jobs, pc' = [pc EXCEPT ![t] = "watch", ![j] = "starting"],
                 UNCHANGED mem
          PROVE  Stays \/ pc'[k] = "starting"
      BY <1>0, <2>1, <3>2 DEF TypeOK, Callers
    <3> QED
      BY <2>2, <3>1, <3>2 DEF CreateJob
  <2>3. CASE WatchTimeout(t)
    <3>1. pc'[k] = pc[k]
      BY <2>1, <2>3, GoMoves DEF WatchTimeout
    <3>2. jobObj \in Callers
      BY <2>3 DEF WatchTimeout, TypeOK, Callers
    <3>3. UNCHANGED mem \/ \E h : mem' = [mem EXCEPT ![jobObj].sigterm = h]
      BY <2>3 DEF WatchTimeout
    <3> QED
      BY <1>5, <3>1, <3>2, <3>3
  <2> QED
    BY <1>2, <1>3, <1>4, <1>9, <2>1, <2>2, <2>3
       DEF TaskStep, RunClaim, CheckQueued, Admit, LookupJob, WatchFinished, WatchMissing,
           AwaitTerminal, TaskRaises, TaskStops, Redelivered
<1>10. ASSUME OtherStep
       PROVE  UNCHANGED <<pc, mem>>
  BY <1>10 DEF OtherStep, Sweep, Others, CancelGet, CancelCommit, RequestCancel, SweepSelect,
               SweepProbe, SweepCommit, BeatExpires, CancelExpires, JobExpires
<1>11. CASE UNCHANGED vars
  BY <1>1, <1>11 DEF vars
<1>12. CASE Next
  BY <1>1, <1>6, <1>7, <1>8, <1>9, <1>10, <1>12 DEF Next, OtherStep
<1> QED
  BY <1>11, <1>12


\* How a pod comes past advance(JOINED), to its last transaction, and into the meeting.
LEMMA EntersPastJoined ==
  ASSUME TypeOK, [Next]_vars, NEW k \in Jobs, pc'[k] \in PastJoined, pc[k] \notin PastJoined
  PROVE  \/ row' = Advanced(row, "joined")
         \/ row' = row /\ row.status \in {"joined", "recording"}
<1>0. k \in Callers
  BY DEF Callers
<1>1. ~(Raised(k) \/ \E e : Fails(k, e)) /\ pc'[k] # "starting"
  BY <1>0, FailsMoves DEF PastJoined, Raised
<1>2. ~AttendRaises(k) /\ ~Crash(k) /\ ~CompleteCommit(k)
  BY <1>0, <1>1, EndsMoves DEF AttendRaises, Crash, CompleteCommit, PastJoined
<1>3. ~FailStep(k)
  BY <1>0, GoMoves, EndsMoves
     DEF FailStep, FailRecoverRead, FailRecoverCommit, FailRead, FailCommit, FailReturns, PastJoined
<1>4. JobStep(k)
  BY <1>1, <1>2, <1>3, PodMoves
<1>5. CASE AttendJoining(k) \/ Admission(k)
  <2>1. Go(k, "admission") \/ Go(k, "admitted") \/ Go(k, "stopping")
    BY <1>1, <1>5 DEF AttendJoining, JobAdvance, Admission, Stopping
  <2> QED
    BY <1>0, <2>1, GoMoves DEF PastJoined
<1>6. CASE AttendJoined(k)
  BY <1>1, <1>6 DEF AttendJoined, JobAdvance, CommitStatus
<1>7. CASE StopCheck(k)
  BY <1>1, <1>7 DEF StopCheck
<1>8. CASE \/ AttendRecording(k) \/ MeetingEnded(k) \/ PersistRecording(k) \/ Summarized(k)
           \/ CompleteRead(k)
  BY <1>8 DEF AttendRecording, JobAdvance, MeetingEnded, PersistRecording, Summarized,
              CompleteRead, PastJoined
<1> QED
  BY <1>2, <1>4, <1>5, <1>6, <1>7, <1>8 DEF JobStep

\* A pod that found a recording is about to complete a run whose recording is stored.
LEMMA EntersCompleting ==
  ASSUME TypeOK, [Next]_vars, NEW k \in Jobs, pc'[k] = "completing", pc[k] # "completing"
  PROVE  row' = row /\ row.recording # "pending"
<1>0. k \in Callers
  BY DEF Callers
<1>1. ~(Raised(k) \/ \E e : Fails(k, e)) /\ pc'[k] # "starting"
  BY <1>0, FailsMoves DEF Raised
<1>2. ~AttendRaises(k) /\ ~Crash(k) /\ ~CompleteCommit(k)
  BY <1>0, <1>1, EndsMoves DEF AttendRaises, Crash, CompleteCommit
<1>3. ~FailStep(k)
  BY <1>0, GoMoves, EndsMoves
     DEF FailStep, FailRecoverRead, FailRecoverCommit, FailRead, FailCommit, FailReturns
<1>4. JobStep(k)
  BY <1>1, <1>2, <1>3, PodMoves
<1>5. CASE CompleteRead(k)
  <2>1. CASE row.recording = "pending" /\ row.status = "processing"
    BY <1>0, <1>5, <2>1, GoMoves DEF CompleteRead
  <2> QED
    BY <1>1, <1>5, <2>1 DEF CompleteRead
<1>6. ASSUME NEW l, l # "completing", Go(k, l)
      PROVE  FALSE
  BY <1>0, <1>6, GoMoves
<1>7. CASE ~CompleteRead(k)
  BY <1>1, <1>2, <1>4, <1>6, <1>7
     DEF JobStep, AttendJoining, AttendJoined, AttendRecording, JobAdvance, Admission, Stopping,
         MeetingEnded, StopCheck, PersistRecording, Summarized
<1> QED
  BY <1>5, <1>7

\* advance(JOINING) is the only way into the meeting.
LEMMA EntersMeeting ==
  ASSUME TypeOK, [Next]_vars, NEW k \in Jobs, InMeeting(k)', ~InMeeting(k)
  PROVE  row.status = "queued"
<1>0. k \in Callers /\ pc[k] \in JobPcs /\ row.status \in Statuses
  BY DEF Callers, TypeOK, Rows
<1>1. ASSUME pc'[k] = pc[k], mem'[k].code = mem[k].code
      PROVE  FALSE
  BY <1>1 DEF InMeeting
<1>2. pc'[k] # "starting"
  BY DEF InMeeting, AttendPcs, FailPcs
<1>3. pc[k] \notin AttendPcs \ {"starting"}
  BY DEF InMeeting
<1>4. ASSUME Fails(k, "other")
      PROVE  FALSE
  BY <1>0, <1>4, FailsMoves DEF InMeeting, AttendPcs, FailPcs
<1>5. ASSUME NEW l \in {"exit", "done"}, Ends(k, l)
      PROVE  FALSE
  BY <1>0, <1>5, EndsMoves DEF InMeeting, AttendPcs, FailPcs
<1>6. ~AttendRaises(k) /\ ~Crash(k) /\ ~CompleteCommit(k)
  BY <1>4, <1>5 DEF AttendRaises, Crash, CompleteCommit, Raised
<1>7. ~FailStep(k)
  <2>1. ASSUME NEW l, Go(k, l), UNCHANGED mem, l \in FailPcs, pc[k] \in FailPcs
        PROVE  FALSE
    <3>1. pc'[k] = l
      BY <1>0, <2>1, GoMoves
    <3> QED
      BY <2>1, <3>1 DEF InMeeting, AttendPcs, FailPcs
  <2> QED
    BY <1>5, <2>1 DEF FailStep, FailRecoverRead, FailRecoverCommit, FailRead, FailCommit,
                      FailReturns, FailPcs
<1>8. JobStep(k)
  BY <1>1, <1>2, <1>6, <1>7, PodMoves
<1>9. AttendJoining(k)
  BY <1>3, <1>6, <1>8
     DEF JobStep, AttendJoined, AttendRecording, JobAdvance, Admission, MeetingEnded, StopCheck,
         PersistRecording, Summarized, CompleteRead, AttendPcs
<1>10. Advances(row.status, "joining")
  BY <1>4, <1>9 DEF AttendJoining, JobAdvance, Raised
<1> QED
  BY <1>0, <1>10, AdvancesFrom

\* What a failing transaction writes.
LEMMA FailedWrites ==
  ASSUME row \in Rows, NEW c
  PROVE  /\ Failed(c) \in Rows /\ Failed(c).status = "failed"
         /\ Failed(c).stop # "none" /\ Failed(c).error /\ Failed(c).left
         /\ Failed(c).joined = row.joined
         /\ Failed(c).recording = row.recording
<1> DEFINE r == [row EXCEPT !.error = TRUE, !.stop = IF c = "stopped" THEN c ELSE "failure"]
<1>1. /\ r \in Rows /\ r.stop # "none" /\ r.error
      /\ r.joined = row.joined /\ r.recording = row.recording
  BY DEF Rows
<1>2. Failed(c) \in Rows /\ Failed(c).status = "failed" /\ Failed(c) = Advanced(r, "failed")
  BY FailedRow DEF Failed
<1> HIDE DEF r
<1> QED
  BY <1>1, <1>2 DEF Advanced, Rows, Terminal

\* What an advance of the pipeline, with or without a stored recording, writes.
LEMMA MovesWrites ==
  ASSUME row \in Rows, NEW target \in {"joining", "joined", "recording", "processing"},
         NEW r \in Recorded
  PROVE  LET s == Advanced(r, target)
         IN  /\ s.status = target /\ s.joined = (row.joined \/ target = "joined")
             /\ s.left = row.left
             /\ s.recording \in {row.recording, "stored"}
<1>0. r \in Rows
  BY RecordedRow
<1>1. r.joined = row.joined /\ r.left = row.left /\ r.recording \in {row.recording, "stored"}
  BY DEF Recorded, Rows
<1>2. r.joined \in BOOLEAN /\ r.left \in BOOLEAN
  BY <1>0 DEF Rows
<1> QED
  BY <1>0, <1>1, <1>2 DEF Advanced, Rows, Terminal

\* What the last transaction of a run writes.
LEMMA CompleteWrites ==
  ASSUME row \in Rows, NEW j \in Jobs, CompleteCommit(j)
  PROVE  /\ row' \in Rows /\ row'.status = "completed" /\ row'.left
         /\ row'.joined = row.joined
         /\ row'.recording = IF pc[j] = "completing-silent" THEN "no-audio" ELSE row.recording
         /\ events' = Append(events, "completed")
<1> DEFINE r == [row EXCEPT
                   !.recording = IF pc[j] = "completing-silent" THEN "no-audio" ELSE @,
                   !.error     = @ \/ mem[j].halt,
                   !.stop      = IF mem[j].halt THEN "stopped" ELSE @]
<1>1. r \in Rows /\ r.joined = row.joined
      /\ r.recording = IF pc[j] = "completing-silent" THEN "no-audio" ELSE row.recording
  BY DEF Rows
<1>2. row' = Advanced(r, "completed") /\ events' = Append(events, Advanced(r, "completed").status)
  BY DEF CompleteCommit, CommitStatus
<1>3. Advanced(r, "completed") \in Rows /\ Advanced(r, "completed").status = "completed"
  BY <1>1, AdvancedRow DEF Statuses, Terminal
<1> HIDE DEF r
<1>4. /\ Advanced(r, "completed").joined = r.joined /\ Advanced(r, "completed").left
      /\ Advanced(r, "completed").recording = r.recording
  BY <1>1 DEF Advanced, Rows, Terminal
<1> QED
  BY <1>1, <1>2, <1>3, <1>4

\* The inductive invariant behind FinalRowsAreConsistent.
BInv == IInv /\ RowBacked /\ FinalRowsAreConsistent

\* The invariant of the final rows holds of a queued run.
LEMMA BackedInit == Init => BInv
<1>1. Init => RowBacked /\ FinalRowsAreConsistent
  BY DEF Init, RowBacked, FinalRowsAreConsistent, PastJoined, Callers, Terminal
<1> QED
  BY <1>1, IInvInit DEF BInv

\* Every step keeps it: what a late writer finds in the row is what the pods did.
LEMMA BackedNext == BInv /\ [Next]_vars => BInv'
<1> SUFFICES ASSUME BInv, [Next]_vars PROVE BInv'
  OBVIOUS
<1>0. /\ IInv /\ IInv' /\ TypeOK /\ row \in Rows /\ row.status \in Statuses /\ row' \in Rows
      /\ RowBacked /\ FinalRowsAreConsistent
  BY IInvNext DEF BInv, IInv, TypeOK, Rows
<1>1. CASE Keeps
  <2>1. /\ row'.status = row.status /\ row'.joined = row.joined /\ row'.left = row.left
        /\ row'.error = row.error /\ row'.stop = row.stop
        /\ row'.recording \in {row.recording, "stored"}
    BY <1>0, <1>1 DEF Keeps, Rows
  <2>2. ASSUME NEW k \in Jobs, pc'[k] \in PastJoined
        PROVE  row'.joined
    <3>1. CASE pc[k] \in PastJoined
      BY <1>0, <2>1, <3>1 DEF RowBacked
    <3>2. CASE row' = Advanced(row, "joined")
      BY <1>0, <3>2 DEF Advanced, Rows
    <3>3. CASE row.status \in {"joined", "recording"}
      BY <1>0, <2>1, <3>3 DEF RowBacked
    <3> QED
      BY <1>0, <2>2, <3>1, <3>2, <3>3, EntersPastJoined
  <2>3. ASSUME NEW k \in Jobs, pc'[k] = "completing"
        PROVE  row'.recording # "pending"
    BY <1>0, <2>1, <2>3, EntersCompleting DEF RowBacked
  <2> QED
    BY <1>0, <2>1, <2>2, <2>3 DEF BInv, RowBacked, FinalRowsAreConsistent
<1>2. CASE Moves
  <2>1. PICK target \in {"joining", "joined", "recording", "processing"}, r \in Recorded :
          Advances(row.status, target) /\ row' = Advanced(r, target)
    BY <1>2 DEF Moves, CommitStatus
  <2>2. /\ row'.status = target /\ row'.joined = (row.joined \/ target = "joined")
        /\ row'.left = row.left /\ row'.recording \in {row.recording, "stored"}
    BY <1>0, <2>1, MovesWrites
  <2>3. row.status \notin Terminal
    BY <2>1 DEF Advances
  <2>4. target \in {"recording", "processing"} => row.joined
    BY <1>0, <2>1, AdvancesFrom DEF RowBacked
  <2>5. ASSUME NEW k \in Jobs, pc'[k] \in PastJoined
        PROVE  row'.joined
    <3>1. CASE pc[k] \in PastJoined
      BY <1>0, <2>2, <3>1 DEF RowBacked
    <3>2. CASE row' = Advanced(row, "joined")
      BY <1>0, <3>2 DEF Advanced, Rows
    <3>3. CASE row.status \in {"joined", "recording"}
      BY <1>0, <2>2, <3>3 DEF RowBacked
    <3> QED
      BY <1>0, <2>5, <3>1, <3>2, <3>3, EntersPastJoined
  <2>6. ASSUME NEW k \in Jobs, pc'[k] = "completing"
        PROVE  row'.recording # "pending"
    BY <1>0, <2>2, <2>6, EntersCompleting DEF RowBacked
  <2>7. row.left = FALSE
    BY <1>0, <2>3 DEF FinalRowsAreConsistent, Rows
  <2>8. row'.status \notin Terminal
    BY <2>2 DEF Terminal
  <2> QED
    BY <1>0, <2>2, <2>4, <2>5, <2>6, <2>7, <2>8
       DEF BInv, RowBacked, FinalRowsAreConsistent, Terminal
<1>3. CASE FailsRun
  <2>1. PICK c : row' = Failed(c)
    BY <1>3 DEF FailsRun, CommitStatus
  <2>2. /\ row'.status = "failed" /\ row'.stop # "none" /\ row'.error /\ row'.left
        /\ row'.joined = row.joined /\ row'.recording = row.recording
    BY <1>0, <2>1, FailedWrites
  <2>3. ASSUME NEW k \in Jobs, pc'[k] \in PastJoined
        PROVE  row'.joined
    <3>1. CASE pc[k] \in PastJoined
      BY <1>0, <2>2, <3>1 DEF RowBacked
    <3>2. CASE row' = Advanced(row, "joined")
      BY <1>0, <3>2 DEF Advanced, Rows
    <3>3. CASE row.status \in {"joined", "recording"}
      BY <1>0, <2>2, <3>3 DEF RowBacked
    <3> QED
      BY <1>0, <2>3, <3>1, <3>2, <3>3, EntersPastJoined
  <2>4. ASSUME NEW k \in Jobs, pc'[k] = "completing"
        PROVE  row'.recording # "pending"
    BY <1>0, <2>2, <2>4, EntersCompleting DEF RowBacked
  <2> QED
    BY <1>0, <2>2, <2>3, <2>4 DEF BInv, RowBacked, FinalRowsAreConsistent, Terminal
<1>4. ASSUME NEW j \in Jobs, CompleteCommit(j)
      PROVE  BInv'
  <2>1. pc[j] \in {"completing", "completing-silent"}
    BY <1>4 DEF CompleteCommit
  <2>2. /\ row'.status = "completed" /\ row'.left /\ row'.joined = row.joined
        /\ row'.recording = IF pc[j] = "completing-silent" THEN "no-audio" ELSE row.recording
    BY <1>0, <1>4, CompleteWrites
  <2>3. row'.joined /\ row'.recording # "pending"
    BY <1>0, <2>1, <2>2 DEF RowBacked, PastJoined
  <2> QED
    BY <1>0, <2>2, <2>3 DEF BInv, RowBacked, FinalRowsAreConsistent, Terminal
<1> QED
  BY <1>0, <1>1, <1>2, <1>3, <1>4, StepWrites

\* A completed run has joined and its recording is accounted for, a failed run says why,
\* and left_at marks the final runs, whichever of the writers came last.
THEOREM FinalRows == Spec => []FinalRowsAreConsistent
<1>1. BInv => FinalRowsAreConsistent
  BY DEF BInv
<1> QED
  BY <1>1, BackedInit, BackedNext, PTL DEF Spec

\* The log's ends and steps; with CompletedOnce, EventsFollowPipeline.
LogWalks ==
  /\ Len(events) > 0
  /\ events[1] = "queued"
  /\ events[Len(events)] = row.status
  /\ \A i \in 1..(Len(events) - 1) :
       \/ CanTransition(events[i], events[i + 1])
       \/ events[i] \in Terminal /\ events[i + 1] \in Terminal

\* The inductive invariant behind EventsFollowPipeline.
EInv == IInv /\ LogWalks /\ CompletedOnce

\* The log of a queued run has one event.
LEMMA LogInit == Init => EInv
<1> SUFFICES ASSUME Init PROVE EInv
  OBVIOUS
<1>1. events = <<"queued">> /\ row.status = "queued"
  BY DEF Init
<1> QED
  BY <1>1, IInvInit DEF EInv, LogWalks, CompletedOnce

\* A commit whose move is legal extends the walk.
LEMMA LogGrows ==
  ASSUME TypeOK, LogWalks, NEW s \in Statuses, events' = Append(events, s), row'.status = s,
         CanTransition(row.status, s) \/ (row.status \in Terminal /\ s \in Terminal)
  PROVE  /\ LogWalks'
         /\ \A i \in DOMAIN events' : events'[i] = s \/ (i \in DOMAIN events /\ events'[i] = events[i])
         /\ \A i \in DOMAIN events' : i \notin DOMAIN events => i = Len(events) + 1
<1>1. events \in Seq(Statuses)
  BY DEF TypeOK
<1>2. /\ Len(events') = Len(events) + 1 /\ Len(events) \in Nat
      /\ DOMAIN events = 1..Len(events) /\ DOMAIN events' = 1..(Len(events) + 1)
      /\ \A i \in 1..Len(events) : events'[i] = events[i]
      /\ events'[Len(events) + 1] = s
  BY <1>1
<1>3. ASSUME NEW i \in 1..(Len(events') - 1)
      PROVE  \/ CanTransition(events'[i], events'[i + 1])
             \/ events'[i] \in Terminal /\ events'[i + 1] \in Terminal
  <2>1. CASE i = Len(events)
    BY <1>2, <2>1 DEF LogWalks
  <2>2. CASE i # Len(events)
    <3>1. i \in 1..(Len(events) - 1) /\ i + 1 \in 1..Len(events)
      <4>1. PICK n \in Nat : n = Len(events)
        BY <1>2
      <4>2. Len(events') - 1 = n
        BY <1>2, <4>1
      <4>3. i \in 1..(n - 1) /\ i + 1 \in 1..n
        BY <2>2, <4>1, <4>2
      <4> QED
        BY <4>1, <4>3
    <3> QED
      BY <1>2, <3>1 DEF LogWalks
  <2> QED
    BY <2>1, <2>2
<1>4. LogWalks'
  BY <1>2, <1>3 DEF LogWalks
<1> QED
  BY <1>2, <1>4

\* Every step keeps the walk, and no second pod is left to tell "completed" again.
LEMMA LogNext == EInv /\ [Next]_vars => EInv'
<1> SUFFICES ASSUME EInv, [Next]_vars PROVE EInv'
  OBVIOUS
<1>0. /\ IInv /\ IInv' /\ TypeOK /\ RowTracksPod /\ OneParticipant /\ LogWalks /\ CompletedOnce
      /\ row \in Rows /\ row.status \in Statuses
  BY IInvNext DEF EInv, IInv, TypeOK, Rows
<1>1. ASSUME row.status \in Terminal
      PROVE  row'.status \in Terminal /\ \A j \in Jobs : InMeeting(j)' => InMeeting(j)
  BY <1>0, <1>1, StaysFinal, EntersMeeting DEF Terminal
<1>2. CASE Keeps /\ events' = events
  <2>1. row'.status = row.status
    BY <1>0, <1>2 DEF Keeps, Rows
  <2>2. LogWalks'
    BY <1>0, <1>2, <2>1 DEF LogWalks
  <2>3. CompletedOnce'
    BY <1>0, <1>1, <1>2 DEF CompletedOnce
  <2> QED
    BY <1>0, <2>2, <2>3 DEF EInv
<1>3. ASSUME NEW s \in Statuses \ {"completed"}, events' = Append(events, s), row'.status = s,
             CanTransition(row.status, s) \/ (row.status \in Terminal /\ s \in Terminal)
      PROVE  EInv'
  <2>1. /\ LogWalks'
        /\ \A i \in DOMAIN events' : events'[i] = s \/ (i \in DOMAIN events /\ events'[i] = events[i])
    BY <1>0, <1>3, LogGrows
  <2>2. CompletedOnce'
    BY <1>0, <1>1, <1>3, <2>1 DEF CompletedOnce
  <2> QED
    BY <1>0, <2>1, <2>2 DEF EInv
<1>4. CASE Moves
  <2>1. PICK target \in {"joining", "joined", "recording", "processing"}, r \in Recorded :
          Advances(row.status, target) /\ CommitStatus(Advanced(r, target))
    BY <1>4 DEF Moves
  <2>2. Advanced(r, target).status = target
    BY <1>0, <2>1, MovesWrites
  <2>3. target \in Statuses \ {"completed"}
    BY DEF Statuses, Live
  <2> QED
    BY <1>3, <2>1, <2>2, <2>3 DEF CommitStatus, Advances
<1>5. CASE FailsRun
  <2>1. PICK c : CommitStatus(Failed(c))
    BY <1>5 DEF FailsRun
  <2>2. Failed(c).status = "failed"
    BY <1>0, FailedRow
  <2>3. "failed" \in Statuses \ {"completed"} /\ "failed" \in Terminal
    BY DEF Statuses, Terminal
  <2>4. CanTransition(row.status, "failed") \/ row.status \in Terminal
    BY <1>0 DEF CanTransition, Allowed, Statuses, Live, Terminal
  <2> QED
    BY <1>3, <2>1, <2>2, <2>3, <2>4 DEF CommitStatus
<1>6. ASSUME NEW j \in Jobs, CompleteCommit(j)
      PROVE  EInv'
  <2>1. InMeeting(j) /\ row.status \in {"processing"} \cup Terminal
    <3>1. InMeeting(j) /\ Expected(pc[j]) = {"processing"}
      BY <1>6 DEF CompleteCommit, InMeeting, AttendPcs, Expected, FailPcs
    <3> QED
      BY <1>0, <3>1 DEF RowTracksPod
  <2>2. row'.status = "completed" /\ events' = Append(events, "completed")
    BY <1>0, <1>6, CompleteWrites
  <2>3. "completed" \in Statuses /\ "completed" \in Terminal
    BY DEF Statuses, Terminal
  <2>4. CanTransition(row.status, "completed") \/ row.status \in Terminal
    BY <2>1 DEF CanTransition, Allowed, Statuses, Live, Terminal
  <2>5. /\ LogWalks'
        /\ \A i \in DOMAIN events' :
             events'[i] = "completed" \/ (i \in DOMAIN events /\ events'[i] = events[i])
        /\ \A i \in DOMAIN events' : i \notin DOMAIN events => i = Len(events) + 1
        /\ \A i \in DOMAIN events : events'[i] = events[i]
    <3>1. \A i \in DOMAIN events : events'[i] = events[i]
      BY <1>0, <2>2, <2>3 DEF TypeOK
    <3> QED
      BY <1>0, <2>2, <2>3, <2>4, <3>1, LogGrows
  <2>6. \A i \in DOMAIN events : events[i] # "completed"
    BY <1>0, <2>1 DEF CompletedOnce
  <2>7. \A k \in Jobs : ~InMeeting(k)'
    <3>1. pc'[j] = "exit"
      BY <1>0, <1>6, EndsMoves DEF CompleteCommit, Callers
    <3>2. ~InMeeting(j)'
      BY <3>1 DEF InMeeting, AttendPcs, FailPcs
    <3>3. \A k \in Jobs \ {j} : ~InMeeting(k)
      BY <1>0, <2>1 DEF OneParticipant
    <3>4. row.status # "queued"
      BY <2>1 DEF Terminal
    <3> QED
      BY <1>0, <3>2, <3>3, <3>4, EntersMeeting
  <2>8. CompletedOnce'
    BY <2>2, <2>3, <2>5, <2>6, <2>7 DEF CompletedOnce
  <2> QED
    BY <1>0, <2>5, <2>8 DEF EInv
<1> QED
  BY <1>0, <1>2, <1>4, <1>5, <1>6, StepWrites

\* The status events walk the pipeline of state.py in commit order, end in the row's
\* status and tell "completed" at most once, whoever commits over whom.
THEOREM EventsWalkPipeline == Spec => []EventsFollowPipeline
<1>1. EInv => EventsFollowPipeline
  <2> SUFFICES ASSUME EInv PROVE Cardinality({i \in DOMAIN events : events[i] = "completed"}) <= 1
    BY DEF EInv, LogWalks, EventsFollowPipeline
  <2> DEFINE C == {i \in DOMAIN events : events[i] = "completed"}
  <2>1. \A i, k \in C : i = k
    BY DEF EInv, CompletedOnce
  <2>2. C = {} \/ \E i : C = {i}
    BY <2>1
  <2>3. Cardinality(C) = 0 \/ Cardinality(C) = 1
    <3>1. CASE C = {}
      BY <3>1, FS_EmptySet
    <3>2. ASSUME NEW i, C = {i}
          PROVE  Cardinality(C) = 1
      BY <3>2, FS_Singleton
    <3> QED
      BY <2>2, <3>1, <3>2
  <2> QED
    BY <2>3
<1> QED
  BY <1>1, LogInit, LogNext, PTL DEF Spec
=============================================================================
