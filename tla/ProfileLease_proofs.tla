------------------------ MODULE ProfileLease_proofs ------------------------
(***************************************************************************)
(* Guests, for any claims, gap and bound of the clock; and requests,       *)
(* guests and the shared profile, for any requests and number of mishaps.  *)
(* The invariant of these has six parts, each kept by every step with the  *)
(* help of the ones before it.                                             *)
(***************************************************************************)
EXTENDS ProfileLease, FiniteSetTheorems, TLAPS

-----------------------------------------------------------------------------
(* The pacer alone                                                          *)

\* What GuestPacer keeps between its calls: the slots that were given out and not given back
\* are apart, the next one comes after all of them, and nobody was let go before its slot.
PacingInv ==
  /\ PacingTypeOK
  /\ GuestsPaced
  /\ \A c \in Kept : slot[c] + gap <= nextAt

\* No slot is out at first.
LEMMA PacingInitial == PacingInit => PacingInv
  BY PacingConstants DEF PacingInit, PacingInv, PacingTypeOK, GuestsPaced, Kept

\* A claim that reserves nothing changes no slot.
LEMMA DropKeeps ==
  ASSUME PacingInv, NEW e \in Claims, Drop(e)
  PROVE  PacingInv'
<1>1. /\ pace' = [pace EXCEPT ![e] = "withdrawn"] /\ pace[e] = "new"
      /\ UNCHANGED <<gap, clock, nextAt, slot>>
      /\ pace \in [Claims -> {"new", "waiting", "past", "withdrawn"}]
  BY DEF Drop, PacingInv, PacingTypeOK
<1>2. PacingTypeOK'
  BY <1>1 DEF PacingInv, PacingTypeOK
<1>3. Kept' = Kept /\ \A c \in Claims : pace'[c] = "past" => pace[c] = "past"
  BY <1>1 DEF Kept
<1> QED BY <1>1, <1>2, <1>3 DEF PacingInv, GuestsPaced

\* A new slot comes after all that are out.
LEMMA ReserveKeeps ==
  ASSUME PacingInv, NEW e \in Claims, Reserve(e)
  PROVE  PacingInv'
<1> DEFINE at == SlotAt
<1>0. gap \in Nat /\ clock \in Nat /\ nextAt \in Nat /\ at \in Nat
      /\ at >= nextAt /\ at >= clock /\ (at > clock \/ at = clock)
  BY PacingConstants DEF PacingInv, PacingTypeOK, SlotAt
<1>1. /\ slot' = [slot EXCEPT ![e] = at] /\ nextAt' = at + gap
      /\ pace' = [pace EXCEPT ![e] = IF at > clock THEN "waiting" ELSE "past"]
      /\ pace[e] = "new" /\ UNCHANGED <<gap, clock>>
  BY DEF Reserve
<1>2. slot \in [Claims -> Nat] /\ pace \in [Claims -> {"new", "waiting", "past", "withdrawn"}]
  BY DEF PacingInv, PacingTypeOK
<1> HIDE DEF at
<1>3. PacingTypeOK'
  BY <1>0, <1>1, <1>2 DEF PacingInv, PacingTypeOK
<1>4. slot'[e] = at /\ \A c \in Claims : c # e => slot'[c] = slot[c] /\ pace'[c] = pace[c]
  BY <1>1, <1>2
<1>5. \A c \in Kept' : c = e \/ (c \in Kept /\ slot'[c] = slot[c])
  BY <1>4 DEF Kept
<1>6. \A c \in Kept : slot[c] \in Nat /\ slot[c] + gap <= nextAt
  BY <1>2 DEF PacingInv, Kept
<1>7. \A c \in Kept' : slot'[c] + gap' <= nextAt'
  BY <1>0, <1>1, <1>4, <1>5, <1>6
<1>8. \A c, d \in Kept' : c # d => slot'[c] + gap' <= slot'[d] \/ slot'[d] + gap' <= slot'[c]
  <2>1. SUFFICES ASSUME NEW c \in Kept', NEW d \in Kept', c # d
                 PROVE  slot'[c] + gap' <= slot'[d] \/ slot'[d] + gap' <= slot'[c]
    OBVIOUS
  <2>2. CASE c = e
    BY <1>0, <1>1, <1>4, <1>5, <1>6, <2>1, <2>2
  <2>3. CASE d = e
    BY <1>0, <1>1, <1>4, <1>5, <1>6, <2>1, <2>3
  <2>4. CASE c # e /\ d # e
    BY <1>1, <1>5, <2>1, <2>4 DEF PacingInv, GuestsPaced
  <2> QED BY <2>2, <2>3, <2>4
<1>9. \A c \in Claims : pace'[c] = "past" => slot'[c] <= clock'
  <2>1. SUFFICES ASSUME NEW c \in Claims, pace'[c] = "past" PROVE slot'[c] <= clock'
    OBVIOUS
  <2>2. CASE c = e
    <3>1. ~(at > clock)
      BY <1>1, <1>2, <2>1, <2>2
    <3> QED BY <1>0, <1>1, <1>4, <2>2, <3>1
  <2>3. CASE c # e
    BY <1>1, <1>4, <2>1, <2>3 DEF PacingInv, GuestsPaced
  <2> QED BY <2>2, <2>3
<1> QED BY <1>3, <1>7, <1>8, <1>9 DEF PacingInv, GuestsPaced

\* A claim goes when its slot has come.
LEMMA PassKeeps ==
  ASSUME PacingInv, NEW e \in Claims, Pass(e)
  PROVE  PacingInv'
<1>1. /\ pace' = [pace EXCEPT ![e] = "past"] /\ pace[e] = "waiting"
      /\ UNCHANGED <<gap, clock, nextAt, slot>> /\ clock >= slot[e]
  BY DEF Pass
<1>2. slot \in [Claims -> Nat] /\ clock \in Nat
      /\ pace \in [Claims -> {"new", "waiting", "past", "withdrawn"}]
  BY PacingConstants DEF PacingInv, PacingTypeOK
<1>3. PacingTypeOK'
  BY <1>1, <1>2 DEF PacingInv, PacingTypeOK
<1>4. Kept' = Kept
  BY <1>1, <1>2 DEF Kept
<1>5. \A c \in Claims : pace'[c] = "past" => slot'[c] <= clock'
  BY <1>1, <1>2 DEF PacingInv, GuestsPaced
<1> QED BY <1>1, <1>3, <1>4, <1>5 DEF PacingInv, GuestsPaced

\* Giving the latest slot back leaves the next one behind every other: of two that are apart,
\* only the later one can be the latest.
LEMMA WithdrawKeeps ==
  ASSUME PacingInv, NEW e \in Claims, Withdraw(e) \/ WaitFails(e)
  PROVE  PacingInv'
<1>1. /\ pace' = [pace EXCEPT ![e] = "withdrawn"] /\ pace[e] = "waiting"
      /\ UNCHANGED <<gap, clock, slot>>
      /\ nextAt' = Released(e) \/ nextAt' = nextAt
  BY DEF Withdraw, WaitFails
<1>2. slot \in [Claims -> Nat] /\ gap \in Nat /\ nextAt \in Nat
      /\ pace \in [Claims -> {"new", "waiting", "past", "withdrawn"}]
  BY PacingConstants DEF PacingInv, PacingTypeOK
<1>3. PacingTypeOK'
  BY <1>1, <1>2 DEF PacingInv, PacingTypeOK, Released
<1>4. Kept' = Kept \ {e} /\ e \in Kept
  BY <1>1, <1>2 DEF Kept
<1>5. \A c \in Kept' : slot[c] \in Nat /\ slot[c] + gap <= nextAt
                       /\ (slot[c] + gap <= slot[e] \/ slot[e] + gap <= slot[c])
  BY <1>2, <1>4 DEF PacingInv, GuestsPaced, Kept
<1>6. \A c \in Kept' : slot'[c] + gap' <= nextAt'
  BY <1>1, <1>2, <1>5 DEF Released
<1>7. GuestsPaced'
  BY <1>1, <1>2, <1>4 DEF PacingInv, GuestsPaced
<1> QED BY <1>3, <1>6, <1>7 DEF PacingInv

\* A new process has no slots out.
LEMMA NewProcessKeeps ==
  ASSUME PacingInv, NEW again, NewProcess(again)
  PROVE  PacingInv'
<1>1. PacingTypeOK'
  BY DEF PacingInv, PacingTypeOK, NewProcess
<1>2. \A c \in Claims : pace'[c] \in {"new", "withdrawn"}
  BY DEF NewProcess
<1>3. Kept' = {}
  BY <1>2 DEF Kept
<1> QED BY <1>1, <1>2, <1>3 DEF PacingInv, GuestsPaced

\* Time passes.
LEMMA TickKeeps == PacingInv /\ Tick => PacingInv'
<1> SUFFICES ASSUME PacingInv, Tick PROVE PacingInv'
  OBVIOUS
<1>1. PacingTypeOK' /\ clock \in Nat /\ clock' = clock + 1 /\ slot \in [Claims -> Nat]
      /\ UNCHANGED <<gap, nextAt, slot, pace>>
  BY PacingConstants DEF PacingInv, PacingTypeOK, Tick
<1>2. Kept' = Kept
  BY <1>1 DEF Kept
<1>3. \A c \in Claims : pace'[c] = "past" => slot'[c] <= clock'
  BY <1>1 DEF PacingInv, GuestsPaced
<1> QED BY <1>1, <1>2, <1>3 DEF PacingInv, GuestsPaced

\* So every step of the pacer keeps the slots apart.
LEMMA PacingKept == PacingInv /\ [PacingNext]_pacingVars => PacingInv'
<1> SUFFICES ASSUME PacingInv, [PacingNext]_pacingVars PROVE PacingInv'
  OBVIOUS
<1>1. CASE \E c \in Claims : Drop(c) \/ Reserve(c) \/ Pass(c) \/ Withdraw(c) \/ WaitFails(c)
  BY <1>1, DropKeeps, ReserveKeeps, PassKeeps, WithdrawKeeps
<1>2. CASE \E again \in SUBSET Claims : NewProcess(again)
  BY <1>2, NewProcessKeeps
<1>3. CASE Tick
  BY <1>3, TickKeeps
<1>4. CASE UNCHANGED pacingVars
  BY <1>4 DEF pacingVars, PacingInv, PacingTypeOK, GuestsPaced, Kept
<1> QED BY <1>1, <1>2, <1>3, <1>4 DEF PacingNext

\* GuestPacer.reserve and release keep the guests of one process a gap apart, whatever is
\* reserved, given back or forgotten in between.
THEOREM PacerSpaces == PacingSpec => []GuestsPaced
<1>1. PacingInv => GuestsPaced
  BY DEF PacingInv
<1> QED BY <1>1, PacingInitial, PacingKept, PTL DEF PacingSpec

-----------------------------------------------------------------------------
(* Requests, guests and the profile                                         *)

\* The row of r is in the table, or about to be.
Holds(r) == row[r] # "none" \/ pc[r] \in {"inserted", "answered"}

\* Two rows that the unique indexes let stand side by side.
Compatible(q, r) ==
  ~SameKey(q, r) /\ (SameMeeting(q, r) => row[q] = "over" \/ row[r] = "over")

\* A row is committed when its handler is done, and a run without one has no task and no pod;
\* rows are compatible; an answer names a run of its own key.
ApiInv ==
  /\ \A r \in Requests : pc[r] # "done" => row[r] = "none"
  /\ \A r \in Requests :
       row[r] = "none" => task[r] = "new" /\ pod[r] = "none" /\ pace[r] = "new"
  /\ \A q, r \in Requests : q # r /\ Holds(q) /\ Holds(r) => Compatible(q, r)
  /\ \A r \in Requests : reply[r] \in Requests => reply[r] = r \/ SameKey(reply[r], r)

\* A claim that waits for its slot has not come to execute_run.
ClaimInv == \A r \in Requests : pace[r] = "waiting" => task[r] = "new"

Up(r) == pod[r] \notin {"none", "gone"}
Holding == {"spawn", "watch", "settle", "release", "delete"}

\* While no lease was given up early: an execution between its lease and its release has the
\* lease; a pod is watched by such an execution, or a lease that nobody gives back keeps
\* others away; so there is one pod at most.
LeaseInv ==
  Signed /\ ~lapsed =>
    /\ \A r \in Requests : task[r] \in Holding => lease = r
    /\ \A r \in Requests : Up(r) => task[r] = "watch" \/ lease = Orphaned
    /\ \A q, r \in Requests : Up(q) /\ Up(r) => q = r

\* A pod that will store its profile has restored what is stored.
ProfileInv ==
  Signed /\ ~lapsed /\ ~blind =>
    \A r \in Requests : pod[r] \in UsingProfile \cup {"restored"} => stored \subseteq mine[r]

IInv == TypeOK /\ PacingInv /\ ClaimInv /\ ApiInv /\ LeaseInv /\ ProfileInv

-----------------------------------------------------------------------------
(* The type invariant                                                       *)

LEMMA Initial == Init => IInv
<1> SUFFICES ASSUME Init PROVE IInv
  OBVIOUS
<1>2. PacingInv
  BY PacingInitial DEF Init
<1>1. TypeOK
  <2>1. ApiTypeOK
    BY ApiConstants DEF Init, ApiInit, ApiTypeOK
  <2>2. PacingTypeOK
    BY <1>2 DEF PacingInv
  <2> QED BY <2>1, <2>2 DEF Init, TypeOK, Tasks, Pods
<1>3. ApiInv
  <2>1. \A r \in Requests : /\ pc[r] = "key" /\ row[r] = "none" /\ reply[r] = None
                           /\ task[r] = "new" /\ pod[r] = "none" /\ pace[r] = "new"
    BY LeaseConstants DEF Init, ApiInit, PacingInit
  <2>2. None \notin Requests
    BY ApiConstants
  <2> QED BY <2>1, <2>2 DEF ApiInv, Holds
<1>4. ClaimInv /\ LeaseInv /\ ProfileInv
  BY DEF Init, ClaimInv, LeaseInv, ProfileInv, Up, Holding, UsingProfile
<1> QED BY <1>1, <1>2, <1>3, <1>4 DEF IInv

\* A step of ProfileLease is one of GuestPacing, or leaves the pacer alone.
LEMMA StepOfPacing == [Next]_vars => [PacingNext]_pacingVars
<1> SUFFICES ASSUME [Next]_vars PROVE [PacingNext]_pacingVars
  OBVIOUS
<1>1. CASE Api /\ UNCHANGED pacingVars /\ Others
  BY <1>1
<1>2. ASSUME NEW r \in Requests, Worker(r) PROVE [PacingNext]_pacingVars
  BY <1>2, LeaseConstants DEF Worker, PacingNext, Claim, LetGo, Withdrawn, Execute, Acquire,
    AcquireFails, Spawn, Watch, WatchTimesOut, Settle, SpawnFails, Release, Delete,
    ReleaseFails, FailRun
<1>3. ASSUME NEW r \in Requests, Pod(r) \/ KillPod(r) PROVE [PacingNext]_pacingVars
  BY <1>3 DEF Pod, Restore, Join, Leave, Persist, PodFailsRun, KillPod, PodStep
<1>4. CASE Shutdown \/ KillWorker
  <2>1. PICK again \in SUBSET Claims : NewProcess(again)
    BY <1>4, LeaseConstants DEF Shutdown, KillWorker
  <2> QED BY <2>1 DEF PacingNext
<1>5. CASE LeaseExpires
  BY <1>5 DEF LeaseExpires
<1>6. CASE Tick /\ Fine /\ NoRow /\ Others
  BY <1>6 DEF PacingNext
<1>7. CASE UNCHANGED vars
  BY <1>7 DEF vars
<1> QED BY <1>1, <1>2, <1>3, <1>4, <1>5, <1>6, <1>7 DEF Next

LEMMA ApiTyped ==
  ASSUME ApiTypeOK, NEW r \in Requests,
         LookUpKey(r) \/ FindActive(r) \/ Insert(r) \/ Respond(r) \/ Commit(r) \/ CancelQueued(r)
  PROVE  ApiTypeOK'
<1> USE ApiConstants DEF ApiTypeOK, Fine, Mishap, Goto, Answer
<1>1. CASE LookUpKey(r)
  BY <1>1 DEF LookUpKey
<1>2. CASE FindActive(r)
  BY <1>2 DEF FindActive
<1>3. CASE Insert(r)
  BY <1>3 DEF Insert
<1>4. CASE Respond(r)
  BY <1>4 DEF Respond
<1>5. CASE Commit(r)
  BY <1>5 DEF Commit
<1>6. CASE CancelQueued(r)
  BY <1>6 DEF CancelQueued
<1> QED BY <1>1, <1>2, <1>3, <1>4, <1>5, <1>6

LEMMA WorkerTyped ==
  ASSUME TypeOK, PacingTypeOK', NEW r \in Requests, Worker(r)
  PROVE  TypeOK'
<1>1. /\ ask \in Asked
      /\ pc \in [Requests -> {"key", "active", "insert", "inserted", "answered", "done"}]
      /\ reply \in [Requests -> Requests \cup {None, Conflict, Failed}]
      /\ row \in [Requests -> {"none", "queued", "live", "over"}]
      /\ task \in [Requests -> Tasks] /\ pod \in [Requests -> Pods]
  BY DEF TypeOK, ApiTypeOK
<1>2. /\ \A place \in Tasks : To(r, place) => task' \in [Requests -> Tasks]
      /\ Ends(r) => row' \in [Requests -> {"none", "queued", "live", "over"}]
      /\ Fine \/ Mishap => mishaps' \in 0..MaxMishaps
  BY <1>1, ApiConstants DEF To, Ends, Fine, Mishap, TypeOK, ApiTypeOK
<1> USE <1>1, <1>2 DEF NoApi, NoRow, TypeOK, ApiTypeOK, profile, Tasks
<1>3. CASE Claim(r)
  BY <1>3 DEF Claim
<1>4. CASE LetGo(r)
  BY <1>4 DEF LetGo
<1>5. CASE Withdrawn(r)
  BY <1>5 DEF Withdrawn
<1>6. CASE Execute(r)
  BY <1>6 DEF Execute
<1>7. CASE Acquire(r)
  BY <1>7 DEF Acquire
<1>8. CASE Spawn(r)
  BY <1>8 DEF Spawn, PodTo, Pods
<1>9. CASE Watch(r)
  BY <1>9 DEF Watch
<1>10. CASE WatchTimesOut(r)
  BY <1>10 DEF WatchTimesOut
<1>11. CASE Settle(r)
  BY <1>11 DEF Settle
<1>12. CASE SpawnFails(r)
  BY <1>12 DEF SpawnFails, PodTo, Pods
<1>13. CASE Release(r)
  BY <1>13 DEF Release, After
<1>14. CASE Delete(r)
  BY <1>14 DEF Delete, After
<1>15. CASE ReleaseFails(r)
  BY <1>15 DEF ReleaseFails, After
<1>16. CASE FailRun(r)
  BY <1>16 DEF FailRun
<1>17. CASE AcquireFails(r)
  BY <1>17 DEF AcquireFails
<1> QED BY <1>3, <1>4, <1>5, <1>6, <1>7, <1>8, <1>9, <1>10, <1>11, <1>12, <1>13, <1>14,
  <1>15, <1>16, <1>17 DEF Worker

LEMMA PodTyped ==
  ASSUME TypeOK, PacingTypeOK', NEW r \in Requests, Pod(r) \/ KillPod(r)
  PROVE  TypeOK'
<1>1. /\ ask \in Asked
      /\ pc \in [Requests -> {"key", "active", "insert", "inserted", "answered", "done"}]
      /\ reply \in [Requests -> Requests \cup {None, Conflict, Failed}]
      /\ row \in [Requests -> {"none", "queued", "live", "over"}]
      /\ mine \in [Requests -> SUBSET Requests] /\ stored \subseteq Requests
      /\ pod \in [Requests -> Pods]
  BY DEF TypeOK, ApiTypeOK
<1>2. /\ \A place \in Pods : PodTo(r, place) => pod' \in [Requests -> Pods]
      /\ Ends(r) => row' \in [Requests -> {"none", "queued", "live", "over"}]
      /\ Fine \/ Mishap => mishaps' \in 0..MaxMishaps
  BY <1>1, ApiConstants DEF PodTo, Ends, Fine, Mishap, TypeOK, ApiTypeOK
<1> USE <1>1, <1>2 DEF NoApi, NoRow, TypeOK, ApiTypeOK, profile, Pods, UsingProfile, PodStep
<1>3. CASE Restore(r)
  BY <1>3 DEF Restore
<1>4. CASE Join(r)
  BY <1>4 DEF Join
<1>5. CASE Leave(r)
  BY <1>5 DEF Leave
<1>6. CASE Persist(r)
  BY <1>6 DEF Persist
<1>7. CASE PodFailsRun(r)
  BY <1>7 DEF PodFailsRun
<1>8. CASE KillPod(r)
  BY <1>8 DEF KillPod
<1> QED BY <1>3, <1>4, <1>5, <1>6, <1>7, <1>8 DEF Pod

LEMMA TypeKept ==
  ASSUME TypeOK, PacingTypeOK', [Next]_vars
  PROVE  TypeOK'
<1>1. CASE Api /\ UNCHANGED pacingVars /\ Others
  <2>1. ApiTypeOK'
    BY <1>1, ApiTyped DEF Api, TypeOK
  <2> QED BY <1>1, <2>1 DEF Others, profile, TypeOK
<1>2. CASE \E r \in Requests : Worker(r) \/ Pod(r) \/ KillPod(r)
  BY <1>2, WorkerTyped, PodTyped
<1>3. CASE Shutdown \/ KillWorker \/ LeaseExpires
  <2>1. ApiTypeOK'
    BY <1>3, ApiConstants
      DEF Shutdown, KillWorker, LeaseExpires, Mishap, NoRow, NoApi, TypeOK, ApiTypeOK
  <2>2. task' \in [Requests -> Tasks]
    BY <1>3 DEF Shutdown, KillWorker, LeaseExpires, TypeOK, Tasks
  <2> QED BY <1>3, <2>1, <2>2 DEF Shutdown, KillWorker, LeaseExpires, profile, TypeOK
<1>4. CASE Tick /\ Fine /\ NoRow /\ Others
  BY <1>4 DEF Fine, NoRow, NoApi, Others, profile, TypeOK, ApiTypeOK
<1>5. CASE UNCHANGED vars
  BY <1>5 DEF vars, apiVars, profile, TypeOK, ApiTypeOK
<1> QED BY <1>1, <1>2, <1>3, <1>4, <1>5 DEF Next

-----------------------------------------------------------------------------
(* Requests and rows                                                        *)

LEMMA ApiKeepsRows ==
  ASSUME TypeOK, ApiInv, NEW r \in Requests, UNCHANGED <<task, pod, pace>>,
         LookUpKey(r) \/ FindActive(r) \/ Insert(r) \/ Respond(r) \/ Commit(r) \/ CancelQueued(r)
  PROVE  ApiInv'
<1>1. /\ pc \in [Requests -> {"key", "active", "insert", "inserted", "answered", "done"}]
      /\ reply \in [Requests -> Requests \cup {None, Conflict, Failed}]
      /\ row \in [Requests -> {"none", "queued", "live", "over"}]
      /\ {None, Conflict, Failed} \cap Requests = {}
  BY ApiConstants DEF TypeOK, ApiTypeOK
<1>2. CASE LookUpKey(r)
  BY <1>1, <1>2 DEF LookUpKey, Goto, Answer, ApiInv, Holds, Compatible, SameKey, SameMeeting
<1>3. CASE FindActive(r)
  BY <1>1, <1>3 DEF FindActive, Goto, Answer, ApiInv, Holds, Compatible, SameKey, SameMeeting
<1>4. CASE Insert(r)
  <2>1. CASE Answer(r, Conflict, "done")
    BY <1>1, <1>4, <2>1
      DEF Insert, Answer, ApiInv, Holds, Compatible, SameKey, SameMeeting
  <2>2. CASE ~Answer(r, Conflict, "done")
    <3>1. /\ pc' = [pc EXCEPT ![r] = "inserted"] /\ UNCHANGED <<ask, reply, row>>
          /\ pc[r] = "insert"
          /\ \A q \in Requests : Clashes(q, r) => row[q] = "none"
          /\ \A q \in Requests : Clashes(q, r) => pc[q] \notin {"inserted", "answered"}
      BY <1>4, <2>2 DEF Insert, Goto
    <3>2. \A q \in Requests : q # r /\ Holds(q) => Compatible(q, r) /\ Compatible(r, q)
      BY <3>1 DEF Holds, Clashes, Compatible, SameKey, SameMeeting
    <3>3. \A q \in Requests : q # r => Holds(q)' = Holds(q)
      BY <1>1, <3>1 DEF Holds
    <3>4. \A p, q \in Requests : Compatible(p, q)' = Compatible(p, q)
      BY <3>1 DEF Compatible, SameKey, SameMeeting
    <3>5. \A p, q \in Requests : p # q /\ Holds(p)' /\ Holds(q)' => Compatible(p, q)'
      BY <3>2, <3>3, <3>4 DEF ApiInv
    <3> QED BY <1>1, <3>1, <3>5 DEF ApiInv, SameKey
  <2> QED BY <2>1, <2>2
<1>5. CASE Respond(r)
  BY <1>1, <1>5 DEF Respond, Answer, ApiInv, Holds, Compatible, SameKey, SameMeeting
<1>6. CASE Commit(r)
  BY <1>1, <1>6 DEF Commit, ApiInv, Holds, Compatible, SameKey, SameMeeting
<1>7. CASE CancelQueued(r)
  BY <1>1, <1>7 DEF CancelQueued, ApiInv, Holds, Compatible, SameKey, SameMeeting
<1> QED BY <1>2, <1>3, <1>4, <1>5, <1>6, <1>7

\* What the other steps do to the rows: none comes or goes, and what is over stays over.
RowsStay ==
  /\ UNCHANGED <<ask, pc, reply>>
  /\ \A r \in Requests :
       /\ row[r] = "none" =>
            row'[r] = "none" /\ task'[r] = "new" /\ pod'[r] = "none" /\ pace'[r] = "new"
       /\ row[r] # "none" => row'[r] # "none"
       /\ row[r] = "over" => row'[r] = "over"

LEMMA RowsStayKeeps == ApiInv /\ RowsStay => ApiInv'
<1> SUFFICES ASSUME ApiInv, RowsStay PROVE ApiInv'
  OBVIOUS
<1>1. \A r \in Requests : Holds(r)' = Holds(r)
  BY DEF RowsStay, Holds
<1>2. \A q, r \in Requests : Compatible(q, r) => Compatible(q, r)'
  BY DEF RowsStay, Compatible, SameKey, SameMeeting
<1> QED BY <1>1, <1>2 DEF ApiInv, RowsStay, SameKey

LEMMA WorkerKeepsRows ==
  ASSUME TypeOK, ApiInv, NEW r \in Requests, Worker(r)
  PROVE  RowsStay
<1>1. /\ row \in [Requests -> {"none", "queued", "live", "over"}]
      /\ task \in [Requests -> Tasks] /\ pod \in [Requests -> Pods]
      /\ pace \in [Requests -> {"new", "waiting", "past", "withdrawn"}]
  BY LeaseConstants DEF TypeOK, ApiTypeOK, PacingTypeOK
<1>2. row[r] = "none" => task[r] = "new" /\ pod[r] = "none" /\ pace[r] = "new"
  BY DEF ApiInv
<1>3. \A q \in Requests :
        row[q] = "none" => task[q] = "new" /\ pod[q] = "none" /\ pace[q] = "new"
  BY DEF ApiInv
<1> USE <1>1, <1>2, <1>3 DEF RowsStay, NoApi, NoRow, To, Ends
<1>4. CASE Claim(r)
  BY <1>4 DEF Claim, Reserve
<1>5. CASE LetGo(r)
  BY <1>5 DEF LetGo, Pass
<1>6. CASE Withdrawn(r)
  BY <1>6 DEF Withdrawn, Drop, Withdraw, WaitFails
<1>7. CASE Execute(r)
  BY <1>7 DEF Execute, pacingVars
<1>8. CASE Acquire(r)
  BY <1>8 DEF Acquire, pacingVars
<1>9. CASE Spawn(r)
  BY <1>9 DEF Spawn, PodTo, pacingVars
<1>10. CASE Watch(r) \/ WatchTimesOut(r)
  BY <1>10 DEF Watch, WatchTimesOut, pacingVars
<1>11. CASE Settle(r)
  BY <1>11 DEF Settle, pacingVars
<1>12. CASE SpawnFails(r)
  BY <1>12 DEF SpawnFails, PodTo, pacingVars
<1>13. CASE Release(r) \/ Delete(r) \/ ReleaseFails(r)
  BY <1>13 DEF Release, Delete, ReleaseFails, After, pacingVars
<1>14. CASE FailRun(r)
  BY <1>14 DEF FailRun, pacingVars
<1>15. CASE AcquireFails(r)
  BY <1>15 DEF AcquireFails, pacingVars
<1> QED BY <1>4, <1>5, <1>6, <1>7, <1>8, <1>9, <1>10, <1>11, <1>12, <1>13, <1>14, <1>15
  DEF Worker

LEMMA PodKeepsRows ==
  ASSUME TypeOK, ApiInv, NEW r \in Requests, Pod(r) \/ KillPod(r)
  PROVE  RowsStay
<1>1. /\ row \in [Requests -> {"none", "queued", "live", "over"}]
      /\ pod \in [Requests -> Pods]
  BY DEF TypeOK, ApiTypeOK
<1>2. \A q \in Requests :
        row[q] = "none" => task[q] = "new" /\ pod[q] = "none" /\ pace[q] = "new"
  BY DEF ApiInv
<1> USE <1>1, <1>2 DEF RowsStay, NoApi, NoRow, PodTo, Ends, PodStep, pacingVars
<1>3. CASE Restore(r)
  BY <1>3 DEF Restore
<1>4. CASE Join(r)
  BY <1>4 DEF Join
<1>5. CASE Leave(r)
  BY <1>5 DEF Leave
<1>6. CASE Persist(r)
  BY <1>6 DEF Persist
<1>7. CASE PodFailsRun(r)
  BY <1>7 DEF PodFailsRun
<1>8. CASE KillPod(r)
  BY <1>8 DEF KillPod
<1> QED BY <1>3, <1>4, <1>5, <1>6, <1>7, <1>8 DEF Pod

LEMMA RowsKept ==
  ASSUME TypeOK, ApiInv, [Next]_vars
  PROVE  ApiInv'
<1>1. CASE Api /\ UNCHANGED pacingVars /\ Others
  BY <1>1, ApiKeepsRows DEF Api, Others, pacingVars
<1>2. CASE \E r \in Requests : Worker(r) \/ Pod(r) \/ KillPod(r)
  BY <1>2, WorkerKeepsRows, PodKeepsRows, RowsStayKeeps
<1>3. CASE Shutdown \/ KillWorker
  <2>1. \A r \in Requests : pace[r] = "new" => pace'[r] = "new"
    BY <1>3, LeaseConstants DEF Shutdown, KillWorker, NewProcess
  <2>2. \A r \in Requests : task[r] = "new" /\ pace[r] = "new" => task'[r] = "new"
    BY <1>3 DEF Shutdown, KillWorker
  <2>3. RowsStay
    BY <1>3, <2>1, <2>2 DEF Shutdown, KillWorker, NoRow, NoApi, RowsStay, ApiInv
  <2> QED BY <2>3, RowsStayKeeps
<1>4. CASE LeaseExpires \/ (Tick /\ Fine /\ NoRow /\ Others) \/ UNCHANGED vars
  <2>1. RowsStay
    BY <1>4 DEF LeaseExpires, Tick, NoRow, NoApi, Others, vars, apiVars, pacingVars, RowsStay,
      ApiInv
  <2> QED BY <2>1, RowsStayKeeps
<1> QED BY <1>1, <1>2, <1>3, <1>4 DEF Next

-----------------------------------------------------------------------------
(* The lease and the profile                                                *)

LEMMA ClaimKept ==
  ASSUME TypeOK, ClaimInv, [Next]_vars
  PROVE  ClaimInv'
<1>1. /\ task \in [Requests -> Tasks]
      /\ pace \in [Requests -> {"new", "waiting", "past", "withdrawn"}]
  BY LeaseConstants DEF TypeOK, PacingTypeOK
<1> USE <1>1 DEF ClaimInv, To
<1>2. CASE Api /\ UNCHANGED pacingVars /\ Others
  BY <1>2 DEF Others, pacingVars
<1>3. ASSUME NEW r \in Requests, Claim(r) \/ LetGo(r) \/ Withdrawn(r)
      PROVE  ClaimInv'
  BY <1>3 DEF Claim, LetGo, Withdrawn, Reserve, Pass, Drop, Withdraw, WaitFails
<1>4. ASSUME NEW r \in Requests, Worker(r), ~(Claim(r) \/ LetGo(r) \/ Withdrawn(r))
      PROVE  ClaimInv'
  <2>1. pace' = pace
    BY <1>4 DEF Worker, Execute, Acquire, AcquireFails, Spawn, Watch, WatchTimesOut, Settle,
      SpawnFails, Release, Delete, ReleaseFails, FailRun, pacingVars
  <2>2. task[r] # "new" /\ \A q \in Requests : q # r => task'[q] = task[q]
    BY <1>4 DEF Worker, Execute, Acquire, AcquireFails, Spawn, Watch, WatchTimesOut, Settle,
      SpawnFails, Release, Delete, ReleaseFails, FailRun, After
  <2> QED BY <2>1, <2>2
<1>5. CASE \E r \in Requests : Pod(r) \/ KillPod(r)
  BY <1>5 DEF Pod, Restore, Join, Leave, Persist, PodFailsRun, KillPod, PodStep, pacingVars
<1>6. CASE Shutdown \/ KillWorker
  <2>1. \A r \in Requests : pace'[r] # "waiting"
    BY <1>6, LeaseConstants DEF Shutdown, KillWorker, NewProcess
  <2> QED BY <2>1
<1>7. CASE LeaseExpires \/ (Tick /\ Fine /\ NoRow /\ Others) \/ UNCHANGED vars
  BY <1>7 DEF LeaseExpires, Tick, Others, vars, pacingVars
<1> QED BY <1>2, <1>3, <1>4, <1>5, <1>6, <1>7 DEF Next

\* What an execution leaves alone.
LEMMA WorkerFrame ==
  ASSUME TypeOK, NEW r \in Requests, Worker(r)
  PROVE  UNCHANGED <<gap, mine, stored, blind>> /\ (lapsed => lapsed')
<1> USE DEF profile, TypeOK
<1>1. CASE Claim(r) \/ LetGo(r)
  BY <1>1 DEF Claim, LetGo, Reserve, Pass
<1>2. CASE Withdrawn(r)
  BY <1>2 DEF Withdrawn, Drop, Withdraw, WaitFails
<1>3. CASE Execute(r) \/ Acquire(r) \/ AcquireFails(r) \/ Spawn(r) \/ Watch(r)
  BY <1>3 DEF Execute, Acquire, AcquireFails, Spawn, Watch, pacingVars
<1>4. CASE WatchTimesOut(r) \/ Settle(r)
  BY <1>4 DEF WatchTimesOut, Settle, pacingVars
<1>5. CASE SpawnFails(r)
  BY <1>5 DEF SpawnFails, pacingVars
<1>6. CASE Release(r) \/ Delete(r) \/ ReleaseFails(r) \/ FailRun(r)
  BY <1>6 DEF Release, Delete, ReleaseFails, FailRun, pacingVars
<1> QED BY <1>1, <1>2, <1>3, <1>4, <1>5, <1>6 DEF Worker

LEMMA PodFrame ==
  ASSUME TypeOK, NEW r \in Requests, Pod(r) \/ KillPod(r)
  PROVE  UNCHANGED <<gap, task, lease, lapsed>> /\ (blind => blind')
<1> USE DEF profile, TypeOK, PodStep, pacingVars
<1>1. CASE Restore(r)
  BY <1>1 DEF Restore
<1>2. CASE Join(r) \/ Leave(r) \/ Persist(r)
  BY <1>2 DEF Join, Leave, Persist
<1>3. CASE PodFailsRun(r) \/ KillPod(r)
  BY <1>3 DEF PodFailsRun, KillPod
<1> QED BY <1>1, <1>2, <1>3 DEF Pod

LEMMA WorkerKeepsLease ==
  ASSUME TypeOK, ClaimInv, LeaseInv, NEW r \in Requests, Worker(r)
  PROVE  LeaseInv'
<1>1. /\ task \in [Requests -> Tasks] /\ pod \in [Requests -> Pods]
      /\ Orphaned \notin Requests /\ None \notin Requests /\ None # Orphaned
  BY ApiConstants, LeaseConstants DEF TypeOK
<1>2. Signed' = Signed /\ (lapsed => lapsed')
  BY WorkerFrame DEF Signed
<1>3. SUFFICES ASSUME Signed, ~lapsed, ~lapsed'
               PROVE  /\ \A q \in Requests : task'[q] \in Holding => lease' = q
                      /\ \A q \in Requests : Up(q)' => task'[q] = "watch" \/ lease' = Orphaned
                      /\ \A p, q \in Requests : Up(p)' /\ Up(q)' => p = q
  BY <1>2 DEF LeaseInv
<1>4. /\ \A q \in Requests : task[q] \in Holding => lease = q
      /\ \A q \in Requests : Up(q) => task[q] = "watch" \/ lease = Orphaned
      /\ \A p, q \in Requests : Up(p) /\ Up(q) => p = q
  BY <1>3 DEF LeaseInv
<1> USE <1>1, <1>3, <1>4 DEF Holding, Up, To, profile
<1>5. CASE Claim(r)
  BY <1>5 DEF Claim, Reserve
<1>6. CASE LetGo(r)
  BY <1>6 DEF ClaimInv, LetGo, Pass
<1>7. CASE Withdrawn(r)
  BY <1>7 DEF ClaimInv, Withdrawn, Drop, Withdraw, WaitFails
<1>8. CASE Execute(r)
  BY <1>8 DEF Execute
<1>9. CASE Acquire(r)
  BY <1>9 DEF Acquire
<1>10. CASE Spawn(r)
  BY <1>10 DEF Spawn, PodTo
<1>11. CASE Watch(r)
  BY <1>11 DEF Watch
<1>12. CASE WatchTimesOut(r)
  BY <1>12 DEF WatchTimesOut
<1>13. CASE Settle(r)
  BY <1>13 DEF Settle
<1>14. CASE SpawnFails(r)
  BY <1>14 DEF SpawnFails, PodTo
<1>15. CASE Release(r)
  BY <1>15 DEF Release, After
<1>16. CASE Delete(r)
  BY <1>16 DEF Delete, After
<1>17. CASE ReleaseFails(r)
  BY <1>17 DEF ReleaseFails, After
<1>18. CASE FailRun(r)
  BY <1>18 DEF FailRun
<1>19. CASE AcquireFails(r)
  BY <1>19 DEF AcquireFails
<1> QED BY <1>5, <1>6, <1>7, <1>8, <1>9, <1>10, <1>11, <1>12, <1>13, <1>14, <1>15, <1>16,
  <1>17, <1>18, <1>19 DEF Worker

\* A step of a pod leaves no more pods than there were.
LEMMA PodKeepsLease ==
  ASSUME TypeOK, LeaseInv, NEW r \in Requests, Pod(r) \/ KillPod(r)
  PROVE  LeaseInv'
<1>1. UNCHANGED <<gap, task, lease, lapsed>>
  BY PodFrame
<1>2. pod \in [Requests -> Pods]
  BY DEF TypeOK
<1>3. \A q \in Requests : Up(q)' => Up(q)
  BY <1>2 DEF Up, Pod, Restore, Join, Leave, Persist, PodFailsRun, KillPod, PodTo, UsingProfile
<1> QED BY <1>1, <1>3 DEF LeaseInv, Signed

LEMMA LeaseKept ==
  ASSUME TypeOK, ClaimInv, LeaseInv, [Next]_vars
  PROVE  LeaseInv'
<1>1. CASE Api /\ UNCHANGED pacingVars /\ Others
  BY <1>1 DEF Others, pacingVars, LeaseInv, Signed, Up
<1>2. CASE \E r \in Requests : Worker(r) \/ Pod(r) \/ KillPod(r)
  BY <1>2, WorkerKeepsLease, PodKeepsLease
<1>3. CASE Shutdown
  <2>1. gap' = gap /\ UNCHANGED <<pod, lease>>
    BY <1>3 DEF Shutdown, NewProcess
  <2>2. SUFFICES ASSUME Signed, ~lapsed, ~lapsed'
                 PROVE  /\ \A q \in Requests : task'[q] \in Holding => lease' = q
                        /\ \A q \in Requests : Up(q)' => task'[q] = "watch" \/ lease' = Orphaned
                        /\ \A p, q \in Requests : Up(p)' /\ Up(q)' => p = q
    BY <1>3, <2>1 DEF LeaseInv, Signed, Shutdown
  <2>3. \A q \in Requests : task'[q] \in Holding => task[q] \in Holding
    BY <1>3 DEF Shutdown, Holding
  <2>4. \A q \in Requests : Up(q) => lease = Orphaned \/ pod[q] = "gone"
    BY <1>3, <2>2 DEF Shutdown, LeaseInv
  <2> QED BY <2>1, <2>2, <2>3, <2>4 DEF LeaseInv, Up
<1>4. CASE KillWorker
  <2>1. gap' = gap /\ UNCHANGED <<pod, lapsed>> /\ \A q \in Requests : task'[q] \notin Holding
    BY <1>4 DEF KillWorker, NewProcess, profile, Holding
  <2>2. SUFFICES ASSUME Signed, ~lapsed
                 PROVE  /\ \A q \in Requests : Up(q)' => lease' = Orphaned
                        /\ \A p, q \in Requests : Up(p)' /\ Up(q)' => p = q
    BY <2>1 DEF LeaseInv, Signed
  <2>3. \A q \in Requests : Up(q) => lease # None
    BY <2>2, ApiConstants, LeaseConstants DEF LeaseInv, Holding
  <2> QED BY <1>4, <2>1, <2>2, <2>3 DEF KillWorker, LeaseInv, Up
<1>5. CASE LeaseExpires
  <2>1. UNCHANGED <<gap, task, pod>> /\ (lapsed => lapsed')
        /\ (~lapsed' => lease = Orphaned /\ \A q \in Requests : ~Up(q))
    BY <1>5 DEF LeaseExpires, pacingVars, Up
  <2> QED BY <2>1, LeaseConstants DEF LeaseInv, Signed, Up
<1>6. CASE Tick /\ Fine /\ NoRow /\ Others
  BY <1>6 DEF Tick, Others, LeaseInv, Signed, Up
<1>7. CASE UNCHANGED vars
  BY <1>7 DEF vars, pacingVars, LeaseInv, Signed, Up
<1> QED BY <1>1, <1>2, <1>3, <1>4, <1>5, <1>6, <1>7 DEF Next

\* The steps that touch no profile.
LEMMA ProfileStays ==
  ASSUME ProfileInv, UNCHANGED <<gap, mine, stored, blind>>, lapsed => lapsed',
         \A q \in Requests : pod'[q] \in UsingProfile \cup {"restored"} => pod'[q] = pod[q]
  PROVE  ProfileInv'
BY DEF ProfileInv, Signed

LEMMA PodKeepsProfile ==
  ASSUME TypeOK, LeaseInv, ProfileInv, NEW r \in Requests, Pod(r) \/ KillPod(r)
  PROVE  ProfileInv'
<1>1. UNCHANGED <<gap, lapsed>> /\ (blind => blind')
  BY PodFrame
<1>2. pod \in [Requests -> Pods] /\ mine \in [Requests -> SUBSET Requests]
      /\ stored \subseteq Requests
  BY DEF TypeOK
<1>3. SUFFICES ASSUME Signed, ~lapsed, ~blind, ~blind', NEW q \in Requests,
                      pod'[q] \in UsingProfile \cup {"restored"}
               PROVE  stored' \subseteq mine'[q]
  BY <1>1 DEF ProfileInv, Signed
<1>4. pod[q] \in UsingProfile \cup {"restored"} => stored \subseteq mine[q]
  BY <1>3 DEF ProfileInv
<1> USE <1>1, <1>2, <1>3, <1>4 DEF PodTo, UsingProfile, profile
<1>5. CASE Restore(r)
  BY <1>5 DEF Restore
<1>6. CASE Join(r)
  BY <1>6 DEF Join
<1>7. CASE Leave(r)
  BY <1>7 DEF Leave
<1>8. CASE Persist(r)
  <2>1. q # r /\ pod[q] = pod'[q] /\ pod[r] \in UsingProfile
    BY <1>8 DEF Persist
  <2>2. Up(q) /\ Up(r)
    BY <2>1 DEF Up
  <2> QED BY <2>1, <2>2 DEF LeaseInv
<1>9. CASE PodFailsRun(r)
  BY <1>9 DEF PodFailsRun
<1>10. CASE KillPod(r)
  BY <1>10 DEF KillPod
<1> QED BY <1>5, <1>6, <1>7, <1>8, <1>9, <1>10 DEF Pod

LEMMA ProfileKept ==
  ASSUME TypeOK, LeaseInv, ProfileInv, [Next]_vars
  PROVE  ProfileInv'
<1>1. CASE Api /\ UNCHANGED pacingVars /\ Others
  BY <1>1, ProfileStays DEF Others, pacingVars, profile
<1>2. ASSUME NEW r \in Requests, Worker(r)
      PROVE  ProfileInv'
  <2>1. UNCHANGED <<gap, mine, stored, blind>> /\ (lapsed => lapsed')
    BY <1>2, WorkerFrame
  <2>2. \A q \in Requests : pod'[q] \in UsingProfile \cup {"restored"} => pod'[q] = pod[q]
    BY <1>2 DEF TypeOK, UsingProfile, PodTo, Worker, Claim, LetGo, Withdrawn, Execute, Acquire,
      AcquireFails, Spawn, Watch, WatchTimesOut, Settle, SpawnFails, Release, Delete,
      ReleaseFails, FailRun
  <2> QED BY <2>1, <2>2, ProfileStays
<1>3. CASE \E r \in Requests : Pod(r) \/ KillPod(r)
  BY <1>3, PodKeepsProfile
<1>4. CASE Shutdown \/ KillWorker \/ LeaseExpires
  <2>1. UNCHANGED <<gap, pod, mine, stored, blind>>
    BY <1>4 DEF Shutdown, KillWorker, LeaseExpires, NewProcess, pacingVars, profile
  <2>2. lapsed => lapsed'
    BY <1>4 DEF Shutdown, KillWorker, LeaseExpires, TypeOK
  <2> QED BY <2>1, <2>2, ProfileStays
<1>5. CASE (Tick /\ Fine /\ NoRow /\ Others) \/ UNCHANGED vars
  BY <1>5, ProfileStays DEF Tick, Others, vars, pacingVars, profile
<1> QED BY <1>1, <1>2, <1>3, <1>4, <1>5 DEF Next

-----------------------------------------------------------------------------

LEMMA InvKept == IInv /\ [Next]_vars => IInv'
<1> SUFFICES ASSUME IInv, [Next]_vars PROVE IInv'
  BY DEF IInv
<1>1. PacingInv'
  BY StepOfPacing, PacingKept DEF IInv
<1>2. TypeOK'
  BY <1>1, TypeKept DEF IInv, PacingInv
<1> QED BY <1>1, <1>2, ClaimKept, RowsKept, LeaseKept, ProfileKept DEF IInv

\* The values every column, lease, slot and place may have.
THEOREM TypeCorrect == Spec => []TypeOK
<1>1. IInv => TypeOK
  BY DEF IInv
<1> QED BY <1>1, Initial, InvKept, PTL DEF Spec

\* The unique index on the meetings of active runs holds against every order of the queries:
\* two runs for one meeting are never both active.
THEOREM MeetingsAreSingle == Spec => []OneActivePerMeeting
<1>1. IInv => OneActivePerMeeting
  BY DEF IInv, ApiInv, Holds, Compatible, OneActivePerMeeting, Active
<1> QED BY <1>1, Initial, InvKept, PTL DEF Spec

\* Retries under one Idempotency-Key are answered with one run.
THEOREM KeysAreSingle == Spec => []KeyMeansOneRun
<1>1. IInv => KeyMeansOneRun
  <2> SUFFICES ASSUME IInv, NEW q \in Requests, NEW r \in Requests, SameKey(q, r),
                      reply[q] \in Requests, reply[r] \in Requests,
                      Stored(reply[q]), Stored(reply[r])
               PROVE  reply[q] = reply[r]
    BY DEF KeyMeansOneRun
  <2>1. Holds(reply[q]) /\ Holds(reply[r])
    BY DEF Stored, Holds
  <2>2. /\ reply[q] = q \/ SameKey(reply[q], q)
        /\ reply[r] = r \/ SameKey(reply[r], r)
    BY DEF IInv, ApiInv
  <2>3. SameKey(reply[q], reply[r])
    BY <2>2 DEF SameKey
  <2> QED BY <2>1, <2>3 DEF IInv, ApiInv, Compatible
<1> QED BY <1>1, Initial, InvKept, PTL DEF Spec

\* The guests that one worker lets go are a gap apart, whatever the API, the pods and other
\* claims do meanwhile.
THEOREM GuestsAreSpaced == Spec => []GuestsPaced
<1>1. IInv => GuestsPaced
  BY DEF IInv, PacingInv
<1> QED BY <1>1, Initial, InvKept, PTL DEF Spec

\* Until a lease is given up early, the profile is used by one bot at a time.
THEOREM ProfileIsExclusive == Spec => []OneBotPerProfile
<1>1. IInv => OneBotPerProfile
  <2> SUFFICES ASSUME IInv, Signed, ~lapsed
               PROVE  Cardinality(Using) <= 1
    BY DEF OneBotPerProfile
  <2>1. \A q, r \in Using : q = r
    BY DEF IInv, LeaseInv, Using, Up, UsingProfile
  <2>2. CASE Using = {}
    BY <2>2, FS_EmptySet
  <2>3. CASE Using # {}
    <3>1. PICK r \in Using : Using = {r}
      BY <2>1, <2>3
    <3> QED BY <3>1, FS_Singleton
  <2> QED BY <2>2, <2>3
<1> QED BY <1>1, Initial, InvKept, PTL DEF Spec

\* What is stored in the archive of the profile stays there, for each pod restores what its
\* predecessor stored.
THEOREM SessionsSurvive == Spec => SessionsKept
<1>1. IInv /\ [Next]_vars => [Signed /\ ~lapsed' /\ ~blind' => stored \subseteq stored']_vars
  <2> SUFFICES ASSUME IInv, Next, Signed, ~lapsed', ~blind'
               PROVE  stored \subseteq stored'
    OBVIOUS
  <2>1. CASE \E r \in Requests : Persist(r)
    <3>1. PICK r \in Requests : Persist(r)
      BY <2>1
    <3>2. ~lapsed /\ ~blind /\ pod[r] \in UsingProfile
      BY <3>1 DEF Persist, PodStep, UsingProfile
    <3>3. stored \subseteq mine[r]
      BY <3>2 DEF IInv, ProfileInv
    <3> QED BY <3>1, <3>3 DEF Persist
  <2>2. CASE ~\E r \in Requests : Persist(r)
    BY <2>2 DEF Next, Others, profile, Pod, Restore, Join, Leave, PodFailsRun, KillPod,
      Shutdown, KillWorker, LeaseExpires, Worker, Claim, LetGo, Withdrawn, Execute, Acquire,
      AcquireFails, Spawn, Watch, WatchTimesOut, Settle, SpawnFails, Release, Delete,
      ReleaseFails, FailRun
  <2> QED BY <2>1, <2>2
<1> QED BY <1>1, Initial, InvKept, PTL DEF Spec, SessionsKept
=============================================================================
