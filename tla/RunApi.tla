------------------------------- MODULE RunApi -------------------------------
(***************************************************************************)
(* POST /v1/bots (api/routes/bots.py) and BotService.create_or_get         *)
(* (bots/service.py), one transaction per request.  A step is one query.   *)
(* The answer is sent when the handler has returned; the session is        *)
(* committed after that, when the dependency get_session is closed         *)
(* (api/deps.py, FastAPI 0.141).  The database keeps uq_bots_active_meeting*)
(* and uq_bots_idempotency_key: an insert waits for the transaction that   *)
(* holds a clashing row, and fails once that row is committed.             *)
(***************************************************************************)
EXTENDS Integers

CONSTANTS
  Requests,     \* the requests, and the runs they create
  Asked,        \* what they ask: the meeting and the Idempotency-Key, or NoKey
  NoKey,
  None, Conflict, Failed,
  MaxMishaps    \* bound: failures of the database, Redis, the storage, Kubernetes, the processes

ASSUME ApiConstants ==
  /\ \A f \in Asked : \A r \in Requests : {"meeting", "key"} = DOMAIN f[r]
  /\ {None, Conflict, Failed} \cap Requests = {} /\ MaxMishaps \in Nat

VARIABLES
  ask,      \* one of Asked
  pc,       \* where each request's handler is
  reply,    \* what it was answered: the run it names, or an error
  row,      \* the status of each run, as committed
  mishaps   \* how many of MaxMishaps were used

apiVars == <<ask, pc, reply, row>>

ApiTypeOK ==
  /\ ask \in Asked
  /\ pc \in [Requests -> {"key", "active", "insert", "inserted", "answered", "done"}]
  /\ reply \in [Requests -> Requests \cup {None, Conflict, Failed}]
  /\ row \in [Requests -> {"none", "queued", "live", "over"}]
  /\ mishaps \in 0..MaxMishaps

ApiInit ==
  /\ ask \in Asked
  /\ pc = [r \in Requests |-> "key"] /\ reply = [r \in Requests |-> None]
  /\ row = [r \in Requests |-> "none"] /\ mishaps = 0

Fine == UNCHANGED mishaps
Mishap == mishaps < MaxMishaps /\ mishaps' = mishaps + 1

Answer(r, what, place) ==
  /\ reply' = [reply EXCEPT ![r] = what] /\ pc' = [pc EXCEPT ![r] = place]
  /\ UNCHANGED <<ask, row>>
Goto(r, place) == pc' = [pc EXCEPT ![r] = place] /\ UNCHANGED <<ask, reply, row>>

Active(q) == row[q] \in {"queued", "live"}
SameKey(q, r) == ask[q].key = ask[r].key /\ ask[r].key # NoKey
SameMeeting(q, r) == ask[q].meeting = ask[r].meeting

\* get_by_idempotency: the run of an earlier request, if it was for this meeting.
LookUpKey(r) ==
  /\ pc[r] = "key" /\ Fine
  /\ \/ /\ \A q \in Requests : SameKey(q, r) => row[q] = "none"
        /\ Goto(r, "active")
     \/ \E q \in Requests :
          /\ SameKey(q, r) /\ row[q] # "none"
          /\ Answer(r, IF SameMeeting(q, r) THEN q ELSE Conflict, "done")

\* find_active_meeting
FindActive(r) ==
  /\ pc[r] = "active" /\ Fine
  /\ IF \E q \in Requests : SameMeeting(q, r) /\ Active(q)
     THEN Answer(r, Conflict, "done") ELSE Goto(r, "insert")

\* Fault: there is no constraint on the key.
ClashesByMeeting(q, r) == q # r /\ SameMeeting(q, r) /\ row[q] # "over"

\* Fault: there is no index on the meetings of active runs.
ClashesByKey(q, r) == q # r /\ SameKey(q, r)

\* The row of q, committed or about to be, and a new row of r clash in one of the indexes.
Clashes(q, r) == q # r /\ (SameKey(q, r) \/ (SameMeeting(q, r) /\ row[q] # "over"))

\* repo.add: the flush inserts the row, or raises IntegrityError.
Insert(r) ==
  /\ pc[r] = "insert" /\ Fine
  /\ \A q \in Requests : Clashes(q, r) => pc[q] \notin {"inserted", "answered"}
  /\ IF \E q \in Requests : Clashes(q, r) /\ row[q] # "none"
     THEN Answer(r, Conflict, "done") ELSE Goto(r, "inserted")

\* The event is stored as well, and 202 answered; or a query fails, and the session is rolled back.
Respond(r) ==
  /\ pc[r] = "inserted"
  /\ \/ Answer(r, r, "answered") /\ Fine
     \/ Answer(r, Failed, "done") /\ Mishap

\* get_session's commit, after the answer.
Commit(r) ==
  /\ pc[r] = "answered" /\ pc' = [pc EXCEPT ![r] = "done"]
  /\ \/ row' = [row EXCEPT ![r] = "queued"] /\ Fine
     \/ UNCHANGED row /\ Mishap
  /\ UNCHANGED <<ask, reply>>

\* DELETE of a queued run (RunLifecycle has what can come between its read and its write).
CancelQueued(r) ==
  /\ row[r] = "queued" /\ row' = [row EXCEPT ![r] = "over"] /\ Fine
  /\ UNCHANGED <<ask, pc, reply>>

Api == \E r \in Requests :
         LookUpKey(r) \/ FindActive(r) \/ Insert(r) \/ Respond(r) \/ Commit(r) \/ CancelQueued(r)

-----------------------------------------------------------------------------

\* "idempotent Google Meet admission" (PLAN.md): requests that retry under one key are never
\* answered with two runs, in whatever order their queries come and however the first one's
\* run goes on; save for a run that was answered and then not committed.
Stored(q) == row[q] # "none" \/ pc[q] = "answered"
KeyMeansOneRun ==
  \A q, r \in Requests :
    SameKey(q, r) /\ {reply[q], reply[r]} \subseteq Requests =>
      (Stored(reply[q]) /\ Stored(reply[r]) => reply[q] = reply[r])

\* No meeting has two runs that are not over, though both requests may have found none.
OneActivePerMeeting ==
  \A q, r \in Requests : q # r /\ Active(q) /\ Active(r) => ~SameMeeting(q, r)
=============================================================================
