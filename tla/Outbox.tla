------------------------------- MODULE Outbox -------------------------------
(***************************************************************************)
(* The webhook outbox (webhooks/dispatch.py): emitters that append events  *)
(* to table webhook_deliveries, senders that select the head of each       *)
(* stream, lease it, post it and record the answer, the operator's replay  *)
(* and skip, and the purge of old rows.                                     *)
(*                                                                         *)
(* A step is one transaction, one Redis command or one POST; a transaction *)
(* that reads a row without locking it and writes it later is two.  The    *)
(* ORM writes back the columns a session has changed and no others.         *)
(***************************************************************************)
EXTENDS Integers, FiniteSets, FiniteSetsExt

CONSTANTS
  Streams,      \* the pairs of a bot and a subscription
  Senders,      \* the sender processes (one; two while a rollout replaces it)
  MaxEvents,    \* bound: events emitted per stream
  MaxAttempts,  \* MAX_ATTEMPTS
  SendBatch,    \* SEND_BATCH
  MaxMishaps,   \* bound: crashes, failing transactions, leases lost under a slow POST,
                \* operator requests
  None

Keys == Streams \X (1..MaxEvents)
Waiting == {"pending", "retry"}
Rows == [seq      : Nat \ {0},                                 \* sequence
         status   : Waiting \cup {"sent", "dead", "skipped"},
         attempts : Nat,
         token    : Senders \cup {None},                       \* lease_token
         leased   : BOOLEAN,                                   \* lease_expires_at is ahead
         due      : BOOLEAN,                                   \* next_try_at has passed
         old      : BOOLEAN]                                   \* created ROW_TTL_DAYS ago

ASSUME OutboxConstants ==
  /\ MaxEvents \in Nat /\ MaxAttempts \in Nat \ {0} /\ SendBatch \in Nat \ {0}
  /\ MaxMishaps \in Nat /\ "api" \notin Senders
  /\ None \notin Senders \cup Rows \cup {"ok", "retry", "reject"}

VARIABLES
  emitted,   \* events emitted in each stream
  row,       \* the delivery of each event, or None
  gate,      \* the streams whose send lease is taken in Redis
  pc,        \* where each sender is in run_once
  todo,      \* the deliveries it selected and has not looked at, or is about to purge
  item,      \* the one it is working on
  answer,    \* the receiver's answer: "ok", "retry", "reject"
  was,       \* the row as a session read it, before it writes
  api,       \* the operator's request: [op, key]
  got,       \* the events the receiver has heard of
  skipped,   \* the events an operator has skipped
  mishaps    \* how many of MaxMishaps were used

senders == <<pc, todo, item, answer>>
vars == <<emitted, row, gate, senders, was, api, got, skipped, mishaps>>

Pcs == {"idle", "next", "attempt", "posting", "answered", "recording", "ungate", "purging"}

TypeOK ==
  /\ emitted \in [Streams -> 0..MaxEvents]
  /\ row \in [Keys -> Rows \cup {None}]
  /\ \A k \in Keys : row[k] # None => (row[k].leased => row[k].token # None)
  /\ gate \subseteq Streams
  /\ pc \in [Senders -> Pcs]
  /\ todo \in [Senders -> SUBSET Keys]
  /\ item \in [Senders -> Keys \cup {None}]
  /\ answer \in [Senders -> {"ok", "retry", "reject", None}]
  /\ was \in [Senders \cup {"api"} -> Rows \cup {None}]
  /\ api \in [op : {"none", "replay", "skip"}, key : Keys \cup {None}]
  /\ got \subseteq Keys /\ skipped \subseteq Keys
  /\ mishaps \in 0..MaxMishaps

Init ==
  /\ emitted = [s \in Streams |-> 0]
  /\ row = [k \in Keys |-> None]
  /\ gate = {}
  /\ pc = [p \in Senders |-> "idle"]
  /\ todo = [p \in Senders |-> {}]
  /\ item = [p \in Senders |-> None]
  /\ answer = [p \in Senders |-> None]
  /\ was = [a \in Senders \cup {"api"} |-> None]
  /\ api = [op |-> "none", key |-> None]
  /\ got = {} /\ skipped = {}
  /\ mishaps = 0

Present == {k \in Keys : row[k] # None}
Of(s) == {k \in Present : k[1] = s}
Go(p, l) == pc' = [pc EXCEPT ![p] = l]
Mishap == mishaps < MaxMishaps /\ mishaps' = mishaps + 1
RowsOnly == UNCHANGED <<emitted, gate, senders, was, api, got, skipped, mishaps>>

-----------------------------------------------------------------------------
(* DbOutbox                                                                 *)

\* Fault: the sequence starts from the number of rows there are.
SequenceCounted(s) == Cardinality(Of(s)) + 1

\* One more than the last delivery the stream still has.
NextSequence(s) == Max({0} \cup {row[k].seq : k \in Of(s)}) + 1

\* _store_in_session: emitters take turns, each holds the subscriptions' row locks.
Emit(s) ==
  /\ emitted[s] < MaxEvents
  /\ emitted' = [emitted EXCEPT ![s] = @ + 1]
  /\ row' = [row EXCEPT ![<<s, emitted[s] + 1>>] =
               [seq |-> NextSequence(s), status |-> "pending", attempts |-> 0, token |-> None,
                leased |-> FALSE, due |-> TRUE, old |-> FALSE]]
  /\ UNCHANGED <<gate, senders, was, api, got, skipped, mishaps>>

-----------------------------------------------------------------------------
(* WebhookSender.run_once                                                   *)

\* Fault: a delivery that is to be retried is not selected.
UnsettledFresh == {k \in Present : row[k].status \in {"pending", "dead"}}

\* The rows the query is about, and the first SEND_BATCH of them by sequence; rows of
\* equal sequence come in any order.
Unsettled == {k \in Present : row[k].status \in Waiting \cup {"dead"}}
Batches == {B \in SUBSET Unsettled :
              /\ Cardinality(B) = Min({SendBatch, Cardinality(Unsettled)})
              /\ \A k \in B, l \in Unsettled \ B : row[k].seq <= row[l].seq}

\* Fault: a dead delivery does not hold back the rest of its stream.
ReadyPastDead(B) ==
  {k \in B : /\ row[k].status \in Waiting /\ row[k].due
             /\ \A l \in B : l[1] = k[1] /\ row[l].status # "dead" => row[k].seq <= row[l].seq}

\* _ready_deliveries: the heads of the streams, unless they are dead or not due.
Ready(B) ==
  {k \in B : /\ row[k].status \in Waiting /\ row[k].due
             /\ \A l \in B : l[1] = k[1] => row[k].seq <= row[l].seq}

Select(p) ==
  /\ pc[p] = "idle"
  /\ \E B \in Batches : todo' = [todo EXCEPT ![p] = Ready(B)]
  /\ Go(p, "next")
  /\ UNCHANGED <<emitted, row, gate, item, answer, was, api, got, skipped, mishaps>>

\* The stream's send lease: all senders take it under the same name.
TakeGate(p) ==
  /\ pc[p] = "next"
  /\ \E k \in todo[p] :
       /\ todo' = [todo EXCEPT ![p] = @ \ {k}]
       /\ IF k[1] \in gate
          THEN UNCHANGED <<gate, pc, item>>
          ELSE gate' = gate \cup {k[1]} /\ item' = [item EXCEPT ![p] = k] /\ Go(p, "attempt")
  /\ UNCHANGED <<emitted, row, answer, was, api, got, skipped, mishaps>>

Attemptable(k) == row[k] # None /\ row[k].status \in Waiting /\ ~row[k].leased

\* _attempt locks the row, looks at it again and leases it.
BeginAttempt(p) ==
  /\ pc[p] = "attempt"
  /\ IF Attemptable(item[p])
     THEN /\ row' = [row EXCEPT ![item[p]] = [@ EXCEPT !.token = p, !.leased = TRUE]]
          /\ Go(p, "posting")
     ELSE Go(p, "ungate") /\ UNCHANGED row
  /\ UNCHANGED <<emitted, gate, todo, item, answer, was, api, got, skipped, mishaps>>

\* The POST: the receiver accepts the event, refuses it for good (3xx, 4xx) or for now
\* (408, 429, 5xx, no answer), and it may have heard of it in any case.
Post(p) ==
  /\ pc[p] = "posting"
  /\ \E a \in {"ok", "retry", "reject"}, heard \in BOOLEAN :
       /\ a = "ok" => heard
       /\ answer' = [answer EXCEPT ![p] = a]
       /\ got' = IF heard THEN got \cup {item[p]} ELSE got
  /\ Go(p, "answered")
  /\ UNCHANGED <<emitted, row, gate, todo, item, was, api, skipped, mishaps>>

\* Fault: the answer is recorded whoever holds the lease.
RecordReadUnchecked(p) ==
  /\ pc[p] = "answered"
  /\ IF row[item[p]] # None
     THEN was' = [was EXCEPT ![p] = row[item[p]]] /\ Go(p, "recording")
     ELSE Go(p, "ungate") /\ UNCHANGED was
  /\ UNCHANGED <<emitted, row, gate, todo, item, answer, api, got, skipped, mishaps>>

\* The answer counts while the lease is the sender's own ..
RecordRead(p) ==
  /\ pc[p] = "answered"
  /\ IF row[item[p]] # None /\ row[item[p]].token = p
     THEN was' = [was EXCEPT ![p] = row[item[p]]] /\ Go(p, "recording")
     ELSE Go(p, "ungate") /\ UNCHANGED was
  /\ UNCHANGED <<emitted, row, gate, todo, item, answer, api, got, skipped, mishaps>>

\* The columns a session assigns for the answer, given the row it read.
Recorded(p) ==
  LET n == was[p].attempts + 1
  IN CASE answer[p] = "ok" -> [status |-> "sent", token |-> None, leased |-> FALSE]
       [] answer[p] = "retry" /\ n < MaxAttempts ->
            [status |-> "retry", attempts |-> n, due |-> FALSE, token |-> None, leased |-> FALSE]
       [] OTHER -> [status |-> "dead", attempts |-> n, token |-> None, leased |-> FALSE]

\* The assigned columns that differ from what was read are written over the row as it is
\* now.  A new time always differs; lease_expires_at is null exactly if lease_token is.
Flushed(now, read, new) ==
  LET written == {c \in DOMAIN new : \/ new[c] # read[c]
                                     \/ c = "due"
                                     \/ c = "leased" /\ read.token # None}
  IN IF now = None THEN None
     ELSE [c \in DOMAIN now |-> IF c \in written THEN new[c] ELSE now[c]]

\* .. and is committed.  The update of a row that was purged may end the pass.
RecordCommit(p) ==
  /\ pc[p] = "recording"
  /\ row' = [row EXCEPT ![item[p]] = Flushed(@, was[p], Recorded(p))]
  /\ \/ UNCHANGED todo
     \/ row[item[p]] = None /\ todo' = [todo EXCEPT ![p] = {}]
  /\ was' = [was EXCEPT ![p] = None]
  /\ Go(p, "ungate")
  /\ UNCHANGED <<emitted, gate, item, answer, api, got, skipped, mishaps>>

\* release_lease: the value is "sender", whoever took it.
Ungate(p) ==
  /\ pc[p] = "ungate"
  /\ gate' = gate \ {item[p][1]}
  /\ item' = [item EXCEPT ![p] = None] /\ answer' = [answer EXCEPT ![p] = None]
  /\ Go(p, "next")
  /\ UNCHANGED <<emitted, row, todo, was, api, got, skipped, mishaps>>

Purgeable(r) == r.old /\ r.status \in {"sent", "dead", "skipped"}

\* _purge, at the end of run_once, selects without a lock ..
PurgeRead(p) ==
  /\ pc[p] = "next" /\ todo[p] = {}
  /\ todo' = [todo EXCEPT ![p] = {k \in Present : Purgeable(row[k])}]
  /\ Go(p, "purging")
  /\ UNCHANGED <<emitted, row, gate, item, answer, was, api, got, skipped, mishaps>>

\* .. and deletes what it selected, whatever has become of it.
PurgeCommit(p) ==
  /\ pc[p] = "purging"
  /\ row' = [k \in Keys |-> IF k \in todo[p] THEN None ELSE row[k]]
  /\ todo' = [todo EXCEPT ![p] = {}]
  /\ Go(p, "idle")
  /\ UNCHANGED <<emitted, gate, item, answer, was, api, got, skipped, mishaps>>

\* The transaction that records a 3xx or 4xx fails, within the try that guards the POST:
\* it is recorded as a POST that failed.
RecordFails(p) ==
  /\ pc[p] \in {"answered", "recording"} /\ answer[p] = "reject" /\ Mishap
  /\ answer' = [answer EXCEPT ![p] = "retry"]
  /\ was' = [was EXCEPT ![p] = None]
  /\ Go(p, "answered")
  /\ UNCHANGED <<emitted, row, gate, todo, item, api, got, skipped>>

\* The sender dies, or a query fails and run_once is given up.
Crash(p) ==
  /\ pc[p] # "idle" /\ Mishap
  /\ Go(p, "idle")
  /\ todo' = [todo EXCEPT ![p] = {}]
  /\ item' = [item EXCEPT ![p] = None] /\ answer' = [answer EXCEPT ![p] = None]
  /\ was' = [was EXCEPT ![p] = None]
  /\ UNCHANGED <<emitted, row, gate, api, got, skipped>>

-----------------------------------------------------------------------------
(* replay_delivery and skip_delivery                                        *)

OperatorReads(op, k) ==
  /\ api.op = "none" /\ k \in Present /\ Mishap
  /\ api' = [op |-> op, key |-> k]
  /\ was' = [was EXCEPT !["api"] = row[k]]
  /\ UNCHANGED <<emitted, row, gate, senders, got, skipped>>

\* Fault: the operator takes the lease's token and leaves its time.
RequestedHalf(op) ==
  [status |-> IF op = "skip" THEN "skipped" ELSE "pending", due |-> op = "replay", token |-> None]

\* The columns replay and skip assign.
Requested(op) ==
  [status |-> IF op = "skip" THEN "skipped" ELSE "pending", due |-> op = "replay",
   token |-> None, leased |-> FALSE]

OperatorCommits ==
  /\ api.op # "none"
  /\ row' = [row EXCEPT ![api.key] = Flushed(@, was["api"], Requested(api.op))]
  /\ skipped' = IF api.op = "skip" /\ row[api.key] # None THEN skipped \cup {api.key} ELSE skipped
  /\ api' = [op |-> "none", key |-> None]
  /\ was' = [was EXCEPT !["api"] = None]
  /\ UNCHANGED <<emitted, gate, senders, got, mishaps>>

-----------------------------------------------------------------------------
(* Time                                                                     *)

\* Who works under the stream's send lease, and under a row's lease.
GateUsed(s) == \E p \in Senders : item[p] # None /\ item[p][1] = s
LeaseUsed(k) == \E p \in Senders : item[p] = k /\ pc[p] \in {"posting", "answered", "recording"}

\* SEND_LEASE_TTL_S has passed since a sender died, or during a slow POST.
GateExpires(s) ==
  /\ s \in gate
  /\ gate' = gate \ {s}
  /\ IF GateUsed(s) THEN Mishap ELSE UNCHANGED mishaps
  /\ UNCHANGED <<emitted, row, senders, was, api, got, skipped>>

LeaseExpires(k) ==
  /\ k \in Present /\ row[k].leased
  /\ row' = [row EXCEPT ![k].leased = FALSE]
  /\ IF LeaseUsed(k) THEN Mishap ELSE UNCHANGED mishaps
  /\ UNCHANGED <<emitted, gate, senders, was, api, got, skipped>>

BecomesDue(k) ==
  /\ k \in Present /\ row[k].status = "retry" /\ ~row[k].due
  /\ row' = [row EXCEPT ![k].due = TRUE]
  /\ RowsOnly

\* Rows get old in the order they were created.
Ages(k) ==
  /\ k \in Present /\ ~row[k].old
  /\ \A l \in Of(k[1]) : l[2] < k[2] => row[l].old
  /\ row' = [row EXCEPT ![k].old = TRUE]
  /\ RowsOnly

-----------------------------------------------------------------------------

SenderStep(p) ==
  \/ Select(p) \/ TakeGate(p) \/ BeginAttempt(p) \/ Post(p) \/ RecordRead(p)
  \/ RecordCommit(p) \/ Ungate(p) \/ PurgeRead(p) \/ PurgeCommit(p)

SenderFault(p) == RecordFails(p) \/ Crash(p)

Next ==
  \/ \E s \in Streams : Emit(s) \/ GateExpires(s)
  \/ \E p \in Senders : SenderStep(p) \/ SenderFault(p)
  \/ \E k \in Keys : \/ OperatorReads("replay", k) \/ OperatorReads("skip", k)
                     \/ LeaseExpires(k) \/ BecomesDue(k) \/ Ages(k)
  \/ OperatorCommits

Spec == Init /\ [][Next]_vars

\* A lease that nobody works under runs out, and a retry falls due.
Elapses ==
  \/ \E s \in Streams : GateExpires(s) /\ ~GateUsed(s)
  \/ \E k \in Keys : BecomesDue(k) \/ (LeaseExpires(k) /\ ~LeaseUsed(k))

\* The sender polls every OUTBOX_POLL_S, a POST times out, and time passes.
Fairness ==
  /\ \A p \in Senders : WF_vars(SenderStep(p))
  /\ WF_vars(Elapses)

FairSpec == Spec /\ Fairness

\* Deliveries are sent, or operators see to them, within ROW_TTL_DAYS: only those that
\* were sent or skipped get old.
Tended ==
  \A k \in Keys : row[k] # None /\ row'[k] # None /\ row'[k].old # row[k].old
                    => row[k].status \in {"sent", "skipped"}

TendedSpec == Init /\ [][Next /\ Tended]_vars

-----------------------------------------------------------------------------

\* Sequences restart from what the purge has left, and still put the deliveries of a
\* stream in the order their events were emitted.
SequencesFollowEmission ==
  \A k, l \in Present : k[1] = l[1] /\ k[2] < l[2] => row[k].seq < row[l].seq

\* The late answer of a sender that has lost its lease undoes nothing: what was sent
\* stays so, unless an operator replays it or a commit rests on an overtaken read.
SentStaysSent ==
  [][\A k \in Present :
       (/\ row[k].status = "sent" /\ api.key # k
        /\ \A p \in Senders : pc[p] = "recording" /\ item[p] = k => was[p] = row[k])
       => row'[k] = None \/ row'[k].status = "sent"]_vars

\* The refinement mapping: the promise speaks of what was emitted, first received and
\* skipped, whatever the rows, the leases and the senders went through.
Promise == INSTANCE OrderedDelivery
  WITH emitted <- emitted, got <- got, skipped <- skipped,
       Streams <- Streams, MaxEvents <- MaxEvents

\* First receipts come in the order of emission, skipped events aside.
DeliversInOrder == Promise!Spec

Settled(k) == row[k] = None \/ row[k].status \notin Waiting
Blocked(k) == \E l \in Of(k[1]) : l[2] < k[2] /\ row[l].status = "dead"

\* At-least-once: a delivery that waits is sent at last, or given up, or held up by an
\* earlier one of its own stream that was given up.
WaitingEnds ==
  \A k \in Keys : (k \in Present /\ row[k].status \in Waiting) ~> (Settled(k) \/ Blocked(k))
=============================================================================
