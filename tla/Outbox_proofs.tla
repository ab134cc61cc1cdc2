---------------------------- MODULE Outbox_proofs ----------------------------
(***************************************************************************)
(* Theorems about Outbox, with their proofs, for any number of streams,    *)
(* senders, events and mishaps: its type invariant, that the sequences of  *)
(* a stream follow the emission of its events, that what was sent stays    *)
(* so, and that the outbox delivers in order (it implements                *)
(* OrderedDelivery) while it is tended.                                    *)
(***************************************************************************)
EXTENDS Outbox, FiniteSetTheorems, TLAPS

\* A row with its lease: the time is set only if the token is.
Whole(r) == r \in Rows /\ (r.leased => r.token # None)

\* A sender past the head of its loop has a delivery in hand, and whoever is about to
\* write has read a row; a sender writes only what it had leased.
AtWork ==
  /\ \A p \in Senders : pc[p] \notin {"idle", "next", "purging"} => item[p] \in Keys
  /\ \A p \in Senders : pc[p] = "recording" => Whole(was[p]) /\ was[p].token = p
  /\ api.op # "none" => api.key \in Keys /\ Whole(was["api"])

TInv == TypeOK /\ AtWork

\* The columns a session may assign: it ends the lease and leaves the sequence.
Assigns(new) ==
  /\ DOMAIN new \subseteq {"status", "attempts", "token", "leased", "due"}
  /\ {"status", "token", "leased"} \subseteq DOMAIN new
  /\ new.status \in Waiting \cup {"sent", "dead", "skipped"}
  /\ new.token = None /\ new.leased = FALSE
  /\ "attempts" \in DOMAIN new => new.attempts \in Nat
  /\ "due" \in DOMAIN new => new.due \in BOOLEAN

\* A record of the columns of a row is a row.
LEMMA RowOf ==
  ASSUME NEW f, f = [c \in DOMAIN f |-> f[c]],
         DOMAIN f = {"seq", "status", "attempts", "token", "leased", "due", "old"},
         f["seq"] \in Nat \ {0}, f["status"] \in Waiting \cup {"sent", "dead", "skipped"},
         f["attempts"] \in Nat, f["token"] \in Senders \cup {None}, f["leased"] \in BOOLEAN,
         f["due"] \in BOOLEAN, f["old"] \in BOOLEAN
  PROVE  f \in Rows
BY DEF Rows

\* What a flush makes of a row: f from now.
FlushedFrom(f, now, read, new) ==
  /\ Whole(f)
  /\ f.seq = now.seq /\ f.old = now.old
  /\ f.status = new.status \/ (f.status = now.status /\ read.status = new.status)
  /\ f.token \in {now.token, None}
  /\ read.token # None => f.token = None

\* A flush does that.
LEMMA FlushedRow ==
  ASSUME NEW now, Whole(now), NEW read, Whole(read), NEW new, Assigns(new),
         NEW f, f = Flushed(now, read, new)
  PROVE  FlushedFrom(f, now, read, new)
<1> DEFINE written == {c \in DOMAIN new : \/ new[c] # read[c]
                                          \/ c = "due"
                                          \/ c = "leased" /\ read.token # None}
           C == {"seq", "status", "attempts", "token", "leased", "due", "old"}
           g == [c \in C |-> IF c \in written THEN new[c] ELSE now[c]]
<1>1. now \in Rows /\ now # None /\ DOMAIN now = C
  BY OutboxConstants DEF Whole, Rows
<1>2. f = g
  BY <1>1 DEF Flushed
<1>3. DOMAIN f = C /\ f = [c \in DOMAIN f |-> f[c]]
  BY <1>2
<1>4. "seq" \notin written /\ "old" \notin written
  BY DEF Assigns
<1>5. /\ "status" \in written <=> new.status # read.status
      /\ "token" \in written <=> read.token # None
      /\ "leased" \in written <=> (read.leased # FALSE \/ read.token # None)
  BY DEF Assigns
<1>6. /\ "attempts" \in written => new.attempts \in Nat
      /\ "due" \in written => new.due \in BOOLEAN
  BY DEF Assigns
<1> HIDE DEF written
<1>7. /\ f["seq"] = now.seq /\ f["old"] = now.old
      /\ f["status"] = IF new.status # read.status THEN new.status ELSE now.status
      /\ f["token"] = IF read.token # None THEN None ELSE now.token
      /\ f["leased"] = IF read.leased # FALSE \/ read.token # None THEN FALSE ELSE now.leased
      /\ f["attempts"] = IF "attempts" \in written THEN new.attempts ELSE now.attempts
      /\ f["due"] = IF "due" \in written THEN new.due ELSE now.due
  BY <1>2, <1>4, <1>5 DEF Assigns
<1> HIDE DEF g
<1>8. f \in Rows
  <2>1. /\ now.seq \in Nat \ {0} /\ now.old \in BOOLEAN /\ now.attempts \in Nat
        /\ now.due \in BOOLEAN /\ now.leased \in BOOLEAN /\ now.token \in Senders \cup {None}
        /\ now.status \in Waiting \cup {"sent", "dead", "skipped"}
    BY <1>1 DEF Rows
  <2>2. /\ f["seq"] \in Nat \ {0} /\ f["old"] \in BOOLEAN /\ f["attempts"] \in Nat
        /\ f["due"] \in BOOLEAN /\ f["leased"] \in BOOLEAN /\ f["token"] \in Senders \cup {None}
        /\ f["status"] \in Waiting \cup {"sent", "dead", "skipped"}
    BY <1>6, <1>7, <2>1 DEF Assigns
  <2> QED
    BY <1>3, <2>2, RowOf
<1>9. f.leased => f.token # None
  BY <1>7 DEF Whole, Rows
<1> QED
  BY <1>7, <1>8, <1>9 DEF Whole, FlushedFrom

\* What a sender records ends its lease, and says "sent" exactly for an "ok".
LEMMA RecordedAssigns ==
  ASSUME NEW p \in Senders, Whole(was[p])
  PROVE  /\ Assigns(Recorded(p)) /\ Recorded(p).status # "skipped"
         /\ Recorded(p).status = "sent" <=> answer[p] = "ok"
<1> DEFINE n == was[p].attempts + 1
<1>1. n \in Nat
  BY DEF Whole, Rows
<1>2. CASE answer[p] = "ok"
  BY <1>2 DEF Recorded, Assigns
<1>3. CASE answer[p] = "retry" /\ n < MaxAttempts
  <2>1. Recorded(p) =
          [status |-> "retry", attempts |-> n, due |-> FALSE, token |-> None, leased |-> FALSE]
    BY <1>3 DEF Recorded
  <2> HIDE DEF n
  <2> QED
    BY <1>1, <1>3, <2>1 DEF Assigns, Waiting
<1>4. CASE answer[p] # "ok" /\ ~(answer[p] = "retry" /\ n < MaxAttempts)
  <2>1. Recorded(p) = [status |-> "dead", attempts |-> n, token |-> None, leased |-> FALSE]
    BY <1>4 DEF Recorded
  <2> HIDE DEF n
  <2> QED
    BY <1>1, <1>4, <2>1 DEF Assigns
<1> QED
  BY <1>2, <1>3, <1>4

\* So does what an operator asks for, and it is never "sent".
LEMMA RequestedAssigns ==
  ASSUME NEW op \in {"replay", "skip"}
  PROVE  /\ Assigns(Requested(op)) /\ Requested(op).status # "sent"
         /\ Requested(op).status = "skipped" <=> op = "skip"
BY DEF Requested, Assigns, Waiting

\* The rows after a commit that flushes new over the row of k.
LEMMA RowFlushed ==
  ASSUME TypeOK, NEW k \in Keys, NEW read, Whole(read), NEW new, Assigns(new),
         row' = [row EXCEPT ![k] = Flushed(@, read, new)]
  PROVE  /\ row' \in [Keys -> Rows \cup {None}]
         /\ \A l \in Keys : row'[l] # None => (row'[l].leased => row'[l].token # None)
         /\ \A l \in Keys : l # k => row'[l] = row[l]
         /\ \A l \in Keys : row'[l] = None <=> row[l] = None
         /\ row[k] # None =>
              /\ row'[k].seq = row[k].seq /\ row'[k].old = row[k].old
              /\ \/ row'[k].status = new.status
                 \/ row'[k].status = row[k].status /\ read.status = new.status
              /\ row'[k].token \in {row[k].token, None}
              /\ read.token # None => row'[k].token = None
<1> DEFINE f == Flushed(row[k], read, new)
<1>1. row' = [row EXCEPT ![k] = f]
  OBVIOUS
<1>2. CASE row[k] = None
  <2>1. f = None
    BY <1>2 DEF Flushed
  <2> HIDE DEF f
  <2> QED
    BY <1>1, <1>2, <2>1 DEF TypeOK
<1>3. CASE row[k] # None
  <2>1. Whole(row[k])
    BY <1>3 DEF TypeOK, Whole
  <2>2. /\ Whole(f) /\ f.seq = row[k].seq /\ f.old = row[k].old
        /\ f.status = new.status \/ (f.status = row[k].status /\ read.status = new.status)
        /\ f.token \in {row[k].token, None}
        /\ read.token # None => f.token = None
    <3>1. FlushedFrom(f, row[k], read, new)
      BY <2>1, FlushedRow
    <3> HIDE DEF f
    <3> QED
      BY <3>1 DEF FlushedFrom
  <2>3. f # None
    BY <2>2, OutboxConstants DEF Whole
  <2> HIDE DEF f
  <2> QED
    BY <1>1, <1>3, <2>2, <2>3 DEF TypeOK, Whole
<1> QED
  BY <1>2, <1>3

\* The rows after a step that sets columns of the row of k.
LEMMA RowSet ==
  ASSUME TypeOK, NEW k \in Keys, row[k] # None, NEW r, Whole(r), row' = [row EXCEPT ![k] = r]
  PROVE  /\ row' \in [Keys -> Rows \cup {None}]
         /\ \A l \in Keys : row'[l] # None => (row'[l].leased => row'[l].token # None)
         /\ \A l \in Keys : l # k => row'[l] = row[l]
         /\ row'[k] = r /\ r # None
BY OutboxConstants DEF TypeOK, Whole

\* The types at the start.
LEMMA InitType == Init => TInv
<1> SUFFICES ASSUME Init PROVE TInv
  OBVIOUS
<1>1. AtWork
  BY DEF Init, AtWork
<1>2. TypeOK
  BY OutboxConstants DEF Init, TypeOK, Pcs
<1> QED
  BY <1>1, <1>2 DEF TInv

\* A sender's steps keep the types.
LEMMA SenderType ==
  ASSUME TInv, NEW p \in Senders, SenderStep(p) \/ SenderFault(p)
  PROVE  TInv'
<1> USE DEF Pcs
<1>0. TypeOK /\ AtWork /\ p # "api"
  BY OutboxConstants DEF TInv
<1>1. CASE Select(p)
  <2>1. PICK B \in Batches : todo' = [todo EXCEPT ![p] = Ready(B)]
    BY <1>1 DEF Select
  <2>2. Ready(B) \subseteq Keys
    BY DEF Ready, Batches, Unsettled, Present
  <2> QED
    BY <1>0, <1>1, <2>1, <2>2 DEF Select, Go, TInv, TypeOK, AtWork
<1>2. CASE TakeGate(p)
  <2>1. PICK k \in todo[p] :
          /\ todo' = [todo EXCEPT ![p] = @ \ {k}]
          /\ IF k[1] \in gate
             THEN UNCHANGED <<gate, pc, item>>
             ELSE gate' = gate \cup {k[1]} /\ item' = [item EXCEPT ![p] = k] /\ Go(p, "attempt")
    BY <1>2 DEF TakeGate
  <2>2. k \in Keys /\ k[1] \in Streams
    BY <1>0 DEF TypeOK, Keys
  <2>3. TypeOK'
    BY <1>0, <1>2, <2>1, <2>2 DEF TakeGate, Go, TypeOK
  <2>4. AtWork'
    BY <1>0, <1>2, <2>1, <2>2 DEF TakeGate, Go, AtWork, TypeOK
  <2> QED
    BY <2>3, <2>4 DEF TInv
<1>3. CASE BeginAttempt(p)
  <2>1. item[p] \in Keys
    BY <1>0, <1>3 DEF BeginAttempt, AtWork
  <2>2. AtWork'
    BY <1>0, <1>3 DEF BeginAttempt, Go, AtWork, TypeOK
  <2>3. CASE Attemptable(item[p])
    <3> DEFINE r == [row[item[p]] EXCEPT !.token = p, !.leased = TRUE]
    <3>1. row' = [row EXCEPT ![item[p]] = r] /\ row[item[p]] # None
      BY <1>3, <2>3 DEF BeginAttempt, Attemptable
    <3>2. row[item[p]] \in Rows
      BY <1>0, <2>1, <3>1 DEF TypeOK
    <3>3. Whole(r)
      BY <3>2, OutboxConstants DEF Whole, Rows
    <3> HIDE DEF r
    <3>4. /\ row' \in [Keys -> Rows \cup {None}]
          /\ \A l \in Keys : row'[l] # None => (row'[l].leased => row'[l].token # None)
      BY <1>0, <2>1, <3>1, <3>3, RowSet
    <3> QED
      BY <1>0, <1>3, <2>2, <3>4 DEF BeginAttempt, Go, TInv, TypeOK
  <2>4. CASE ~Attemptable(item[p])
    BY <1>0, <1>3, <2>2, <2>4 DEF BeginAttempt, Go, TInv, TypeOK
  <2> QED
    BY <2>3, <2>4
<1>4. CASE Post(p)
  <2>1. item[p] \in Keys
    BY <1>0, <1>4 DEF Post, AtWork
  <2>2. TypeOK'
    BY <1>0, <1>4, <2>1 DEF Post, Go, TypeOK
  <2>3. AtWork'
    BY <1>0, <1>4 DEF Post, Go, AtWork, TypeOK
  <2> QED
    BY <2>2, <2>3 DEF TInv
<1>5. CASE RecordRead(p)
  <2>1. item[p] \in Keys
    BY <1>0, <1>5 DEF RecordRead, AtWork
  <2>2. row[item[p]] # None => Whole(row[item[p]])
    BY <1>0, <2>1 DEF TypeOK, Whole
  <2>3. TypeOK'
    BY <1>0, <1>5, <2>1 DEF RecordRead, Go, TypeOK
  <2>4. AtWork'
    BY <1>0, <1>5, <2>2 DEF RecordRead, Go, AtWork, TypeOK
  <2> QED
    BY <2>3, <2>4 DEF TInv
<1>6. CASE RecordCommit(p)
  <2>1. item[p] \in Keys /\ Whole(was[p])
    BY <1>0, <1>6 DEF RecordCommit, AtWork
  <2>2. Assigns(Recorded(p)) /\ row' = [row EXCEPT ![item[p]] = Flushed(@, was[p], Recorded(p))]
    BY <1>6, <2>1, RecordedAssigns DEF RecordCommit
  <2>3. /\ row' \in [Keys -> Rows \cup {None}]
        /\ \A l \in Keys : row'[l] # None => (row'[l].leased => row'[l].token # None)
    BY <1>0, <2>1, <2>2, RowFlushed
  <2>4. TypeOK'
    BY <1>0, <1>6, <2>3 DEF RecordCommit, Go, TypeOK
  <2>5. AtWork'
    BY <1>0, <1>6 DEF RecordCommit, Go, AtWork, TypeOK
  <2> QED
    BY <2>4, <2>5 DEF TInv
<1>7. CASE Ungate(p)
  <2>1. TypeOK'
    BY <1>0, <1>7 DEF Ungate, Go, TypeOK
  <2>2. AtWork'
    BY <1>0, <1>7 DEF Ungate, Go, AtWork, TypeOK
  <2> QED
    BY <2>1, <2>2 DEF TInv
<1>8. CASE PurgeRead(p)
  <2>1. {k \in Present : Purgeable(row[k])} \subseteq Keys
    BY DEF Present
  <2>2. TypeOK'
    BY <1>0, <1>8, <2>1 DEF PurgeRead, Go, TypeOK
  <2>3. AtWork'
    BY <1>0, <1>8 DEF PurgeRead, Go, AtWork, TypeOK
  <2> QED
    BY <2>2, <2>3 DEF TInv
<1>10. CASE PurgeCommit(p)
  <2>1. TypeOK'
    BY <1>0, <1>10 DEF PurgeCommit, Go, TypeOK
  <2>2. AtWork'
    BY <1>0, <1>10 DEF PurgeCommit, Go, AtWork, TypeOK
  <2> QED
    BY <2>1, <2>2 DEF TInv
<1>11. CASE RecordFails(p)
  <2>1. TypeOK'
    BY <1>0, <1>11, OutboxConstants DEF RecordFails, Go, Mishap, TypeOK
  <2>2. AtWork'
    BY <1>0, <1>11 DEF RecordFails, Go, AtWork, TypeOK
  <2> QED
    BY <2>1, <2>2 DEF TInv
<1>9. CASE Crash(p)
  <2>1. TypeOK'
    BY <1>0, <1>9, OutboxConstants DEF Crash, Go, Mishap, TypeOK
  <2>2. AtWork'
    BY <1>0, <1>9 DEF Crash, Go, AtWork, TypeOK
  <2> QED
    BY <2>1, <2>2 DEF TInv
<1> QED
  BY <1>1, <1>2, <1>3, <1>4, <1>5, <1>6, <1>7, <1>8, <1>9, <1>10, <1>11 DEF SenderStep, SenderFault

\* The steps of emitters, of operators and of time.
OtherStep ==
  \/ \E s \in Streams : Emit(s) \/ GateExpires(s)
  \/ \E k \in Keys : \/ OperatorReads("replay", k) \/ OperatorReads("skip", k)
                     \/ LeaseExpires(k) \/ BecomesDue(k) \/ Ages(k)
  \/ OperatorCommits

\* A non-empty finite set of integers has a greatest element, ..
LEMMA GreatestElement ==
  ASSUME NEW S \in SUBSET Int, IsFiniteSet(S), S # {}
  PROVE  \E x \in S : \A y \in S : x >= y
<1> DEFINE Above(x) == {y \in S : y > x}
           F == {Above(x) : x \in S}
<1>1. F \subseteq FiniteSubsetsOf(S)
  <2> SUFFICES ASSUME NEW x \in S PROVE Above(x) \in FiniteSubsetsOf(S)
    OBVIOUS
  <2>1. Above(x) \in SUBSET S
    OBVIOUS
  <2> QED
    BY <2>1, FS_Subset DEF FiniteSubsetsOf
<1>2. F # {}
  OBVIOUS
<1>3. IsWellFoundedOn(StrictSubsetOrdering(S), FiniteSubsetsOf(S))
  BY FS_StrictSubsetOrderingWellFounded
<1>4. PICK U \in F : \A V \in F : <<V, U>> \notin StrictSubsetOrdering(S)
  BY <1>1, <1>2, <1>3, WFMin
<1>5. PICK x \in S : U = Above(x)
  OBVIOUS
<1>6. ASSUME NEW y \in S, ~(x >= y)
      PROVE  FALSE
  <2>1. y \in Above(x) /\ y \notin Above(y) /\ Above(y) \subseteq Above(x)
    <3>1. x \in Int /\ y \in Int /\ y > x /\ ~(y > y)
      BY <1>6
    <3>2. ASSUME NEW z \in S, z > y
          PROVE  z > x
      BY <3>1, <3>2
    <3> QED
      BY <3>1, <3>2
  <2>2. Above(y) \in F /\ Above(x) \in SUBSET S /\ Above(y) \in SUBSET S
    OBVIOUS
  <2> DEFINE A == Above(y)
             B == Above(x)
  <2>3. A \in SUBSET S /\ B \in SUBSET S /\ A \subseteq B /\ A # B
    BY <2>1
  <2> HIDE DEF A, B
  <2>4. <<A, B>> \in StrictSubsetOrdering(S)
    BY <2>3 DEF StrictSubsetOrdering
  <2> QED
    BY <1>4, <1>5, <2>2, <2>4 DEF A, B
<1> QED
  BY <1>6

\* .. which Max finds: the next sequence is above those the stream has.
LEMMA NextIsAbove ==
  ASSUME TypeOK, NEW s \in Streams
  PROVE  NextSequence(s) \in Nat \ {0} /\ \A k \in Of(s) : row[k].seq < NextSequence(s)
<1> DEFINE S == {0} \cup {row[k].seq : k \in Of(s)}
           N == {n \in 1..MaxEvents : <<s, n>> \in Of(s)}
           h == [n \in N |-> row[<<s, n>>].seq]
           T == {row[k].seq : k \in Of(s)}
<1>1. \A k \in Of(s) : k = <<s, k[2]>> /\ k[2] \in N /\ row[k] \in Rows
  <2> SUFFICES ASSUME NEW k \in Of(s) PROVE k = <<s, k[2]>> /\ k[2] \in N /\ row[k] \in Rows
    OBVIOUS
  <2>1. k \in Keys /\ k[1] = s /\ row[k] \in Rows
    BY DEF Of, Present, TypeOK
  <2>2. k = <<s, k[2]>> /\ k[2] \in 1..MaxEvents
    BY <2>1 DEF Keys
  <2> QED
    BY <2>1, <2>2
<1>2. T \subseteq Nat
  BY <1>1 DEF Rows
<1>3. IsFiniteSet(N)
  <2>1. IsFiniteSet(1..MaxEvents) /\ N \subseteq 1..MaxEvents
    BY FS_Interval, OutboxConstants
  <2> QED
    BY <2>1, FS_Subset
<1>4. h \in Surjection(N, T)
  <2>1. \A n \in N : h[n] \in T
    OBVIOUS
  <2>2. \A x \in T : \E n \in N : h[n] = x
    <3> SUFFICES ASSUME NEW k \in Of(s) PROVE \E n \in N : h[n] = row[k].seq
      OBVIOUS
    <3> QED
      BY <1>1
  <2> QED
    BY <2>1, <2>2 DEF Surjection
<1>5. IsFiniteSet(T)
  BY <1>3, <1>4, FS_Surjection DEF ExistsSurjection
<1>6. IsFiniteSet(S) /\ S \in SUBSET Int /\ S # {} /\ S = T \cup {0}
  <2>1. S = T \cup {0}
    OBVIOUS
  <2>2. T \cup {0} \in SUBSET Int
    BY <1>2
  <2> HIDE DEF T, S
  <2> QED
    BY <1>5, <2>1, <2>2, FS_AddElement
<1>7. PICK x \in S : \A y \in S : x >= y
  <2> HIDE DEF S
  <2> QED
    BY <1>6, GreatestElement
<1>8. Max(S) \in S /\ \A y \in S : Max(S) >= y
  <2> HIDE DEF S
  <2> QED
    BY <1>7 DEF Max
<1>9. Max(S) \in Nat /\ \A k \in Of(s) : row[k].seq \in Nat /\ Max(S) >= row[k].seq
  BY <1>2, <1>6, <1>8
<1>10. NextSequence(s) = Max(S) + 1
  BY DEF NextSequence
<1> HIDE DEF S
<1> QED
  BY <1>9, <1>10

\* Those steps keep the types.
LEMMA OtherType ==
  ASSUME TInv, OtherStep
  PROVE  TInv'
<1>0. TypeOK /\ AtWork /\ mishaps \in 0..MaxMishaps /\ MaxMishaps \in Nat
  BY OutboxConstants DEF TInv, TypeOK
<1>1. Mishap \/ UNCHANGED mishaps => mishaps' \in 0..MaxMishaps
  BY <1>0 DEF Mishap
<1>2. ASSUME NEW s \in Streams, Emit(s)
      PROVE  TInv'
  <2> DEFINE r == [seq |-> NextSequence(s), status |-> "pending", attempts |-> 0, token |-> None,
                   leased |-> FALSE, due |-> TRUE, old |-> FALSE]
  <2>1. /\ emitted[s] < MaxEvents /\ emitted' = [emitted EXCEPT ![s] = @ + 1]
        /\ row' = [row EXCEPT ![<<s, emitted[s] + 1>>] = r]
        /\ UNCHANGED <<gate, senders, was, api, got, skipped, mishaps>>
    BY <1>2 DEF Emit
  <2>2. Whole(r)
    BY <1>0, NextIsAbove DEF Whole, Rows, Waiting
  <2>3. emitted' \in [Streams -> 0..MaxEvents] /\ emitted[s] + 1 \in 1..MaxEvents
    BY <1>0, <2>1, OutboxConstants DEF TypeOK
  <2>4. <<s, emitted[s] + 1>> \in Keys
    BY <2>3 DEF Keys
  <2> HIDE DEF r
  <2>5. /\ row' \in [Keys -> Rows \cup {None}]
        /\ \A l \in Keys : row'[l] # None => (row'[l].leased => row'[l].token # None)
    BY <1>0, <2>1, <2>2, <2>4 DEF TypeOK, Whole
  <2> QED
    BY <1>0, <2>1, <2>3, <2>5 DEF TInv, TypeOK, AtWork, senders
<1>3. ASSUME NEW s \in Streams, GateExpires(s)
      PROVE  TInv'
  BY <1>0, <1>1, <1>3 DEF GateExpires, TInv, TypeOK, AtWork, senders
<1>4. ASSUME NEW k \in Keys, NEW op \in {"replay", "skip"}, OperatorReads(op, k)
      PROVE  TInv'
  <2>1. /\ api' = [op |-> op, key |-> k] /\ was' = [was EXCEPT !["api"] = row[k]]
        /\ UNCHANGED <<emitted, row, gate, pc, todo, item, answer, got, skipped>>
        /\ row[k] # None
    BY <1>4 DEF OperatorReads, Present, senders
  <2>2. Whole(row[k])
    BY <1>0, <2>1 DEF TypeOK, Whole
  <2>3. mishaps' \in 0..MaxMishaps
    BY <1>1, <1>4 DEF OperatorReads
  <2>4. TypeOK'
    BY <1>0, <2>1, <2>2, <2>3 DEF TypeOK, Whole
  <2>5. AtWork'
    BY <1>0, <2>1, <2>2, OutboxConstants DEF AtWork, TypeOK
  <2> QED
    BY <2>4, <2>5 DEF TInv
<1>5. ASSUME NEW k \in Keys, NEW r, Whole(r), row[k] # None, row' = [row EXCEPT ![k] = r],
             UNCHANGED <<emitted, gate, senders, was, api, got, skipped>>,
             mishaps' \in 0..MaxMishaps
      PROVE  TInv'
  <2>1. /\ row' \in [Keys -> Rows \cup {None}]
        /\ \A l \in Keys : row'[l] # None => (row'[l].leased => row'[l].token # None)
    BY <1>0, <1>5, RowSet
  <2> QED
    BY <1>0, <1>5, <2>1 DEF TInv, TypeOK, AtWork, senders
<1>6. ASSUME NEW k \in Keys, LeaseExpires(k) \/ BecomesDue(k) \/ Ages(k)
      PROVE  TInv'
  <2>1. row[k] # None /\ Whole(row[k])
    BY <1>0, <1>6 DEF LeaseExpires, BecomesDue, Ages, Present, TypeOK, Whole
  <2>2. /\ Whole([row[k] EXCEPT !.leased = FALSE]) /\ Whole([row[k] EXCEPT !.due = TRUE])
        /\ Whole([row[k] EXCEPT !.old = TRUE])
    BY <2>1 DEF Whole, Rows
  <2>3. /\ UNCHANGED <<emitted, gate, senders, was, api, got, skipped>>
        /\ mishaps' \in 0..MaxMishaps
    BY <1>1, <1>6 DEF LeaseExpires, BecomesDue, Ages, RowsOnly
  <2>4. \/ row' = [row EXCEPT ![k] = [row[k] EXCEPT !.leased = FALSE]]
        \/ row' = [row EXCEPT ![k] = [row[k] EXCEPT !.due = TRUE]]
        \/ row' = [row EXCEPT ![k] = [row[k] EXCEPT !.old = TRUE]]
    BY <1>6 DEF LeaseExpires, BecomesDue, Ages
  <2> QED
    BY <1>5, <2>1, <2>2, <2>3, <2>4
<1>7. CASE OperatorCommits
  <2>1. /\ api.key \in Keys /\ Whole(was["api"]) /\ api.op \in {"replay", "skip"}
        /\ row' = [row EXCEPT ![api.key] = Flushed(@, was["api"], Requested(api.op))]
    BY <1>0, <1>7 DEF OperatorCommits, AtWork, TypeOK
  <2>2. Assigns(Requested(api.op))
    BY <2>1, RequestedAssigns
  <2>3. /\ row' \in [Keys -> Rows \cup {None}]
        /\ \A l \in Keys : row'[l] # None => (row'[l].leased => row'[l].token # None)
    BY <1>0, <2>1, <2>2, RowFlushed
  <2>4. TypeOK'
    BY <1>0, <1>7, <2>1, <2>3 DEF OperatorCommits, TypeOK, senders
  <2>5. AtWork'
    BY <1>0, <1>7, OutboxConstants DEF OperatorCommits, AtWork, TypeOK, senders
  <2> QED
    BY <2>4, <2>5 DEF TInv
<1> QED
  BY <1>2, <1>3, <1>4, <1>6, <1>7 DEF OtherStep

\* Next, sorted: the senders, and the others.
LEMMA NextSorted ==
  Next => (\E p \in Senders : SenderStep(p) \/ SenderFault(p)) \/ OtherStep
BY DEF Next, OtherStep

\* Every step keeps the types.
LEMMA NextType == TInv /\ [Next]_vars => TInv'
<1> SUFFICES ASSUME TInv, [Next]_vars PROVE TInv'
  OBVIOUS
<1>1. CASE UNCHANGED vars
  BY <1>1 DEF vars, senders, TInv, TypeOK, AtWork
<1> QED
  BY <1>1, NextSorted, SenderType, OtherType

\* The variables keep their types, and a row's lease time is set only with its token.
THEOREM TypeCorrect == Spec => []TypeOK
<1>1. TInv => TypeOK
  BY DEF TInv
<1> QED
  BY <1>1, InitType, NextType, PTL DEF Spec
-----------------------------------------------------------------------------
(* What a step may do to a row, and what follows for sequences and states. *)

\* The row of k, before and after a step that is not an Emit.
RowMoves(k) ==
  /\ row[k] = None => row'[k] = None
  /\ row[k] # None /\ row'[k] = None => \E p \in Senders : PurgeCommit(p) /\ k \in todo[p]
  /\ row[k] # None /\ row'[k] # None =>
       /\ row'[k].seq = row[k].seq
       /\ row'[k].old = row[k].old \/ Ages(k)
       /\ \/ row'[k].status = row[k].status /\ row'[k].token = row[k].token
          \/ row'[k].status = row[k].status /\ row[k].status \in Waiting
          \/ /\ \E p \in Senders : /\ RecordCommit(p) /\ item[p] = k
                                   /\ row'[k].status \in {row[k].status, Recorded(p).status}
             /\ row'[k].token = None
          \/ /\ OperatorCommits /\ api.key = k /\ row'[k].token \in {row[k].token, None}
             /\ row'[k].status \in {row[k].status, Requested(api.op).status}

\* Every step but an Emit moves the rows so.
LEMMA StepMovesRows ==
  ASSUME TInv, [Next]_vars, ~\E s \in Streams : Emit(s)
  PROVE  emitted' = emitted /\ \A k \in Keys : RowMoves(k)
<1>0. TypeOK /\ AtWork
  BY DEF TInv
<1>1. UNCHANGED row => \A k \in Keys : RowMoves(k)
  BY DEF RowMoves
<1>2. CASE UNCHANGED vars
  BY <1>1, <1>2 DEF vars
<1>3. ASSUME NEW p \in Senders, SenderStep(p) \/ SenderFault(p)
      PROVE  emitted' = emitted /\ \A k \in Keys : RowMoves(k)
  <2>1. emitted' = emitted
    BY <1>3 DEF SenderStep, SenderFault, RecordFails, Crash, Select, TakeGate, BeginAttempt, Post,
                RecordRead, RecordCommit, Ungate, PurgeRead, PurgeCommit
  <2>2. CASE BeginAttempt(p) /\ Attemptable(item[p])
    <3> DEFINE r == [row[item[p]] EXCEPT !.token = p, !.leased = TRUE]
    <3>1. row' = [row EXCEPT ![item[p]] = r] /\ row[item[p]] # None /\ item[p] \in Keys
      BY <1>0, <2>2 DEF BeginAttempt, Attemptable, AtWork
    <3>2. row[item[p]] \in Rows /\ row[item[p]].status \in Waiting
      BY <1>0, <2>2, <3>1 DEF TypeOK, Attemptable
    <3>3. /\ r.seq = row[item[p]].seq /\ r.old = row[item[p]].old
          /\ r.status = row[item[p]].status /\ Whole(r)
      BY <3>2, OutboxConstants DEF Rows, Whole
    <3> HIDE DEF r
    <3>4. row'[item[p]] = r /\ r # None /\ \A l \in Keys : l # item[p] => row'[l] = row[l]
      BY <1>0, <3>1, <3>3, RowSet
    <3> QED
      BY <2>1, <3>1, <3>2, <3>3, <3>4 DEF RowMoves
  <2>3. CASE RecordCommit(p)
    <3>1. item[p] \in Keys /\ Whole(was[p]) /\ was[p].token # None
      BY <1>0, <2>3, OutboxConstants DEF RecordCommit, AtWork
    <3>2. Assigns(Recorded(p)) /\ row' = [row EXCEPT ![item[p]] = Flushed(@, was[p], Recorded(p))]
      BY <2>3, <3>1, RecordedAssigns DEF RecordCommit
    <3>3. /\ \A l \in Keys : l # item[p] => row'[l] = row[l]
          /\ \A l \in Keys : row'[l] = None <=> row[l] = None
          /\ row[item[p]] # None =>
               /\ row'[item[p]].seq = row[item[p]].seq /\ row'[item[p]].old = row[item[p]].old
               /\ \/ row'[item[p]].status = Recorded(p).status
                  \/ /\ row'[item[p]].status = row[item[p]].status
                     /\ was[p].status = Recorded(p).status
               /\ row'[item[p]].token \in {row[item[p]].token, None}
               /\ was[p].token # None => row'[item[p]].token = None
      BY <1>0, <3>1, <3>2, RowFlushed
    <3> QED
      BY <2>1, <2>3, <3>1, <3>3 DEF RowMoves
  <2>4. CASE PurgeCommit(p)
    <3>1. row' = [k \in Keys |-> IF k \in todo[p] THEN None ELSE row[k]]
      BY <2>4 DEF PurgeCommit
    <3> QED
      BY <2>1, <2>4, <3>1 DEF RowMoves
  <2>5. CASE ~(BeginAttempt(p) /\ Attemptable(item[p])) /\ ~RecordCommit(p) /\ ~PurgeCommit(p)
    <3>1. UNCHANGED row
      BY <1>3, <2>5 DEF SenderStep, SenderFault, RecordFails, Crash, Select, TakeGate, BeginAttempt,
                        Post, RecordRead, Ungate, PurgeRead
    <3> QED
      BY <1>1, <2>1, <3>1
  <2> QED
    BY <2>2, <2>3, <2>4, <2>5
<1>4. ASSUME NEW k \in Keys, LeaseExpires(k) \/ BecomesDue(k) \/ Ages(k)
      PROVE  emitted' = emitted /\ \A l \in Keys : RowMoves(l)
  <2>1. row[k] # None /\ Whole(row[k]) /\ emitted' = emitted
    BY <1>0, <1>4 DEF LeaseExpires, BecomesDue, Ages, RowsOnly, Present, TypeOK, Whole
  <2>2. PICK r : /\ row' = [row EXCEPT ![k] = r] /\ Whole(r)
                 /\ r.seq = row[k].seq /\ r.status = row[k].status /\ r.token = row[k].token
                 /\ r.old = row[k].old \/ Ages(k)
    <3>1. CASE LeaseExpires(k)
      <4> DEFINE r == [row[k] EXCEPT !.leased = FALSE]
      <4>1. row' = [row EXCEPT ![k] = r]
        BY <3>1 DEF LeaseExpires
      <4>2. /\ Whole(r) /\ r.seq = row[k].seq /\ r.status = row[k].status
            /\ r.token = row[k].token /\ r.old = row[k].old
        BY <2>1 DEF Whole, Rows
      <4> HIDE DEF r
      <4> QED
        BY <3>1, <4>1, <4>2
    <3>2. CASE BecomesDue(k)
      <4> DEFINE r == [row[k] EXCEPT !.due = TRUE]
      <4>1. row' = [row EXCEPT ![k] = r]
        BY <3>2 DEF BecomesDue
      <4>2. /\ Whole(r) /\ r.seq = row[k].seq /\ r.status = row[k].status
            /\ r.token = row[k].token /\ r.old = row[k].old
        BY <2>1 DEF Whole, Rows
      <4> HIDE DEF r
      <4> QED
        BY <3>2, <4>1, <4>2
    <3>3. CASE Ages(k)
      <4> DEFINE r == [row[k] EXCEPT !.old = TRUE]
      <4>1. row' = [row EXCEPT ![k] = r]
        BY <3>3 DEF Ages
      <4>2. /\ Whole(r) /\ r.seq = row[k].seq /\ r.status = row[k].status
            /\ r.token = row[k].token /\ r.leased = row[k].leased
        BY <2>1 DEF Whole, Rows
      <4> HIDE DEF r
      <4> QED
        BY <3>3, <4>1, <4>2
    <3> QED
      BY <1>4, <3>1, <3>2, <3>3
  <2>3. row'[k] = r /\ r # None /\ \A l \in Keys : l # k => row'[l] = row[l]
    BY <1>0, <2>1, <2>2, RowSet
  <2> QED
    BY <2>1, <2>2, <2>3 DEF RowMoves
<1>5. CASE OperatorCommits
  <2>1. /\ api.key \in Keys /\ Whole(was["api"]) /\ api.op \in {"replay", "skip"}
        /\ row' = [row EXCEPT ![api.key] = Flushed(@, was["api"], Requested(api.op))]
        /\ emitted' = emitted
    BY <1>0, <1>5 DEF OperatorCommits, AtWork, TypeOK
  <2>2. Assigns(Requested(api.op))
    BY <2>1, RequestedAssigns
  <2>3. /\ \A l \in Keys : l # api.key => row'[l] = row[l]
        /\ \A l \in Keys : row'[l] = None <=> row[l] = None
        /\ row[api.key] # None =>
             /\ row'[api.key].seq = row[api.key].seq /\ row'[api.key].old = row[api.key].old
             /\ \/ row'[api.key].status = Requested(api.op).status
                \/ /\ row'[api.key].status = row[api.key].status
                   /\ was["api"].status = Requested(api.op).status
             /\ row'[api.key].token \in {row[api.key].token, None}
             /\ was["api"].token # None => row'[api.key].token = None
    BY <1>0, <2>1, <2>2, RowFlushed
  <2> QED
    BY <1>5, <2>1, <2>3 DEF RowMoves
<1>6. CASE \/ \E s \in Streams : GateExpires(s)
           \/ \E k \in Keys : OperatorReads("replay", k) \/ OperatorReads("skip", k)
  BY <1>1, <1>6 DEF GateExpires, OperatorReads
<1> QED
  BY <1>2, <1>3, <1>4, <1>5, <1>6, NextSorted DEF OtherStep

\* A row is of an event that was emitted.
RowsEmitted == \A k \in Present : k[2] <= emitted[k[1]]

\* A row that says "sent" is leased by nobody.
SentIsFree == \A k \in Present : row[k].status = "sent" => row[k].token = None

NInv == TInv /\ RowsEmitted /\ SequencesFollowEmission /\ SentIsFree

\* An Emit adds a row after those of its stream.
LEMMA EmitAdds ==
  ASSUME NInv, NEW s \in Streams, Emit(s)
  PROVE  /\ <<s, emitted[s] + 1>> \in Keys /\ row[<<s, emitted[s] + 1>>] = None
         /\ emitted'[s] = emitted[s] + 1 /\ \A t \in Streams : t # s => emitted'[t] = emitted[t]
         /\ \A k \in Keys : k # <<s, emitted[s] + 1>> => row'[k] = row[k]
         /\ row'[<<s, emitted[s] + 1>>] # None
         /\ row'[<<s, emitted[s] + 1>>].seq = NextSequence(s)
         /\ row'[<<s, emitted[s] + 1>>].status = "pending"
         /\ row'[<<s, emitted[s] + 1>>].old = FALSE
         /\ emitted[s] \in Nat
<1> DEFINE r == [seq |-> NextSequence(s), status |-> "pending", attempts |-> 0, token |-> None,
                 leased |-> FALSE, due |-> TRUE, old |-> FALSE]
           k == <<s, emitted[s] + 1>>
<1>0. TypeOK /\ emitted \in [Streams -> 0..MaxEvents] /\ emitted[s] \in 0..MaxEvents
  BY DEF NInv, TInv, TypeOK
<1>1. /\ emitted[s] < MaxEvents /\ emitted' = [emitted EXCEPT ![s] = @ + 1]
      /\ row' = [row EXCEPT ![k] = r]
  BY DEF Emit
<1>2. k \in Keys /\ k[1] = s /\ k[2] = emitted[s] + 1
  BY <1>0, <1>1, OutboxConstants DEF Keys
<1>3. row[k] = None
  BY <1>0, <1>2 DEF NInv, RowsEmitted, Present
<1>4. r \in Rows /\ r # None
  <2>1. NextSequence(s) \in Nat \ {0}
    BY <1>0, NextIsAbove
  <2>2. r \in Rows
    BY <2>1 DEF Rows, Waiting
  <2> QED
    BY <2>2, OutboxConstants
<1>5. r.seq = NextSequence(s) /\ r.status = "pending" /\ r.old = FALSE
  OBVIOUS
<1> HIDE DEF r, k
<1>6. row'[k] = r /\ \A l \in Keys : l # k => row'[l] = row[l]
  BY <1>0, <1>1, <1>2 DEF TypeOK
<1> QED
  BY <1>0, <1>1, <1>2, <1>3, <1>4, <1>5, <1>6 DEF k
\* Every step keeps the sequences in the order of emission, and "sent" rows free.
LEMMA NextNumbered == NInv /\ [Next]_vars => NInv'
<1> SUFFICES ASSUME NInv, [Next]_vars PROVE NInv'
  OBVIOUS
<1>0. TInv /\ TInv' /\ TypeOK /\ TypeOK'
  BY NextType DEF NInv, TInv
<1>1. ASSUME NEW s \in Streams, Emit(s)
      PROVE  NInv'
  <2> DEFINE n == <<s, emitted[s] + 1>>
  <2>1. /\ n \in Keys /\ row[n] = None /\ n[1] = s /\ n[2] = emitted[s] + 1
        /\ emitted'[s] = emitted[s] + 1 /\ \A t \in Streams : t # s => emitted'[t] = emitted[t]
        /\ \A k \in Keys : k # n => row'[k] = row[k]
        /\ row'[n] # None /\ row'[n].seq = NextSequence(s) /\ row'[n].status = "pending"
        /\ emitted[s] \in Nat
    BY <1>1, EmitAdds
  <2> HIDE DEF n
  <2>2. \A k \in Keys : k[1] \in Streams /\ k[2] \in Nat /\ (k[1] = n[1] /\ k[2] = n[2] => k = n)
    BY <2>1, OutboxConstants DEF Keys
  <2>3. \A k \in Present : k \in Keys /\ k # n /\ k[2] <= emitted[k[1]]
    BY <2>1 DEF NInv, RowsEmitted, Present
  <2>4. Present' = Present \cup {n}
    BY <2>1, <2>3 DEF Present
  <2>5. \A k \in Present : row'[k] = row[k]
    BY <2>1, <2>3
  <2>6. RowsEmitted'
    <3> SUFFICES ASSUME NEW k \in Present' PROVE k[2] <= emitted'[k[1]]
      BY DEF RowsEmitted
    <3>1. CASE k = n
      BY <2>1, <3>1
    <3>2. CASE k \in Present /\ k[1] # s
      BY <2>1, <2>2, <2>3, <3>2
    <3>3. CASE k \in Present /\ k[1] = s
      <4>1. k[2] \in Nat /\ k[2] <= emitted[s] /\ emitted'[k[1]] = emitted[s] + 1
        BY <2>1, <2>2, <2>3, <3>3
      <4> QED
        BY <2>1, <4>1
    <3> QED
      BY <2>4, <3>1, <3>2, <3>3
  <2>7. SequencesFollowEmission'
    <3> SUFFICES ASSUME NEW k \in Present', NEW l \in Present', k[1] = l[1], k[2] < l[2]
                 PROVE  row'[k].seq < row'[l].seq
      BY DEF SequencesFollowEmission
    <3>1. CASE k \in Present /\ l \in Present
      BY <2>5, <3>1 DEF NInv, SequencesFollowEmission
    <3>2. CASE k \in Present /\ l = n
      <4>1. k \in Of(s)
        BY <2>1, <3>2 DEF Of
      <4> QED
        BY <1>0, <2>1, <2>5, <3>2, <4>1, NextIsAbove
    <3>3. CASE k = n
      <4>1. l \in Keys /\ l[2] \in Nat /\ l # n
        BY <2>1, <2>2, <2>3, <2>4, <3>3
      <4>2. l \in Present /\ l[2] <= emitted[s]
        BY <2>1, <2>3, <2>4, <3>3, <4>1
      <4> QED
        BY <2>1, <3>3, <4>1, <4>2
    <3> QED
      BY <2>4, <3>1, <3>2, <3>3
  <2>8. SentIsFree'
    BY <2>1, <2>4, <2>5 DEF NInv, SentIsFree
  <2> QED
    BY <1>0, <2>6, <2>7, <2>8 DEF NInv
<1>2. CASE ~\E s \in Streams : Emit(s)
  <2>1. emitted' = emitted /\ \A k \in Keys : RowMoves(k)
    BY <1>0, <1>2, StepMovesRows
  <2>2. \A k \in Present' : k \in Keys /\ k \in Present /\ row'[k] # None /\ row[k] # None
    BY <2>1 DEF Present, RowMoves
  <2>3. RowsEmitted'
    BY <2>1, <2>2 DEF NInv, RowsEmitted
  <2>4. \A k \in Present' : row'[k].seq = row[k].seq
    BY <2>1, <2>2 DEF RowMoves
  <2>5. SequencesFollowEmission'
    BY <2>2, <2>4 DEF NInv, SequencesFollowEmission
  <2>6. ASSUME NEW k \in Present', row'[k].status = "sent"
        PROVE  row'[k].token = None
    <3>1. row[k].status = "sent" => row[k].token = None
      BY <2>2 DEF NInv, SentIsFree
    <3>2. ASSUME OperatorCommits
          PROVE  Requested(api.op).status # "sent"
      BY <3>2 DEF Requested
    <3> QED
      BY <2>1, <2>2, <2>6, <3>1, <3>2 DEF RowMoves, Waiting
  <2> QED
    BY <1>0, <2>3, <2>5, <2>6 DEF NInv, SentIsFree
<1> QED
  BY <1>1, <1>2

\* There are no rows at first.
LEMMA InitNumbered == Init => NInv
<1> SUFFICES ASSUME Init PROVE NInv
  OBVIOUS
<1>1. Present = {}
  BY DEF Init, Present
<1> QED
  BY <1>1, InitType DEF NInv, RowsEmitted, SequencesFollowEmission, SentIsFree

\* The sequences of a stream's deliveries are in the order of their emission, although
\* they restart from what the purge has left.
THEOREM SequencesInOrder == Spec => []SequencesFollowEmission
<1>1. NInv => SequencesFollowEmission
  BY DEF NInv
<1> QED
  BY <1>1, InitNumbered, NextNumbered, PTL DEF Spec

\* What was sent stays so: what a sender may still write is what it read under a lease,
\* and a row that was sent has none.
LEMMA StepLeavesSent ==
  ASSUME NInv, [Next]_vars, NEW k \in Present, row[k].status = "sent", api.key # k,
         \A p \in Senders : pc[p] = "recording" /\ item[p] = k => was[p] = row[k]
  PROVE  row'[k] = None \/ row'[k].status = "sent"
<1>0. TInv /\ AtWork /\ k \in Keys /\ row[k] # None
  BY DEF NInv, TInv, Present
<1>1. ASSUME NEW s \in Streams, Emit(s)
      PROVE  row'[k].status = "sent"
  BY <1>0, <1>1, EmitAdds
<1>2. CASE ~\E s \in Streams : Emit(s)
  <2>1. RowMoves(k)
    BY <1>0, <1>2, StepMovesRows
  <2>2. ASSUME NEW p \in Senders, RecordCommit(p), item[p] = k
        PROVE  FALSE
    <3>1. pc[p] = "recording"
      BY <2>2 DEF RecordCommit
    <3>2. row[k].token = p /\ row[k].token = None
      BY <1>0, <2>2, <3>1 DEF AtWork, NInv, SentIsFree
    <3> QED
      BY <3>2, OutboxConstants
  <2> QED
    BY <1>0, <2>1, <2>2 DEF RowMoves
<1> QED
  BY <1>1, <1>2

\* The late answer of a sender that has lost its lease undoes nothing.
THEOREM SentIsNotUndone == Spec => SentStaysSent
<1>1. NInv /\ [Next]_vars =>
        [\A k \in Present :
           (/\ row[k].status = "sent" /\ api.key # k
            /\ \A p \in Senders : pc[p] = "recording" /\ item[p] = k => was[p] = row[k])
           => row'[k] = None \/ row'[k].status = "sent"]_vars
  BY StepLeavesSent
<1> QED
  BY <1>1, InitNumbered, NextNumbered, PTL DEF Spec, SentStaysSent
-----------------------------------------------------------------------------
(* DeliversInOrder, while the outbox is tended: a delivery gets old, and   *)
(* can be purged, only when the receiver has heard of it or it was skipped.*)

Done == got \cup skipped

\* The earlier events of k's stream are done with, and k was emitted.
After(k) == k[2] <= emitted[k[1]] /\ \A d \in 1..(k[2] - 1) : <<k[1], d>> \in Done

\* What a row tells, and what its absence tells.
RowsTell ==
  /\ \A k \in Present : /\ row[k].status = "sent" => k \in got
                        /\ row[k].status = "skipped" => k \in skipped
                        /\ row[k].old => k \in Done
  /\ \A k \in Keys : k[2] <= emitted[k[1]] /\ row[k] = None => k \in Done

\* What a sender has selected, and has in hand, comes after what is done with; what it is
\* about to purge is done with itself.
Follows(p) ==
  /\ \A k \in todo[p] : IF pc[p] = "purging" THEN k \in Done ELSE After(k)
  /\ pc[p] \notin {"idle", "next", "purging"} => After(item[p])
  /\ answer[p] = "ok" => item[p] \in got /\ pc[p] \notin {"idle", "next", "purging"}

SendersFollow == \A p \in Senders : Follows(p)

OInv == /\ NInv /\ RowsTell /\ SendersFollow
        /\ api.op # "none" => api.key[2] <= emitted[api.key[1]]

\* What was emitted, heard of and skipped remains so.
LEMMA StepGrows ==
  ASSUME TypeOK, [Next]_vars
  PROVE  /\ got \subseteq got' /\ skipped \subseteq skipped'
         /\ \A s \in Streams : emitted[s] \in Nat /\ emitted'[s] \in Nat /\ emitted[s] <= emitted'[s]
         /\ \A k \in Keys : After(k) => After(k)'
<1>1. got \subseteq got' /\ skipped \subseteq skipped'
  BY DEF Next, vars, SenderStep, OtherStep, Select, TakeGate, BeginAttempt, Post, RecordRead,
         RecordCommit, Ungate, PurgeRead, PurgeCommit, SenderFault, RecordFails, Crash, Emit,
         GateExpires, OperatorReads, OperatorCommits,
         LeaseExpires, BecomesDue, Ages, RowsOnly
<1>2. emitted' = emitted \/ \E s \in Streams : emitted' = [emitted EXCEPT ![s] = @ + 1]
  BY DEF Next, vars, SenderStep, OtherStep, Select, TakeGate, BeginAttempt, Post, RecordRead,
         RecordCommit, Ungate, PurgeRead, PurgeCommit, SenderFault, RecordFails, Crash, Emit,
         GateExpires, OperatorReads, OperatorCommits,
         LeaseExpires, BecomesDue, Ages, RowsOnly
<1>3. \A s \in Streams : emitted[s] \in Nat /\ emitted'[s] \in Nat /\ emitted[s] <= emitted'[s]
  BY <1>2, OutboxConstants DEF TypeOK
<1>4. ASSUME NEW k \in Keys, After(k)
      PROVE  After(k)'
  <2>1. k[1] \in Streams /\ k[2] \in Nat
    BY OutboxConstants DEF Keys
  <2>2. k[2] <= emitted'[k[1]]
    BY <1>3, <1>4, <2>1 DEF After
  <2> QED
    BY <1>1, <1>4, <2>2 DEF After, Done
<1> QED
  BY <1>1, <1>3, <1>4

\* What the query selects as the head of its stream comes after what is done with.
LEMMA HeadsReady ==
  ASSUME NInv, RowsTell, NEW B \in Batches, NEW k \in Ready(B)
  PROVE  k \in Keys /\ After(k)
<1>1. /\ k \in B /\ B \subseteq Unsettled /\ k \in Present
      /\ \A l \in Unsettled \ B : row[k].seq <= row[l].seq
      /\ \A l \in B : l[1] = k[1] => row[k].seq <= row[l].seq
  BY DEF Ready, Batches, Unsettled
<1>2. k \in Keys /\ k[1] \in Streams /\ k[2] \in 1..MaxEvents /\ k[2] <= emitted[k[1]]
  BY <1>1 DEF Present, Keys, NInv, RowsEmitted
<1>3. emitted[k[1]] \in Nat
  BY <1>2, OutboxConstants DEF NInv, TInv, TypeOK
<1>4. ASSUME NEW d \in 1..(k[2] - 1), <<k[1], d>> \notin Done
      PROVE  FALSE
  <2> DEFINE x == <<k[1], d>>
  <2>1. x \in Keys /\ x[1] = k[1] /\ x[2] = d /\ d < k[2] /\ d <= emitted[k[1]]
    BY <1>2, <1>3, OutboxConstants DEF Keys
  <2> HIDE DEF x
  <2>2. x \notin Done
    BY <1>4 DEF x
  <2>3. row[x] # None /\ x \in Present
    BY <2>1, <2>2 DEF RowsTell, Present
  <2>4. row[x] \in Rows /\ row[k] \in Rows
    BY <1>1, <1>2, <2>1, <2>3 DEF NInv, TInv, TypeOK, Present
  <2>5. row[x].seq < row[k].seq /\ row[x].seq \in Nat /\ row[k].seq \in Nat
    BY <1>1, <2>1, <2>3, <2>4 DEF NInv, SequencesFollowEmission, Rows
  <2>6. row[x].status \in Waiting \cup {"dead"}
    BY <2>2, <2>3, <2>4 DEF RowsTell, Done, Rows
  <2>7. x \in Unsettled
    BY <2>3, <2>6 DEF Unsettled
  <2>8. row[k].seq <= row[x].seq
    BY <1>1, <2>1, <2>7
  <2> QED
    BY <2>5, <2>8
<1> QED
  BY <1>2, <1>4 DEF After

\* Rows go on telling what was heard of and skipped.
LEMMA NextTells ==
  ASSUME OInv, [Next /\ Tended]_vars
  PROVE  RowsTell'
<1>0. /\ NInv /\ NInv' /\ TInv /\ TypeOK /\ AtWork /\ RowsTell /\ SendersFollow
      /\ got \subseteq got' /\ skipped \subseteq skipped' /\ Done \subseteq Done'
  <2>1. NInv /\ NInv' /\ TInv /\ TypeOK /\ AtWork /\ RowsTell /\ SendersFollow
    BY NextNumbered DEF OInv, NInv, TInv
  <2> QED
    BY <2>1, StepGrows DEF Done
<1>1. ASSUME NEW s \in Streams, Emit(s)
      PROVE  RowsTell'
  <2> DEFINE n == <<s, emitted[s] + 1>>
  <2>1. /\ n \in Keys /\ row[n] = None /\ n[1] = s /\ n[2] = emitted[s] + 1
        /\ emitted'[s] = emitted[s] + 1 /\ \A t \in Streams : t # s => emitted'[t] = emitted[t]
        /\ \A k \in Keys : k # n => row'[k] = row[k]
        /\ row'[n] # None /\ row'[n].status = "pending" /\ row'[n].old = FALSE
        /\ emitted[s] \in Nat
    BY <1>0, <1>1, EmitAdds
  <2> HIDE DEF n
  <2>2. \A k \in Keys : k[1] \in Streams /\ k[2] \in Nat /\ (k[1] = n[1] /\ k[2] = n[2] => k = n)
    BY <2>1, OutboxConstants DEF Keys
  <2>3. ASSUME NEW k \in Present'
        PROVE  /\ row'[k].status = "sent" => k \in got'
               /\ row'[k].status = "skipped" => k \in skipped'
               /\ row'[k].old => k \in Done'
    <3>1. k \in Keys /\ row'[k] # None
      BY DEF Present
    <3>2. CASE k = n
      BY <2>1, <3>2
    <3>3. CASE k # n
      BY <1>0, <2>1, <3>1, <3>3 DEF RowsTell, Present
    <3> QED
      BY <3>2, <3>3
  <2>4. ASSUME NEW k \in Keys, k[2] <= emitted'[k[1]], row'[k] = None
        PROVE  k \in Done'
    <3>1. k # n /\ row[k] = None
      BY <2>1, <2>4
    <3>2. k[2] <= emitted[k[1]]
      <4>1. CASE k[1] # s
        BY <2>1, <2>2, <2>4, <4>1
      <4>2. CASE k[1] = s
        <5>1. k[2] # emitted[s] + 1 /\ k[2] <= emitted[s] + 1 /\ k[2] \in Nat
          BY <2>1, <2>2, <2>4, <3>1, <4>2
        <5> QED
          BY <2>1, <4>2, <5>1
      <4> QED
        BY <4>1, <4>2
    <3> QED
      BY <1>0, <3>1, <3>2 DEF RowsTell
  <2> QED
    BY <2>3, <2>4 DEF RowsTell
<1>2. CASE ~\E s \in Streams : Emit(s)
  <2>1. emitted' = emitted /\ \A k \in Keys : RowMoves(k)
    BY <1>0, <1>2, StepMovesRows
  <2>2. ASSUME NEW k \in Present'
        PROVE  /\ row'[k].status = "sent" => k \in got'
               /\ row'[k].status = "skipped" => k \in skipped'
               /\ row'[k].old => k \in Done'
    <3>1. k \in Keys /\ row'[k] # None /\ row[k] # None /\ k \in Present
      BY <2>1 DEF Present, RowMoves
    <3>2. row'[k].status = row[k].status =>
            /\ row'[k].status = "sent" => k \in got'
            /\ row'[k].status = "skipped" => k \in skipped'
      BY <1>0, <3>1 DEF RowsTell
    <3>3. ASSUME NEW p \in Senders, RecordCommit(p), item[p] = k,
    row'[k].status = Recorded(p).status
          PROVE  /\ row'[k].status = "sent" => k \in got'
                 /\ row'[k].status # "skipped"
      <4>1. Whole(was[p])
        BY <1>0, <3>3 DEF RecordCommit, AtWork
      <4> QED
        BY <1>0, <3>3, <4>1, RecordedAssigns DEF SendersFollow, Follows
    <3>4. ASSUME OperatorCommits, api.key = k, row'[k].status = Requested(api.op).status
          PROVE  /\ row'[k].status # "sent"
                 /\ row'[k].status = "skipped" => k \in skipped'
      <4>1. api.op \in {"replay", "skip"}
        BY <1>0, <3>4 DEF OperatorCommits, TypeOK
      <4>2. api.op = "skip" => k \in skipped'
        BY <3>1, <3>4 DEF OperatorCommits
      <4> QED
        BY <3>4, <4>1, <4>2, RequestedAssigns
    <3>5. row'[k].old => k \in Done'
      <4>1. CASE row'[k].old = row[k].old
        BY <1>0, <3>1, <4>1 DEF RowsTell
      <4>2. CASE row'[k].old # row[k].old
        <5>1. row[k].status \in {"sent", "skipped"}
          BY <3>1, <4>2 DEF Tended, vars
        <5> QED
          BY <1>0, <3>1, <5>1 DEF RowsTell, Done
      <4> QED
        BY <4>1, <4>2
    <3> QED
      BY <2>1, <3>1, <3>2, <3>3, <3>4, <3>5 DEF RowMoves
  <2>3. ASSUME NEW k \in Keys, k[2] <= emitted'[k[1]], row'[k] = None
        PROVE  k \in Done'
    <3>1. CASE row[k] = None
      BY <1>0, <2>1, <2>3, <3>1 DEF RowsTell
    <3>2. CASE row[k] # None
      <4>1. PICK p \in Senders : PurgeCommit(p) /\ k \in todo[p]
        BY <2>1, <2>3, <3>2 DEF RowMoves
      <4>2. pc[p] = "purging" /\ Follows(p)
        BY <1>0, <4>1 DEF PurgeCommit, SendersFollow
      <4> QED
        BY <1>0, <4>1, <4>2 DEF Follows
    <3> QED
      BY <3>1, <3>2
  <2> QED
    BY <2>2, <2>3 DEF RowsTell
<1> QED
  BY <1>1, <1>2
\* Senders go on following what is done with.
LEMMA NextFollows ==
  ASSUME OInv, [Next]_vars
  PROVE  SendersFollow'
<1>0. /\ NInv /\ TInv /\ TypeOK /\ AtWork /\ RowsTell /\ SendersFollow
      /\ got \subseteq got' /\ Done \subseteq Done' /\ \A k \in Keys : After(k) => After(k)'
      /\ pc \in [Senders -> Pcs] /\ todo \in [Senders -> SUBSET Keys]
      /\ item \in [Senders -> Keys \cup {None}]
      /\ answer \in [Senders -> {"ok", "retry", "reject", None}]
  <2>1. NInv /\ TInv /\ TypeOK /\ AtWork /\ RowsTell /\ SendersFollow
    BY DEF OInv, NInv, TInv
  <2> QED
    BY <2>1, StepGrows DEF TypeOK, Done
<1>1. ASSUME NEW q \in Senders, todo'[q] \subseteq todo[q],
             (pc'[q] = "purging" <=> pc[q] = "purging") \/ todo'[q] = {},
             pc'[q] \notin {"idle", "next", "purging"} =>
               pc[q] \notin {"idle", "next", "purging"} /\ item'[q] = item[q],
             answer'[q] = "ok" =>
               /\ answer[q] = "ok" /\ item'[q] = item[q]
               /\ pc'[q] \notin {"idle", "next", "purging"}
      PROVE  Follows(q)'
  <2>0. Follows(q)
    BY <1>0 DEF SendersFollow
  <2>1. \A k \in todo'[q] : IF pc'[q] = "purging" THEN k \in Done' ELSE After(k)'
    BY <1>0, <1>1, <2>0 DEF Follows
  <2>2. ASSUME pc'[q] \notin {"idle", "next", "purging"}
        PROVE  After(item[q])'
    <3>1. PICK k \in Keys : k = item[q] /\ After(k)
      BY <1>0, <1>1, <2>0, <2>2 DEF Follows, AtWork
    <3>2. After(k)' /\ item'[q] = k
      BY <1>0, <1>1, <2>2, <3>1
    <3> QED
      BY <3>2 DEF After
  <2>3. answer'[q] = "ok" => item'[q] \in got' /\ pc'[q] \notin {"idle", "next", "purging"}
    BY <1>0, <1>1, <2>0 DEF Follows
  <2> QED
    BY <2>1, <2>2, <2>3 DEF Follows
<1>2. CASE UNCHANGED <<pc, todo, item, answer>>
  BY <1>0, <1>1, <1>2 DEF SendersFollow, Follows
<1>3. ASSUME NEW p \in Senders, SenderStep(p) \/ SenderFault(p)
      PROVE  SendersFollow'
  <2>1. \A q \in Senders : q # p => /\ pc'[q] = pc[q] /\ todo'[q] = todo[q]
                                    /\ item'[q] = item[q] /\ answer'[q] = answer[q]
    BY <1>0, <1>3 DEF SenderStep, SenderFault, RecordFails, Crash, Select, TakeGate, BeginAttempt,
                      Post, RecordRead, RecordCommit, Ungate, PurgeRead, PurgeCommit, Go
  <2>2. \A q \in Senders : q # p => Follows(q)'
    BY <1>0, <1>1, <2>1 DEF SendersFollow, Follows
  <2>3. CASE Select(p)
    <3>1. PICK B \in Batches : todo' = [todo EXCEPT ![p] = Ready(B)]
      BY <2>3 DEF Select
    <3>2. \A k \in todo'[p] : k \in Keys /\ After(k)
      BY <1>0, <3>1, HeadsReady
    <3>3. pc'[p] = "next" /\ answer'[p] # "ok"
      BY <1>0, <2>3 DEF Select, Go, SendersFollow, Follows
    <3>4. Follows(p)'
      BY <1>0, <3>2, <3>3 DEF SendersFollow, Follows
    <3> QED
      BY <2>2, <3>4 DEF SendersFollow
  <2>4. CASE TakeGate(p)
    <3>1. PICK k \in todo[p] :
            /\ todo' = [todo EXCEPT ![p] = @ \ {k}]
            /\ IF k[1] \in gate
               THEN UNCHANGED <<gate, pc, item>>
               ELSE gate' = gate \cup {k[1]} /\ item' = [item EXCEPT ![p] = k] /\ Go(p, "attempt")
      BY <2>4 DEF TakeGate
    <3>2. k \in Keys /\ After(k) /\ After(k)'
      BY <1>0, <2>4 DEF TakeGate, SendersFollow, Follows
    <3>3. todo'[p] \subseteq todo[p] /\ answer'[p] # "ok" /\ pc[p] = "next"
      BY <1>0, <2>4, <3>1 DEF TakeGate, SendersFollow, Follows
    <3>4. CASE k[1] \in gate
      BY <1>1, <2>2, <3>1, <3>3, <3>4 DEF SendersFollow
    <3>5. CASE k[1] \notin gate
      <4>1. item'[p] = k
        BY <1>0, <3>1, <3>5
      <4>2. After(item[p])'
        BY <3>2, <4>1 DEF After
      <4>3. \A l \in todo'[p] : After(l)'
        BY <1>0, <3>3, StepGrows DEF SendersFollow, Follows
      <4>4. pc'[p] = "attempt"
        BY <1>0, <3>1, <3>5 DEF Go
      <4> QED
        BY <2>2, <3>3, <4>2, <4>3, <4>4 DEF SendersFollow, Follows
    <3> QED
      BY <3>4, <3>5
  <2>5. CASE Post(p)
    <3>1. /\ answer'[p] = "ok" => item[p] \in got'
          /\ item' = item /\ todo' = todo /\ pc[p] = "posting" /\ pc'[p] = "answered"
      BY <1>0, <2>5 DEF Post, Go
    <3>2. PICK k \in Keys : k = item[p] /\ After(k) /\ After(k)'
      BY <1>0, <3>1 DEF SendersFollow, Follows, AtWork
    <3>3. After(item[p])'
      BY <3>1, <3>2 DEF After
    <3>4. \A l \in todo'[p] : After(l)'
      BY <1>0, <3>1 DEF SendersFollow, Follows
    <3> QED
      BY <2>2, <3>1, <3>3, <3>4 DEF SendersFollow, Follows
  <2>6. CASE \/ BeginAttempt(p) \/ RecordRead(p) \/ RecordCommit(p) \/ Ungate(p) \/ PurgeCommit(p)
             \/ RecordFails(p) \/ Crash(p)
    <3>1. /\ todo'[p] \subseteq todo[p]
          /\ (pc'[p] = "purging" <=> pc[p] = "purging") \/ todo'[p] = {}
          /\ pc'[p] \notin {"idle", "next", "purging"} =>
               pc[p] \notin {"idle", "next", "purging"} /\ item'[p] = item[p]
          /\ answer'[p] = "ok" =>
               /\ answer[p] = "ok" /\ item'[p] = item[p]
               /\ pc'[p] \notin {"idle", "next", "purging"}
      <4>1. CASE BeginAttempt(p)
        BY <1>0, <4>1 DEF BeginAttempt, Go
      <4>2. CASE RecordRead(p)
        BY <1>0, <4>2 DEF RecordRead, Go
      <4>3. CASE RecordCommit(p)
        BY <1>0, <4>3 DEF RecordCommit, Go
      <4>4. CASE Ungate(p)
        BY <1>0, <4>4, OutboxConstants DEF Ungate, Go
      <4>5. CASE PurgeCommit(p)
        BY <1>0, <4>5 DEF PurgeCommit, Go, SendersFollow, Follows
      <4>7. CASE RecordFails(p)
        BY <1>0, <4>7 DEF RecordFails, Go
      <4>6. CASE Crash(p)
        BY <1>0, <4>6, OutboxConstants DEF Crash, Go
      <4> QED
        BY <2>6, <4>1, <4>2, <4>3, <4>4, <4>5, <4>6, <4>7
    <3> QED
      BY <1>1, <2>2, <3>1 DEF SendersFollow
  <2>7. CASE PurgeRead(p)
    <3>1. /\ todo'[p] = {k \in Present : Purgeable(row[k])} /\ pc'[p] = "purging"
          /\ pc[p] = "next" /\ answer' = answer
      BY <1>0, <2>7 DEF PurgeRead, Go
    <3>2. \A k \in todo'[p] : k \in Done'
      BY <1>0, <3>1 DEF RowsTell, Purgeable
    <3>3. answer'[p] # "ok"
      BY <1>0, <3>1 DEF SendersFollow, Follows
    <3> QED
      BY <2>2, <3>1, <3>2, <3>3 DEF SendersFollow, Follows
  <2> QED
    BY <1>3, <2>3, <2>4, <2>5, <2>6, <2>7 DEF SenderStep, SenderFault
<1>4. OtherStep \/ UNCHANGED vars => UNCHANGED <<pc, todo, item, answer>>
  BY DEF OtherStep, vars, senders, Emit, GateExpires, OperatorReads, OperatorCommits, LeaseExpires,
         BecomesDue, Ages, RowsOnly
<1> QED
  BY <1>2, <1>3, <1>4, NextSorted
\* Every step of a tended outbox keeps OInv.
LEMMA NextOrdered == OInv /\ [Next /\ Tended]_vars => OInv'
<1> SUFFICES ASSUME OInv, [Next /\ Tended]_vars PROVE OInv'
  OBVIOUS
<1>1. NInv' /\ RowsTell' /\ SendersFollow'
  BY NextNumbered, NextTells, NextFollows DEF OInv
<1>2. TypeOK /\ AtWork /\ NInv
  BY DEF OInv, NInv, TInv
<1>3. api'.op # "none" => api'.key[2] <= emitted'[api'.key[1]]
  <2>1. CASE api' = api
    <3>1. ASSUME api.op # "none"
          PROVE  api.key[2] <= emitted'[api.key[1]]
      <4>1. PICK k \in Keys : k = api.key /\ k[2] <= emitted[k[1]]
        BY <1>2, <3>1 DEF AtWork, OInv
      <4>2. k[1] \in Streams /\ k[2] \in Nat
        BY OutboxConstants DEF Keys
      <4>3. emitted[k[1]] \in Nat /\ emitted'[k[1]] \in Nat /\ emitted[k[1]] <= emitted'[k[1]]
        BY <1>2, <4>2, StepGrows
      <4> QED
        BY <4>1, <4>2, <4>3
    <3> QED
      BY <2>1, <3>1
  <2>2. ASSUME NEW k \in Keys, NEW op, OperatorReads(op, k)
        PROVE  api'.key[2] <= emitted'[api'.key[1]]
    BY <1>2, <2>2 DEF OperatorReads, NInv, RowsEmitted
  <2>3. CASE OperatorCommits
    BY <2>3 DEF OperatorCommits
  <2> QED
    BY <2>1, <2>2, <2>3 DEF Next, vars, SenderStep, Select, TakeGate, BeginAttempt, Post,
       RecordRead, RecordCommit, Ungate, PurgeRead, PurgeCommit, SenderFault, RecordFails, Crash,
       Emit, GateExpires, LeaseExpires, BecomesDue, Ages, RowsOnly
<1> QED
  BY <1>1, <1>3 DEF OInv

\* Nothing is in hand at first.
LEMMA InitOrdered == Init => OInv
<1> SUFFICES ASSUME Init PROVE OInv
  OBVIOUS
<1>1. NInv
  BY InitNumbered
<1>2. Present = {} /\ \A k \in Keys : k[1] \in Streams /\ k[2] \in Nat /\ k[2] > 0
  BY OutboxConstants DEF Init, Present, Keys
<1>3. RowsTell
  BY <1>2 DEF Init, RowsTell
<1>4. SendersFollow
  BY OutboxConstants DEF Init, SendersFollow, Follows
<1> QED
  BY <1>1, <1>3, <1>4 DEF Init, OInv

\* Every step is a step of the promise, or leaves what the promise speaks of.
LEMMA StepRefines ==
  ASSUME OInv, [Next /\ Tended]_vars
  PROVE  [Promise!Next]_(Promise!vars)
<1>0. TypeOK /\ AtWork /\ NInv /\ SendersFollow
  BY DEF OInv, NInv, TInv
<1>1. UNCHANGED <<emitted, got, skipped>> => UNCHANGED Promise!vars
  BY DEF Promise!vars
<1>2. ASSUME NEW s \in Streams, Emit(s)
      PROVE  Promise!Next
  <2>1. Promise!Emit(s)
    BY <1>2 DEF Emit, Promise!Emit
  <2> QED
    BY <2>1 DEF Promise!Next
<1>3. ASSUME NEW p \in Senders, Post(p)
      PROVE  Promise!Next \/ UNCHANGED <<emitted, got, skipped>>
  <2>1. CASE got' = got
    BY <1>3, <2>1 DEF Post
  <2>2. CASE got' = got \cup {item[p]}
    <3>1. PICK k \in Keys : k = item[p] /\ After(k)
      BY <1>0, <1>3 DEF Post, AtWork, SendersFollow, Follows
    <3>2. PICK s \in Streams, n \in 1..MaxEvents : k = <<s, n>>
      BY DEF Keys
    <3>3. k[1] = s /\ k[2] = n
      BY <3>2
    <3>4. Promise!Deliver(s, n)
      BY <1>3, <2>2, <3>1, <3>2, <3>3 DEF Post, After, Done, Promise!Deliver, Promise!Due
    <3> QED
      BY <3>4 DEF Promise!Next
  <2> QED
    BY <1>3, <2>1, <2>2 DEF Post
<1>4. CASE OperatorCommits
  <2>1. CASE skipped' = skipped
    BY <1>1, <1>4, <2>1 DEF OperatorCommits
  <2>2. CASE skipped' = skipped \cup {api.key}
    <3>1. PICK k \in Keys : k = api.key /\ k[2] <= emitted[k[1]]
      BY <1>0, <1>4 DEF OperatorCommits, AtWork, OInv
    <3>2. PICK s \in Streams, n \in 1..MaxEvents : k = <<s, n>>
      BY DEF Keys
    <3>3. Promise!Skip(s, n)
      BY <1>4, <2>2, <3>1, <3>2 DEF OperatorCommits, Promise!Skip
    <3> QED
      BY <3>3 DEF Promise!Next
  <2> QED
    BY <1>4, <2>1, <2>2 DEF OperatorCommits
<1>5. CASE /\ ~\E s \in Streams : Emit(s)
           /\ ~\E p \in Senders : Post(p)
           /\ ~OperatorCommits
  <2>1. UNCHANGED <<emitted, got, skipped>>
    BY <1>5 DEF Next, vars, SenderStep, Select, TakeGate, BeginAttempt, RecordRead,
       RecordCommit, Ungate, PurgeRead, PurgeCommit, SenderFault, RecordFails, Crash, GateExpires,
       OperatorReads, LeaseExpires, BecomesDue, Ages,
       RowsOnly
  <2> QED
    BY <1>1, <2>1
<1> QED
  BY <1>1, <1>2, <1>3, <1>4, <1>5

\* While it is tended the outbox keeps its promise: first receipts come in the order of
\* emission, skipped events aside.
THEOREM DeliveryInOrder == TendedSpec => DeliversInOrder
<1>1. Init => Promise!Init
  BY DEF Init, Promise!Init
<1> QED
  BY <1>1, InitOrdered, NextOrdered, StepRefines, PTL DEF TendedSpec, DeliversInOrder, Promise!Spec
=============================================================================
