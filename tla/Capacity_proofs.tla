--------------------------- MODULE Capacity_proofs ---------------------------
(***************************************************************************)
(* Proofs about Capacity, for any number of runs and executions: the type  *)
(* invariant, the bound that survives the stale reads, and the counter's   *)
(* exactness without them.  An execution writes one more than the counter  *)
(* it saw, and it reserves only below the limit; the other commits         *)
(* decrement.  Exactness rests on cardinalities: a reservation adds one    *)
(* active run, a release removes the one that was read, and the sweep as   *)
(* many as it picked, of which no two are of the same run.                 *)
(***************************************************************************)
EXTENDS Capacity, FiniteSetTheorems, FunctionTheorems, TLAPS

\* A sweep has a finite list.
LEMMA FiniteSweep ==
  ASSUME TypeOK
  PROVE  IsFiniteSet(picked) /\ Cardinality(picked) \in Nat
<1>1. IsFiniteSet(Reservations)
  BY CapacityConstants, FS_Product DEF Reservations
<1> QED
  BY <1>1, FS_Subset, FS_CardinalityType DEF TypeOK

\* Decrementing stays within the naturals and within the limit.
LEMMA DecrementedBound ==
  ASSUME NEW n \in Nat \cup {Absent}, NEW k \in Nat, n <= Limit
  PROVE  Decremented(n, k) \in Nat /\ Decremented(n, k) <= Limit
BY CapacityConstants DEF Decremented, Absent

IInv == TypeOK /\ CounterWithinLimit

\* The inductive invariant holds before the first reservation.
LEMMA IInvInit == Init => IInv
BY CapacityConstants DEF Init, IInv, TypeOK, CounterWithinLimit, Pcs, Absent

\* The steps of an execution.
LEMMA ExecKeeps ==
  ASSUME IInv, NEW e \in Execs,
         \/ ExecuteRun(e) \/ ReserveRead(e) \/ ReserveConflict(e) \/ ReserveCommit(e)
         \/ RefusedCheck(e) \/ FailRun(e) \/ Spawn(e) \/ SpawnReturns(e) \/ ReleaseRead(e)
         \/ ReleaseCommit(e) \/ Crash(e)
  PROVE  IInv'
<1> USE CapacityConstants DEF IInv
<1>0. TypeOK /\ CounterWithinLimit /\ RunOf[e] \in Runs
  OBVIOUS
<1>1. ASSUME NEW l \in Pcs, Go(e, l)
      PROVE  pc' \in [Execs -> Pcs]
  BY <1>1 DEF Go, TypeOK
<1>2. ASSUME Forgets(e)
      PROVE  /\ seen' \in [Execs -> Nat \cup {Absent}]
             /\ got' \in [Execs -> Execs \cup {Nobody}]
  BY <1>2 DEF Forgets, TypeOK
<1>3. CASE ExecuteRun(e)
  BY <1>1, <1>3 DEF ExecuteRun, Pcs, Sweeping, TypeOK, CounterWithinLimit
<1>4. CASE ReserveRead(e)
  BY <1>1, <1>4 DEF ReserveRead, Pcs, Sweeping, TypeOK, CounterWithinLimit
<1>5. CASE ReserveConflict(e)
  BY <1>1, <1>2, <1>5 DEF ReserveConflict, Pcs, Sweeping, TypeOK, CounterWithinLimit
<1>6. CASE ReserveCommit(e)
  <2> DEFINE r == RunOf[e]
             n == IF seen[e] = Absent THEN 0 ELSE seen[e]
  <2>1. n \in Nat
    BY DEF TypeOK
  <2>2. CASE Reservable(r, n)
    <3>1. /\ holder' = [holder EXCEPT ![r] = e] /\ old' = old \ {r}
          /\ count' = n + 1 /\ Go(e, "granted")
      BY <1>6, <2>2 DEF ReserveCommit
    <3>2. count' \in Nat /\ count' <= Limit
      BY <2>1, <2>2, <3>1 DEF Reservable
    <3> QED
      BY <1>0, <1>1, <1>2, <1>6, <3>1, <3>2
         DEF ReserveCommit, Pcs, Sweeping, TypeOK, CounterWithinLimit
  <2>3. CASE ~Reservable(r, n)
    <3>1. /\ count' = IF count = Absent THEN 0 ELSE count
          /\ \E l \in {"reserve", "refused"} : Go(e, l)
          /\ UNCHANGED <<holder, old>>
      BY <1>6, <2>3 DEF ReserveCommit
    <3>2. count' \in Nat /\ count' <= Limit
      BY <1>0, <3>1 DEF TypeOK, CounterWithinLimit
    <3>3. pc' \in [Execs -> Pcs]
      BY <1>1, <3>1 DEF Pcs
    <3> QED
      BY <1>2, <1>6, <3>1, <3>2, <3>3 DEF ReserveCommit, Sweeping, TypeOK, CounterWithinLimit
  <2> QED
    BY <2>2, <2>3
<1>7. CASE RefusedCheck(e)
  BY <1>1, <1>7 DEF RefusedCheck, Pcs, Sweeping, TypeOK, CounterWithinLimit
<1>8. CASE FailRun(e)
  BY <1>0, <1>1, <1>8 DEF FailRun, Pcs, Sweeping, TypeOK, CounterWithinLimit
<1>9. CASE Spawn(e)
  BY <1>0, <1>1, <1>9 DEF Spawn, Pcs, Sweeping, TypeOK, CounterWithinLimit
<1>10. CASE SpawnReturns(e)
  BY <1>1, <1>10 DEF SpawnReturns, Pcs, Sweeping, TypeOK, CounterWithinLimit
<1>11. CASE ReleaseRead(e)
  BY <1>0, <1>1, <1>11 DEF ReleaseRead, Pcs, Sweeping, TypeOK, CounterWithinLimit
<1>12. CASE ReleaseCommit(e)
  <2>1. count' = Decremented(count, 1)
    BY <1>12 DEF ReleaseCommit
  <2>2. count' \in Nat /\ count' <= Limit
    BY <1>0, <2>1, DecrementedBound DEF TypeOK, CounterWithinLimit
  <2>3. holder' \in [Runs -> Execs \cup {Nobody}]
    BY <1>0, <1>12 DEF ReleaseCommit, TypeOK
  <2> QED
    BY <1>1, <1>2, <1>12, <2>2, <2>3
       DEF ReleaseCommit, Pcs, Sweeping, TypeOK, CounterWithinLimit
<1>13. CASE Crash(e)
  BY <1>1, <1>2, <1>13 DEF Crash, Pcs, Sweeping, TypeOK, CounterWithinLimit
<1> QED
  BY <1>3, <1>4, <1>5, <1>6, <1>7, <1>8, <1>9, <1>10, <1>11, <1>12, <1>13

\* The steps of the sweep, of the runs and of the clock.
LEMMA OtherKeeps ==
  ASSUME IInv,
         \/ SweepSelect \/ SweepCommit \/ (\E x \in Reservations : SweepJudge(x))
         \/ (\E r \in Runs : RunStarts(r) \/ RunEnds(r) \/ Ages(r))
  PROVE  IInv'
<1> USE CapacityConstants DEF IInv
<1>1. CASE SweepSelect
  <2>1. Held \subseteq Reservations
    BY DEF Held, Reservations, TypeOK
  <2> QED
    BY <1>1, <2>1 DEF SweepSelect, TypeOK, CounterWithinLimit
<1>2. CASE SweepCommit
  <2>1. count' \in Nat /\ count' <= Limit
    BY <1>2, FiniteSweep, DecrementedBound DEF SweepCommit, TypeOK, CounterWithinLimit
  <2> QED
    BY <1>2, <2>1 DEF SweepCommit, TypeOK, CounterWithinLimit
<1>3. CASE \E x \in Reservations : SweepJudge(x)
  BY <1>3 DEF SweepJudge, TypeOK, CounterWithinLimit
<1>4. CASE \E r \in Runs : RunStarts(r) \/ RunEnds(r) \/ Ages(r)
  BY <1>4 DEF RunStarts, RunEnds, Ages, Sweeping, TypeOK, CounterWithinLimit
<1> QED
  BY <1>1, <1>2, <1>3, <1>4

\* Every step keeps the inductive invariant.
LEMMA IInvNext == IInv /\ [Next]_vars => IInv'
<1> SUFFICES ASSUME IInv, [Next]_vars PROVE IInv'
  OBVIOUS
<1>1. CASE UNCHANGED vars
  BY <1>1 DEF vars, IInv, TypeOK, CounterWithinLimit
<1>2. CASE Next
  BY <1>2, ExecKeeps, OtherKeeps DEF Next
<1> QED
  BY <1>1, <1>2

\* The counter never passes the limit, for any number of runs and executions and
\* whatever each of them read before it committed.
THEOREM CounterBounded == Spec => []CounterWithinLimit
<1>1. IInv => CounterWithinLimit
  BY DEF IInv
<1> QED
  BY <1>1, IInvInit, IInvNext, PTL DEF Spec

\* The type invariant, whatever the number of runs and executions.
THEOREM TypeCorrect == Spec => []TypeOK
<1>1. IInv => TypeOK
  BY DEF IInv
<1> QED
  BY <1>1, IInvInit, IInvNext, PTL DEF Spec

-----------------------------------------------------------------------------
(* When the counter is exact.                                               *)

\* The runs that have an active reservation.
Active(h) == {r \in Runs : h[r] # Nobody}

\* A releasing execution has a reservation to give back: it read one.
ReleasesOne == \A e \in Execs : pc[e] = "releasing" => got[e] # Nobody

\* No execution is releasing at first.
LEMMA ReleasesInit == Init => ReleasesOne
BY DEF Init, ReleasesOne

\* ReleaseRead, the only way to "releasing", tests what it read.
LEMMA ReleasesNext ==
  ASSUME TypeOK, ReleasesOne, [Next]_vars
  PROVE  ReleasesOne'
<1>1. CASE UNCHANGED <<pc, got>>
  BY <1>1 DEF ReleasesOne
<1>2. ASSUME NEW e \in Execs, ReleaseRead(e)
      PROVE  ReleasesOne'
  BY <1>2 DEF ReleaseRead, Go, ReleasesOne, TypeOK
<1>3. ASSUME NEW e \in Execs, NEW l \in Pcs, l # "releasing", Go(e, l),
             UNCHANGED got \/ Forgets(e)
      PROVE  ReleasesOne'
  BY <1>3 DEF Go, Forgets, ReleasesOne, TypeOK
<1>4. ASSUME NEW e \in Execs,
             \/ ExecuteRun(e) \/ ReserveRead(e) \/ ReserveConflict(e) \/ RefusedCheck(e)
             \/ FailRun(e) \/ Spawn(e) \/ SpawnReturns(e) \/ ReleaseCommit(e) \/ Crash(e)
      PROVE  ReleasesOne'
  BY <1>3, <1>4 DEF ExecuteRun, ReserveRead, ReserveConflict, RefusedCheck, FailRun, Spawn,
                    SpawnReturns, ReleaseCommit, Crash, Pcs
<1>5. ASSUME NEW e \in Execs, ReserveCommit(e)
      PROVE  ReleasesOne'
  BY <1>3, <1>5 DEF ReserveCommit, Pcs
<1>6. CASE SweepSelect \/ SweepCommit \/ \E x \in Reservations : SweepJudge(x)
  BY <1>1, <1>6 DEF SweepSelect, SweepCommit, SweepJudge
<1>7. CASE \E r \in Runs : RunStarts(r) \/ RunEnds(r) \/ Ages(r)
  BY <1>1, <1>7 DEF RunStarts, RunEnds, Ages
<1>8. CASE UNCHANGED vars
  BY <1>1, <1>8 DEF vars
<1> QED
  BY <1>2, <1>4, <1>5, <1>6, <1>7, <1>8 DEF Next

\* There are finitely many active reservations.
LEMMA ActiveFinite ==
  ASSUME NEW h
  PROVE  IsFiniteSet(Active(h)) /\ Cardinality(Active(h)) \in Nat
<1>1. Active(h) \in SUBSET Runs
  BY DEF Active
<1> QED
  BY <1>1, CapacityConstants, FS_Subset, FS_CardinalityType

\* A reservation on top of the counter as it is counts one more.
LEMMA ReserveCounts ==
  ASSUME TypeOK, Current, Counted(count, holder), NEW e \in Execs, ReserveCommit(e)
  PROVE  Counted(count', holder')
<1> DEFINE r == RunOf[e]
           n == IF seen[e] = Absent THEN 0 ELSE seen[e]
<1>0. r \in Runs /\ Active(holder) = {q \in Runs : holder[q] # Nobody}
  BY CapacityConstants DEF Active
<1>1. seen[e] = count
  BY DEF ReserveCommit, Current
<1>2. n = Cardinality(Active(holder)) /\ n \in Nat
  BY <1>0, <1>1, ActiveFinite, FS_EmptySet DEF Counted, TypeOK
<1>3. CASE Reservable(r, n)
  <2>1. holder' = [holder EXCEPT ![r] = e] /\ count' = n + 1
    BY <1>3 DEF ReserveCommit
  <2>2. r \notin Active(holder) /\ Active(holder') = Active(holder) \cup {r}
    BY <1>0, <1>3, <2>1, CapacityConstants DEF Reservable, Active, TypeOK
  <2>3. Cardinality(Active(holder')) = n + 1
    BY <1>2, <2>2, ActiveFinite, FS_AddElement
  <2>4. count' # Absent
    BY <1>2, <2>1 DEF Absent
  <2> QED
    BY <2>1, <2>3, <2>4 DEF Counted, Active
<1>4. CASE ~Reservable(r, n)
  <2>1. holder' = holder /\ count' = IF count = Absent THEN 0 ELSE count
    BY <1>4 DEF ReserveCommit
  <2>2. count' = n
    BY <1>1, <2>1
  <2>3. count' # Absent
    BY <1>2, <2>2 DEF Absent
  <2> QED
    BY <1>0, <1>2, <2>1, <2>2, <2>3 DEF Counted
<1> QED
  BY <1>3, <1>4

\* A release of the reservation that is there counts one less.
LEMMA ReleaseCounts ==
  ASSUME TypeOK, ReleasesOne, Current, Counted(count, holder), NEW e \in Execs, ReleaseCommit(e)
  PROVE  Counted(count', holder')
<1> DEFINE r == RunOf[e]
<1>0. r \in Runs /\ Active(holder) = {q \in Runs : holder[q] # Nobody}
  BY CapacityConstants DEF Active
<1>1. got[e] = holder[r] /\ got[e] # Nobody
  BY DEF ReleaseCommit, Current, ReleasesOne
<1>2. holder' = [holder EXCEPT ![r] = Nobody] /\ count' = Decremented(count, 1)
  BY <1>1 DEF ReleaseCommit
<1>3. r \in Active(holder) /\ Active(holder') = Active(holder) \ {r}
  BY <1>0, <1>1, <1>2 DEF Active, TypeOK
<1>4. count = Cardinality(Active(holder)) /\ count # Absent
  BY <1>0, <1>3 DEF Counted
<1>5. /\ Cardinality(Active(holder')) = Cardinality(Active(holder)) - 1
      /\ Cardinality(Active(holder')) \in Nat
  BY <1>3, ActiveFinite, FS_RemoveElement
<1>6. count' = Cardinality(Active(holder')) /\ count' # Absent
  BY <1>2, <1>4, <1>5, ActiveFinite DEF Decremented, Absent
<1> QED
  BY <1>6 DEF Counted, Active

\* The sweep gives back as many places as it releases reservations that are still there.
LEMMA SweepCounts ==
  ASSUME TypeOK, Current, Counted(count, holder), SweepCommit
  PROVE  Counted(count', holder')
<1> DEFINE P == {x[1] : x \in picked}
           f == [x \in picked |-> x[1]]
<1>0. Active(holder) = {q \in Runs : holder[q] # Nobody}
  BY DEF Active
<1>1. \A x \in picked : x \in Runs \X Execs /\ x = <<x[1], holder[x[1]]>> /\ holder[x[1]] # Nobody
  <2> SUFFICES ASSUME NEW x \in picked
               PROVE  x \in Runs \X Execs /\ x = <<x[1], holder[x[1]]>> /\ holder[x[1]] # Nobody
    OBVIOUS
  <2>1. x \in Held /\ x \in Runs \X Execs
    BY DEF Current, TypeOK, Reservations
  <2>2. PICK r \in Runs : holder[r] # Nobody /\ x = <<r, holder[r]>>
    BY <2>1 DEF Held
  <2> QED
    BY <2>1, <2>2
<1>2. P \subseteq Active(holder)
  BY <1>1 DEF Active
<1>3. Active(holder') = Active(holder) \ P
  <2>1. holder' = [r \in Runs |-> IF <<r, holder[r]>> \in picked THEN Nobody ELSE holder[r]]
    BY DEF SweepCommit
  <2>2. \A r \in Runs : <<r, holder[r]>> \in picked <=> r \in P
    BY <1>1
  <2> QED
    BY <2>1, <2>2 DEF Active
<1>4. Cardinality(P) = Cardinality(picked) /\ Cardinality(picked) \in Nat /\ picked # {}
  <2>1. f \in [picked -> P] /\ \A a, b \in picked : f[a] = f[b] => a = b
    BY <1>1
  <2>2. \A t \in P : \E s \in picked : f[s] = t
    OBVIOUS
  <2>3. f \in Bijection(picked, P)
    BY <2>1, <2>2, Fun_IsBij
  <2>4. ExistsBijection(picked, P)
    BY <2>3 DEF ExistsBijection
  <2> QED
    BY <2>4, FiniteSweep, FS_Bijection DEF SweepCommit
<1> HIDE DEF P, f
<1>5. /\ Cardinality(Active(holder')) = Cardinality(Active(holder)) - Cardinality(picked)
      /\ Cardinality(Active(holder')) \in Nat /\ Cardinality(Active(holder)) \in Nat
  <2>1. Active(holder) \cap P = P
    BY <1>2
  <2> QED
    BY <1>3, <1>4, <2>1, ActiveFinite, FS_Difference
<1>6. count = Cardinality(Active(holder)) /\ count # Absent
  <2>1. Active(holder) # {}
    BY <1>2, <1>4, FS_EmptySet DEF P
  <2> QED
    BY <1>0, <2>1 DEF Counted
<1>7. count' = Cardinality(Active(holder')) /\ count' # Absent
  BY <1>4, <1>5, <1>6 DEF SweepCommit, Decremented, Absent
<1> QED
  BY <1>7 DEF Counted, Active

\* Every step counts what it does to the reservations, if no open read is stale.
LEMMA StepCounts ==
  ASSUME TypeOK, ReleasesOne, [Next]_vars, Counted(count, holder), Current
  PROVE  Counted(count', holder')
<1>1. CASE UNCHANGED <<count, holder>>
  BY <1>1
<1>2. ASSUME NEW e \in Execs,
             \/ ExecuteRun(e) \/ ReserveRead(e) \/ ReserveConflict(e) \/ RefusedCheck(e)
             \/ FailRun(e) \/ Spawn(e) \/ SpawnReturns(e) \/ ReleaseRead(e) \/ Crash(e)
      PROVE  UNCHANGED <<count, holder>>
  BY <1>2 DEF ExecuteRun, ReserveRead, ReserveConflict, RefusedCheck, FailRun, Spawn,
              SpawnReturns, ReleaseRead, Crash
<1>3. CASE \/ SweepSelect \/ (\E x \in Reservations : SweepJudge(x))
           \/ (\E r \in Runs : RunStarts(r) \/ RunEnds(r) \/ Ages(r)) \/ UNCHANGED vars
  BY <1>1, <1>3 DEF SweepSelect, SweepJudge, RunStarts, RunEnds, Ages, vars
<1> QED
  BY <1>1, <1>2, <1>3, ReserveCounts, ReleaseCounts, SweepCounts DEF Next

\* Only a stale read makes the counter drift: from a state whose open transactions
\* have read what is there, every step keeps it equal to the active reservations.
THEOREM ExactUnlessStale == Spec => CountsExactly
<1>1. TypeOK /\ ReleasesOne /\ [Next]_vars
        => [Counted(count, holder) /\ Current => Counted(count', holder')]_vars
  BY StepCounts
<1>2. TypeOK /\ ReleasesOne /\ [Next]_vars => ReleasesOne'
  BY ReleasesNext
<1> QED
  BY <1>1, <1>2, ReleasesInit, TypeCorrect, PTL DEF Spec, CountsExactly
=============================================================================
