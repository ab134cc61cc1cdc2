---------------------------- MODULE GuestPacing ----------------------------
(***************************************************************************)
(* GuestPacer and the wait of run_claim (worker.py): the guests of one     *)
(* worker process are let go gap_s apart, each at the slot it reserved.    *)
(* A signed-in worker has a pacer of gap 0.                                *)
(***************************************************************************)
EXTENDS Integers

CONSTANTS
  Claims,   \* the entries the worker claims
  GuestGap, \* ANTI_CHURN_GUEST_GAP_S
  MaxTime   \* bound: the clock stops here

ASSUME PacingConstants == GuestGap \in Nat \ {0} /\ MaxTime \in Nat

VARIABLES
  gap,     \* GuestPacer._gap_s
  clock,   \* time.monotonic()
  nextAt,  \* GuestPacer._next_at
  slot,    \* slot_at of each claim
  pace     \* where each claim is in run_claim

pacingVars == <<gap, clock, nextAt, slot, pace>>

PacingTypeOK ==
  /\ gap \in {0, GuestGap} /\ clock \in 0..MaxTime /\ nextAt \in Nat
  /\ slot \in [Claims -> Nat]
  /\ pace \in [Claims -> {"new", "waiting", "past", "withdrawn"}]

PacingInit ==
  /\ gap \in {0, GuestGap} /\ clock = 0 /\ nextAt = 0
  /\ slot = [c \in Claims |-> 0] /\ pace = [c \in Claims |-> "new"]

SlotAt == IF nextAt > clock THEN nextAt ELSE clock

\* Fault: the next slot is counted from the one before.
ReserveOnGrid(c) ==
  /\ pace[c] = "new"
  /\ slot' = [slot EXCEPT ![c] = SlotAt]
  /\ nextAt' = nextAt + gap
  /\ pace' = [pace EXCEPT ![c] = IF SlotAt > clock THEN "waiting" ELSE "past"]
  /\ UNCHANGED <<gap, clock>>

\* The claim ends before it reserves a slot: the worker shuts down, the run's cancel flag is
\* seen, or Redis fails the look for it.
Drop(c) ==
  /\ pace[c] = "new"
  /\ pace' = [pace EXCEPT ![c] = "withdrawn"]
  /\ UNCHANGED <<gap, clock, nextAt, slot>>

\* GuestPacer.reserve, under the lock: a claim whose slot has come does not wait.
Reserve(c) ==
  /\ pace[c] = "new"
  /\ slot' = [slot EXCEPT ![c] = SlotAt]
  /\ nextAt' = SlotAt + gap
  /\ pace' = [pace EXCEPT ![c] = IF SlotAt > clock THEN "waiting" ELSE "past"]
  /\ UNCHANGED <<gap, clock>>

\* The deadline has passed: execute_run is called.
Pass(c) ==
  /\ pace[c] = "waiting" /\ clock >= slot[c]
  /\ pace' = [pace EXCEPT ![c] = "past"]
  /\ UNCHANGED <<gap, clock, nextAt, slot>>

\* GuestPacer.release: only the latest slot can be given back.
Released(c) == IF nextAt = slot[c] + gap THEN slot[c] ELSE nextAt

\* The worker shuts down, or the run's cancel flag is seen; the check may come late.
Withdraw(c) ==
  /\ pace[c] = "waiting"
  /\ nextAt' = Released(c)
  /\ pace' = [pace EXCEPT ![c] = "withdrawn"]
  /\ UNCHANGED <<gap, clock, slot>>

\* Redis fails the look for the flag: the claim ends and keeps its slot.
WaitFails(c) ==
  /\ pace[c] = "waiting"
  /\ pace' = [pace EXCEPT ![c] = "withdrawn"]
  /\ UNCHANGED <<gap, clock, nextAt, slot>>

\* Another process has a pacer of its own, which knows of no slot; some entries come again.
NewProcess(again) ==
  /\ nextAt' = 0 /\ slot' = [c \in Claims |-> 0]
  /\ pace' = [c \in Claims |-> IF c \in again \/ pace[c] = "new" THEN "new" ELSE "withdrawn"]
  /\ UNCHANGED <<gap, clock>>

Tick ==
  /\ gap > 0 /\ clock < MaxTime /\ clock' = clock + 1
  /\ UNCHANGED <<gap, nextAt, slot, pace>>

PacingNext ==
  \/ \E c \in Claims : Drop(c) \/ Reserve(c) \/ Pass(c) \/ Withdraw(c) \/ WaitFails(c)
  \/ (\E again \in SUBSET Claims : NewProcess(again)) \/ Tick

PacingSpec == PacingInit /\ [][PacingNext]_pacingVars

-----------------------------------------------------------------------------

Kept == {c \in Claims : pace[c] \in {"waiting", "past"}}

\* Whatever is given back in between, the slots of the guests that wait or were let go by one
\* process are a gap apart, and nobody is let go before its slot.
GuestsPaced ==
  /\ \A c, d \in Kept : c # d => slot[c] + gap <= slot[d] \/ slot[d] + gap <= slot[c]
  /\ \A c \in Claims : pace[c] = "past" => slot[c] <= clock
=============================================================================
