--------------------------- MODULE OrderedDelivery ---------------------------
(***************************************************************************)
(* What the webhook outbox promises a receiver (ADR 0005, ADR 0006): the   *)
(* events of a stream, one bot's events for one subscription, arrive in    *)
(* the order they were emitted.  Delivery is at-least-once, so this is     *)
(* about the first receipt of each event; an event an operator has skipped *)
(* need not have arrived.                                                   *)
(***************************************************************************)
EXTENDS Integers

CONSTANTS Streams, MaxEvents

VARIABLES
  emitted,   \* how many events of each stream were emitted
  got,       \* <<stream, n>>: the events the receiver has heard of
  skipped    \* those an operator has skipped, delivered or not

vars == <<emitted, got, skipped>>

Keys == Streams \X (1..MaxEvents)

Init == emitted = [s \in Streams |-> 0] /\ got = {} /\ skipped = {}

Emit(s) ==
  /\ emitted[s] < MaxEvents
  /\ emitted' = [emitted EXCEPT ![s] = @ + 1]
  /\ UNCHANGED <<got, skipped>>

\* Every event before n was heard of or skipped.
Due(s, n) == \A d \in 1..(n - 1) : <<s, d>> \in got \cup skipped

Deliver(s, n) ==
  /\ n <= emitted[s] /\ Due(s, n)
  /\ got' = got \cup {<<s, n>>}
  /\ UNCHANGED <<emitted, skipped>>

Skip(s, n) ==
  /\ n <= emitted[s]
  /\ skipped' = skipped \cup {<<s, n>>}
  /\ UNCHANGED <<emitted, got>>

Next == \E s \in Streams : \/ Emit(s)
                           \/ \E n \in 1..MaxEvents : Deliver(s, n) \/ Skip(s, n)

Spec == Init /\ [][Next]_vars
=============================================================================
