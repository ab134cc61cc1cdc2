------------------------------ MODULE MCOutbox ------------------------------
(* Instances of Outbox for TLC.                                             *)
EXTENDS Outbox, TLC

\* The days on which nothing is given up unseen, and time passes.
TendedFairSpec == TendedSpec /\ Fairness

\* All senders are alike.
AnySender == Permutations(Senders)
=============================================================================
