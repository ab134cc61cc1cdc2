----------------------------- MODULE MCDispatch -----------------------------
(* Instances of Dispatch for TLC.                                           *)
EXTENDS Dispatch

CalmFairSpec == CalmSpec /\ Fairness
=============================================================================
