--------------------------- MODULE MCProfileLease ---------------------------
(* Instances of ProfileLease for TLC.                                       *)
EXTENDS ProfileLease

CONSTANTS r1, r2, r3

Ask(meeting, key) == [meeting |-> meeting, key |-> key]

\* A retry under one key, for the same meeting or another one, and a request without a key.
Asks ==
  {[r \in Requests |-> CASE r = r1 -> Ask("m", "k") [] r = r2 -> Ask("m", "k") [] r = r3 -> Ask(c, NoKey)] :
     c \in {"m", "n"}}
=============================================================================
