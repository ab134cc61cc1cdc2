---------------------------- MODULE MCRecording -----------------------------
(* Instances of Recording for TLC.                                          *)
EXTENDS Recording
=============================================================================
