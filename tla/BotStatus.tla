----------------------------- MODULE BotStatus -----------------------------
(***************************************************************************)
(* The statuses of a bot run and the moves between them: the enumeration,  *)
(* LIVE_STATUSES and the _ALLOWED table of twin/bots/state.py.             *)
(***************************************************************************)

Live == {"joining", "joined", "recording", "processing"}

\* The statuses `advance`, `cancel`, `fail_run` and the sweeps treat as final.
Terminal == {"completed", "failed"}

Statuses == {"queued"} \cup Live \cup Terminal

\* _ALLOWED: the statuses a run may move to from each status.
Allowed ==
  [s \in Statuses |->
     CASE s = "queued"     -> {"joining", "failed"}
       [] s = "joining"    -> {"joined", "failed"}
       [] s = "joined"     -> {"recording", "failed"}
       [] s = "recording"  -> {"processing", "failed"}
       [] s = "processing" -> {"completed", "failed"}
       [] OTHER            -> {}]

CanTransition(current, target) == target \in Allowed[current]

\* The outcome of BotService.advance on the status its session sees: it writes
\* the target, it returns silently (the run already has that final status), or
\* it raises a conflict.
Advances(current, target) == current \notin Terminal /\ CanTransition(current, target)
=============================================================================
