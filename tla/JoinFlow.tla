------------------------------ MODULE JoinFlow ------------------------------
(***************************************************************************)
(* One visit of a bot to a Google Meet page (meet/join_flow.py): from the  *)
(* landing page to the knock, the wait for the host, the wait for the end. *)
(*                                                                         *)
(* A step of the bot is one look at the page, one click or one look at the *)
(* stop request, so the page and the host act between any two of them.     *)
(* The page is external: what it shows is modelled from what the selectors *)
(* of join_flow.py look for.  The leave control is on the waiting screen   *)
(* as well as in the call (ADR 0014), and a look that fails sees nothing.  *)
(***************************************************************************)
EXTENDS Integers

CONSTANTS
  AdmissionPolls,  \* ADMISSION_TIMEOUT_S / ADMISSION_POLL_S: polls before the wait is over
  MeetingPolls,    \* meeting_max_minutes / END_POLL_S: polls of the longest meeting
  MaxGlitches      \* bound: looks and clicks that fail

ASSUME JoinConstants ==
  AdmissionPolls \in Nat \ {0} /\ MeetingPolls \in Nat \ {0} /\ MaxGlitches \in Nat

VARIABLES
  page,      \* what Meet shows
  admitted,  \* the bot has been in the call
  refused,   \* the host has turned it away
  at,        \* where the bot is in join_meeting, wait_admitted and wait_meeting_ended
  left,      \* polls before the deadline of the wait it is in
  misses,    \* leave_misses
  found,     \* whether its latest look for the leave control in the call found it
  outcome,   \* how the visit ended: what was returned, or the code of the JoinError
  stop,      \* the run was cancelled, or the pod told to end
  glitches   \* how many of MaxGlitches were used

meet == <<page, admitted, refused>>
joinVars == <<meet, at, left, misses, found, outcome, stop, glitches>>

\* "form" is the page before the knock, "gated" and "denied" show a gate text and "lost"
\* none of what the bot looks for; "asking" is the page between the click and its effect.
Pages == {"none", "form", "gated", "lost", "asking", "waiting", "in", "denied", "over"}
Places == {"begin", "landing", "prejoin", "armed", "knock",
           "poll", "leave_control", "waiting_sign", "gate_text", "admitted",
           "watch", "end_text", "leave_again", "ended"}
Outcomes == {"none", "cancelled", "join-gated", "join-prejoin-missing", "join-no-knock-button",
             "join-timeout", "meeting-ended", "meeting-timeout", "error"}

JoinTypeOK ==
  /\ page \in Pages /\ admitted \in BOOLEAN /\ refused \in BOOLEAN
  /\ at \in Places /\ left \in 0..AdmissionPolls \cup 0..MeetingPolls /\ misses \in 0..1
  /\ found \in BOOLEAN
  /\ outcome \in Outcomes /\ (outcome = "none" <=> at # "ended")
  /\ stop \in BOOLEAN /\ glitches \in 0..MaxGlitches

JoinInit ==
  /\ page = "none" /\ admitted = FALSE /\ refused = FALSE
  /\ at = "begin" /\ left = 0 /\ misses = 0 /\ found = TRUE
  /\ outcome = "none" /\ stop = FALSE /\ glitches = 0

Clean == UNCHANGED glitches
Glitch == glitches < MaxGlitches /\ glitches' = glitches + 1

\* The next step of the function the bot is in; it returns or raises, and its locals are gone.
Go(place) == at' = place /\ UNCHANGED outcome
Stay(place) == Go(place) /\ UNCHANGED <<left, misses, found>>
End(reason) ==
  /\ at' = "ended" /\ outcome' = reason
  /\ left' = 0 /\ misses' = 0 /\ found' = TRUE

\* A look at the page for something it shows, or does not.
Finds(shown) == shown /\ Clean
FindsNot(shown) == (~shown /\ Clean) \/ (shown /\ Glitch)

Bot == UNCHANGED <<at, left, misses, found, outcome, stop, glitches>>

-----------------------------------------------------------------------------
(* Meet and its host                                                        *)

\* The effect of the knock: the bot waits for the host, is let in at once, or is not let in.
Renders ==
  /\ page = "asking"
  /\ \/ page' = "waiting" /\ UNCHANGED <<admitted, refused>>
     \/ page' = "in" /\ admitted' = TRUE /\ UNCHANGED refused
     \/ page' = "denied" /\ refused' = TRUE /\ UNCHANGED admitted
  /\ Bot

Admits ==
  /\ page = "waiting"
  /\ page' = "in" /\ admitted' = TRUE /\ Bot /\ UNCHANGED refused

Refuses ==
  /\ page = "waiting"
  /\ page' \in {"denied", "lost"} /\ refused' = TRUE /\ Bot /\ UNCHANGED admitted

\* The call ends, or the bot is removed from it.
CallEnds ==
  /\ page = "in"
  /\ page' = "over" /\ Bot /\ UNCHANGED <<admitted, refused>>

\* A DELETE request's flag in Redis, or a SIGTERM of the pod.
StopRequested ==
  /\ ~stop /\ stop' = TRUE
  /\ UNCHANGED <<meet, at, left, misses, found, outcome, glitches>>

-----------------------------------------------------------------------------
(* join_meeting                                                             *)

\* The last look for the stop request comes before the knock.
Checks(place, next) ==
  /\ at = place /\ Clean
  /\ IF stop THEN End("cancelled") ELSE Stay(next)
  /\ UNCHANGED <<meet, stop>>

BeforeWarmup == Checks("begin", "landing")

\* The second look, and _open_prejoin's goto: the link shows the form, a gate, or neither.
Open ==
  /\ at = "landing"
  /\ \/ stop /\ End("cancelled") /\ UNCHANGED page
     \/ ~stop /\ Stay("prejoin") /\ page' \in {"form", "gated", "lost"}
  /\ UNCHANGED <<admitted, refused, stop>> /\ Clean

GateShown == page \in {"gated", "denied"}

\* A guest needs the field for its name; without it the page is asked for a gate.  Then the
\* name is typed or the overlays are dismissed, and pre_knock arms the recorder.
Prejoin ==
  /\ at = "prejoin"
  /\ \E guest \in BOOLEAN :
       \/ (guest => page = "form") /\ Stay("armed") /\ Clean
       \/ guest /\ page # "form" /\ Finds(GateShown) /\ End("join-gated")
       \/ guest /\ page # "form" /\ FindsNot(GateShown) /\ End("join-prejoin-missing")
  /\ UNCHANGED <<meet, stop>>

BeforeKnock == Checks("armed", "knock")

\* _knock; wait_admitted sets its deadline.
Knock ==
  /\ at = "knock"
  /\ \/ /\ Finds(page = "form") /\ page' = "asking"
        /\ Go("poll") /\ left' = AdmissionPolls /\ UNCHANGED <<misses, found>>
     \/ FindsNot(page = "form") /\ End("join-no-knock-button") /\ UNCHANGED page
  /\ UNCHANGED <<admitted, refused, stop>>

-----------------------------------------------------------------------------
(* wait_admitted                                                            *)

Poll ==
  /\ at = "poll" /\ Clean
  /\ \/ left = 0 /\ End("join-timeout")
     \/ left > 0 /\ stop /\ End("cancelled")
     \/ left > 0 /\ ~stop /\ Stay("leave_control")
  /\ UNCHANGED <<meet, stop>>

LeaveShown == page \in {"waiting", "in"}

\* Fault: the leave control is proof of admission.
LookForLeaveAlone ==
  /\ at = "leave_control"
  /\ \/ Finds(LeaveShown) /\ Stay("admitted")
     \/ FindsNot(LeaveShown) /\ Stay("gate_text")
  /\ UNCHANGED <<meet, stop>>

LookForLeave ==
  /\ at = "leave_control"
  /\ \/ Finds(LeaveShown) /\ Stay("waiting_sign")
     \/ FindsNot(LeaveShown) /\ Stay("gate_text")
  /\ UNCHANGED <<meet, stop>>

\* The waiting screen is the negative evidence of ADR 0014; no sign of it is admission.
LookForWaiting ==
  /\ at = "waiting_sign"
  /\ \/ Finds(page = "waiting") /\ Stay("gate_text")
     \/ FindsNot(page = "waiting") /\ Stay("admitted")
  /\ UNCHANGED <<meet, stop>>

\* A gate ends the wait; otherwise it sleeps until the next poll.
LookForGate ==
  /\ at = "gate_text"
  /\ \/ Finds(GateShown) /\ End("join-gated")
     \/ FindsNot(GateShown) /\ Go("poll") /\ left' = left - 1 /\ UNCHANGED <<misses, found>>
  /\ UNCHANGED <<meet, stop>>

-----------------------------------------------------------------------------
(* wait_meeting_ended                                                       *)

\* It sets its deadline; the recorder has been started.
BeginWatch ==
  /\ at = "admitted" /\ Go("watch") /\ left' = MeetingPolls
  /\ UNCHANGED <<meet, misses, found, stop>> /\ Clean

Watch ==
  /\ at = "watch" /\ Clean
  /\ \/ left = 0 /\ End("meeting-timeout")
     \/ left > 0 /\ stop /\ End("cancelled")
     \/ left > 0 /\ ~stop /\ Stay("end_text")
  /\ UNCHANGED <<meet, stop>>

LookForEnd ==
  /\ at = "end_text"
  /\ \/ Finds(page = "over") /\ End("meeting-ended")
     \/ FindsNot(page = "over") /\ Stay("leave_again")
  /\ UNCHANGED <<meet, stop>>

Sleep == Go("watch") /\ left' = left - 1

\* Fault: the misses are counted over the whole meeting.
LeaveFoundCounting == Sleep /\ found' = TRUE /\ UNCHANGED misses

LeaveFound == Sleep /\ found' = TRUE /\ misses' = 0

\* The second look in a row that does not find the leave control ends the meeting.
LeaveMissed ==
  IF misses = 1 THEN End("meeting-ended")
  ELSE Sleep /\ found' = FALSE /\ misses' = 1

LookForLeaveLeft ==
  /\ at = "leave_again"
  /\ \/ Finds(LeaveShown) /\ LeaveFound
     \/ FindsNot(LeaveShown) /\ LeaveMissed
  /\ UNCHANGED <<meet, stop>>

\* The browser, the database or Redis fails a call of the visit.
VisitFails ==
  /\ at \notin {"begin", "ended"} /\ Glitch /\ End("error")
  /\ UNCHANGED <<meet, stop>>

-----------------------------------------------------------------------------

Host == Renders \/ Admits \/ Refuses \/ CallEnds

Visit ==
  \/ BeforeWarmup \/ Open \/ Prejoin \/ BeforeKnock \/ Knock
  \/ Poll \/ LookForLeave \/ LookForWaiting \/ LookForGate
  \/ BeginWatch \/ Watch \/ LookForEnd \/ LookForLeaveLeft \/ VisitFails

JoinNext == Host \/ StopRequested \/ Visit

JoinSpec == JoinInit /\ [][JoinNext]_joinVars

-----------------------------------------------------------------------------

InCall == at \in {"admitted", "watch", "end_text", "leave_again"}

\* "It only marks a run admitted after those signals disappear" (ADR 0014): a bot that takes
\* itself for admitted has been let in, unless a look at the page failed or the host turned it
\* away between the look for the leave control and the look for the waiting screen.
AdmittedByHost == InCall /\ glitches = 0 /\ ~refused => admitted

\* One look that misses the leave control does not end a meeting that goes on: a bot in the
\* call leaves for "meeting-ended" only when the look before its last one had missed it too.
EndsWhenGone ==
  [][outcome = "none" /\ outcome' = "meeting-ended" /\ page = "in" => ~found]_joinVars
=============================================================================
