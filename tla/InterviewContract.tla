-------------------------- MODULE InterviewContract --------------------------
(***************************************************************************)
(* What the interview promises, without requests, transactions or locks:   *)
(* every top-level question opens a thread, an answer either follows up    *)
(* within the depth cap or closes the thread, and when every thread is     *)
(* closed the session completes and is reported once.  Each action is one  *)
(* atomic change of the tables; Interview implements it.                   *)
(***************************************************************************)
EXTENDS Naturals

CONSTANTS NumQuestions, MaxFollowups

VARIABLES
  depth,    \* the follow-ups asked in each thread
  open,     \* whether the last question of each thread is unanswered
  session,  \* sessions.status
  reported  \* whether the report is stored

vars == <<depth, open, session, reported>>

Threads == 1..NumQuestions

AllClosed == \A t \in Threads : ~ open[t]

Init ==
  /\ depth = [t \in Threads |-> 0]
  /\ open = [t \in Threads |-> TRUE]
  /\ session = "IN_PROGRESS"
  /\ reported = FALSE

\* The last question of t is answered and a follow-up asked.
FollowUp(t) ==
  /\ open[t]
  /\ depth[t] < MaxFollowups
  /\ depth' = [depth EXCEPT ![t] = @ + 1]
  /\ UNCHANGED <<open, session, reported>>

\* The last question of t is answered and that is the end of the thread.
MoveOn(t) ==
  /\ open[t]
  /\ open' = [open EXCEPT ![t] = FALSE]
  /\ UNCHANGED <<depth, session, reported>>

Close ==
  /\ AllClosed
  /\ session' = "COMPLETED"
  /\ UNCHANGED <<depth, open, reported>>

Report ==
  /\ AllClosed
  /\ ~ reported
  /\ session' = "COMPLETED"
  /\ reported' = TRUE
  /\ UNCHANGED <<depth, open>>

Next ==
  \/ \E t \in Threads : FollowUp(t) \/ MoveOn(t)
  \/ Close
  \/ Report

Spec == Init /\ [][Next]_vars

-----------------------------------------------------------------------------
\* Nothing is completed with a thread open, nor reported before it is
\* completed, and no thread is deeper than the settings say.
ClosedInOrder ==
  /\ \A t \in Threads : depth[t] \in 0..MaxFollowups
  /\ session = "COMPLETED" => AllClosed
  /\ reported => session = "COMPLETED"

\* An interview goes one way: no thread gets shorter or is opened again, no
\* status or report is withdrawn, and what is completed stays as it is.
OneWay ==
  [][/\ \A t \in Threads : depth'[t] >= depth[t] /\ (open'[t] => open[t])
     /\ reported => reported'
     /\ session = "COMPLETED" => UNCHANGED <<depth, open, session>>]_vars
=============================================================================
