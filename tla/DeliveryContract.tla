-------------------------- MODULE DeliveryContract --------------------------
(***************************************************************************)
(* What webhook delivery promises about one event, without its writers,    *)
(* copies, passes and crashes: the log is announced once, and from then on *)
(* its status changes with an answer only, to a verdict that the answers   *)
(* given so far justify.  A verdict is not final, since a log can be sent  *)
(* again by hand.  Answers are counted up to MaxAttempts, which is as far  *)
(* as a verdict looks.                                                     *)
(***************************************************************************)
EXTENDS Naturals

CONSTANTS Logs, MaxAttempts

VARIABLES status, posts, accepted

vars == <<status, posts, accepted>>

Verdicts == {"retrying", "delivered", "failed"}

Init ==
  /\ status = [l \in Logs |-> "absent"]
  /\ posts = [l \in Logs |-> 0]
  /\ accepted = {}

Announce(l) ==
  /\ status[l] = "absent"
  /\ status' = [status EXCEPT ![l] = "pending"]
  /\ UNCHANGED <<posts, accepted>>

\* The verdict of a log with so many answers, among them an accepting one or not.
Justified(l, verdict, count, yes) ==
  /\ verdict \in Verdicts
  /\ verdict = "delivered" => l \in yes
  /\ verdict = "failed" => count >= MaxAttempts

\* The merchant answers for l; verdicts that were due, also of other logs, are
\* shown by then.
Answer(l, ok) ==
  /\ status[l] # "absent"
  /\ posts' = [posts EXCEPT ![l] = IF @ < MaxAttempts THEN @ + 1 ELSE @]
  /\ accepted' = IF ok THEN accepted \cup {l} ELSE accepted
  /\ status' \in [Logs -> {"absent", "pending"} \cup Verdicts]
  /\ \A k \in Logs :
       \/ status'[k] = status[k]
       \/ status[k] # "absent" /\ Justified(k, status'[k], posts'[k], accepted')

Next == \E l \in Logs : Announce(l) \/ \E ok \in BOOLEAN : Answer(l, ok)

Spec == Init /\ [][Next]_vars
=============================================================================
