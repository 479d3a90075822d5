------------------------------ MODULE Decisions ------------------------------
(***************************************************************************)
(* What a run that waits for an approval promises: a decision, a           *)
(* cancellation or a revised proposal takes effect as a whole or not at    *)
(* all, each about the one open approval of the run.                       *)
(***************************************************************************)
EXTENDS Naturals, Sequences

VARIABLES run, approvals     \* status of the run, statuses of its approvals

decisionVars == <<run, approvals>>

Init == run = "waiting_approval" /\ approvals = <<"pending">>

Closed(status) ==
  [a \in DOMAIN approvals |-> IF approvals[a] = "pending" THEN status ELSE approvals[a]]

Approve == run = "waiting_approval" /\ run' = "running" /\ approvals' = Closed("approved")
Reject == run = "waiting_approval" /\ run' = "failed" /\ approvals' = Closed("rejected")
Revise == /\ run = "waiting_approval" /\ UNCHANGED run
          /\ approvals' = Append(Closed("cancelled"), "pending")
Cancel == run' = "cancelled" /\ approvals' = Closed("cancelled")

Next == Approve \/ Reject \/ Revise \/ Cancel

Spec == Init /\ [][Next]_decisionVars
=============================================================================
