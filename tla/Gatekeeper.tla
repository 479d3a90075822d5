----------------------------- MODULE Gatekeeper -----------------------------
(***************************************************************************)
(* What the platform promises of the Agent runs of a project, whatever the *)
(* execution mode: one run at a time goes through the nodes in order, and  *)
(* gets past an approval node only once an approval of that kind has been  *)
(* granted to it, which happens while the run stands at that node.         *)
(***************************************************************************)
EXTENDS Naturals, Sequences

CONSTANTS
  LastNode,   \* the number of nodes of the workflow
  Gates       \* the approval nodes

VARIABLES
  done,       \* run -> the nodes it has done, counted from the first
  granted,    \* run -> the approval nodes granted to it
  live        \* the runs under way

gateVars == <<done, granted, live>>

Init == done = <<>> /\ granted = <<>> /\ live = {}

(* Every gate from the d-th node on and before the n-th is among grants.   *)
Passable(d, n, grants) == \A g \in Gates : d <= g /\ g < n => g \in grants

Start(n) ==
  LET k == Len(done) + 1 IN
  /\ Passable(0, n, {})
  /\ done' = Append(done, n)
  /\ granted' = Append(granted, {})
  /\ live' \in {{}, {k}}

(* A decision about the gate the run stands at, the nodes that follow and  *)
(* the end of the run may come in one step or in many.                     *)
Work(k, n, grants) ==
  /\ Passable(done[k], n, grants)
  /\ done' = [done EXCEPT ![k] = n]
  /\ granted' = [granted EXCEPT ![k] = grants]
  /\ live' \in {live, live \ {k}}

Next ==
  \/ \E k \in live :
       \E n \in done[k] .. LastNode, here \in SUBSET (Gates \cap {done[k]}) :
         Work(k, n, granted[k] \cup here)
  \/ live = {} /\ \E n \in 0 .. LastNode : Start(n)

Spec == Init /\ [][Next]_gateVars
=============================================================================
