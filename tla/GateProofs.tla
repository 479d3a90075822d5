----------------------------- MODULE GateProofs -----------------------------
(***************************************************************************)
(* The rows of Runs, changed by the API and by the workers of Worker, keep *)
(* the promise of Gatekeeper, for every value of the constants.            *)
(*                                                                         *)
(* A step that dispatches a run starts it or moves it on (Done); any other *)
(* at most ends one (Quiet).                                               *)
(*                                                                         *)
(* Where a worker runs the workflow, what happens to a run that waits is a *)
(* step of Decisions, which ApprovalLocks implements statement by          *)
(* statement.                                                              *)
(***************************************************************************)
EXTENDS RunProofs

-----------------------------------------------------------------------------
(* The state of Gatekeeper, as the mapping of Worker reads it off the rows *)

Progress == [k \in DOMAIN runs |-> Len(runs[k].steps)]
Grants == [k \in DOMAIN runs |-> {approvals[a].kind : a \in GrantedTo(k)}]
Live == {k \in DOMAIN runs : Going(k)}

(* Whoever granted an approval was independent, so any grant counts.       *)
GatesGranted(k, apps) == {g \in APPROVAL_NODES : Granted(k, g, apps) # {}}

LEMMA AnyGrantCounts ==
  ASSUME Inv, RunsGood
  PROVE  Grants = [k \in DOMAIN runs |-> GatesGranted(k, approvals)]
<1>1. \A a \in DOMAIN approvals : approvals[a].kind \in APPROVAL_NODES
                                  /\ approvals[a].run \in DOMAIN runs
  <2>1. approvals \in Seq(Approval) /\ Refers(approvals, DOMAIN runs)
    BY Rows
  <2>2. \A a \in DOMAIN approvals : approvals[a] \in Approval
    BY <2>1
  <2> QED
    BY <2>1, <2>2 DEF Refers, Approval
<1>2. ASSUME NEW k \in DOMAIN runs, NEW g, NEW a \in Granted(k, g, approvals)
      PROVE  Independent(a)
  BY DEF RunsGood, Good, GrantsIndependent, Granted, Independent, IndependentRow
<1>3. ASSUME NEW k \in DOMAIN runs
      PROVE  {approvals[a].kind : a \in GrantedTo(k)} = GatesGranted(k, approvals)
  BY <1>1, <1>2 DEF GrantedTo, Granted, GatesGranted
<1> QED
  BY <1>3 DEF Grants

LEMMA AnyGrantCountsNext ==
  ASSUME Inv', RunsGood'
  PROVE  Grants' = [k \in DOMAIN runs' |-> GatesGranted(k, approvals')]
<1>1. \A a \in DOMAIN approvals' : approvals'[a].kind \in APPROVAL_NODES
                                  /\ approvals'[a].run \in DOMAIN runs'
  <2>1. approvals' \in Seq(Approval) /\ Refers(approvals', DOMAIN runs')
    BY DEF Inv, TypeOK, RowsOK
  <2>2. \A a \in DOMAIN approvals' : approvals'[a] \in Approval
    BY <2>1
  <2> QED
    BY <2>1, <2>2 DEF Refers, Approval
<1>2. ASSUME NEW k \in DOMAIN runs', NEW g, NEW a \in Granted(k, g, approvals')
      PROVE  Independent(a)'
  BY DEF RunsGood, Good, GrantsIndependent, Granted, Independent, IndependentRow
<1>3. ASSUME NEW k \in DOMAIN runs'
      PROVE  {approvals'[a].kind : a \in GrantedTo(k)'} = GatesGranted(k, approvals')
  BY <1>1, <1>2 DEF GrantedTo, Granted, GatesGranted
<1> QED
  BY <1>3 DEF Grants

(* The run under way is the latest.                                        *)
LEMMA OneLive ==
  ASSUME Inv
  PROVE  \A k \in Live : k = Len(runs) /\ Live = {k}
BY DEF Inv, OneActiveRun, Live, Latest

(* A run has done at most all nodes.                                       *)
LEMMA ProgressBound ==
  ASSUME Inv, RunsGood, NEW k \in DOMAIN runs
  PROVE  Len(runs[k].steps) \in 0 .. 17
<1> DEFINE len == Len(runs[k].steps)
<1>1. runs[k].steps \in Seq(Nodes) /\ InOrder(runs[k])
  BY Rows DEF RunsGood, Good, Run
<1>2. len \in Nat /\ (len = 0 \/ (runs[k].steps[len] \in Nodes /\ runs[k].steps[len] = len))
  BY <1>1, LenProperties DEF InOrder
<1> HIDE DEF len
<1>3. len \in 0 .. 17
  BY <1>2 DEF Nodes
<1> QED
  BY <1>3 DEF len

-----------------------------------------------------------------------------
(* Steps of Gatekeeper, said of the rows *)

LEMMA Works ==
  ASSUME Inv, RunsGood, Inv', RunsGood', NEW k \in Live, DOMAIN runs' = DOMAIN runs,
         Len(runs'[k].steps) \in Len(runs[k].steps) .. 17,
         \A i \in DOMAIN runs : i # k => runs'[i].steps = runs[i].steps,
         \A i \in DOMAIN runs, g \in APPROVAL_NODES :
           (i # k \/ g # Len(runs[k].steps)) =>
             Granted(i, g, approvals') = Granted(i, g, approvals),
         \A g : Granted(k, g, approvals) \subseteq Granted(k, g, approvals'),
         Live' \subseteq Live,
         \A g \in APPROVAL_NODES :
           Len(runs[k].steps) <= g /\ g < Len(runs'[k].steps) => Granted(k, g, approvals') # {}
  PROVE  Gatekeeping!Next
<1> DEFINE n    == Len(runs'[k].steps)
           here == APPROVAL_NODES \cap {Len(runs[k].steps)} \cap GatesGranted(k, approvals')
<1>1. k \in DOMAIN runs
  BY DEF Live
<1>2. Progress' = [Progress EXCEPT ![k] = n]
  BY <1>1 DEF Progress
<1>3. Grants = [i \in DOMAIN runs |-> GatesGranted(i, approvals)]
  BY AnyGrantCounts
<1>4. Grants' = [i \in DOMAIN runs |-> GatesGranted(i, approvals')]
  BY AnyGrantCountsNext
<1>5. \A i \in DOMAIN runs : i # k => GatesGranted(i, approvals') = GatesGranted(i, approvals)
  BY DEF GatesGranted
<1>6. GatesGranted(k, approvals') = GatesGranted(k, approvals) \cup here
  BY <1>1 DEF GatesGranted
<1>7. Grants' = [Grants EXCEPT ![k] = Grants[k] \cup here]
  BY <1>1, <1>3, <1>4, <1>5, <1>6
<1>8. Live' \in {Live, Live \ {k}}
  <2>1. Live = {k}
    BY OneLive
  <2>2. Live' = {k} \/ Live' = {}
    BY <2>1
  <2> QED
    BY <2>1, <2>2
<1>9. \A g \in APPROVAL_NODES : Progress[k] <= g /\ g < n => g \in Grants[k] \cup here
  <2>1. \A g \in APPROVAL_NODES : Progress[k] <= g /\ g < n => g \in GatesGranted(k, approvals')
    BY <1>1 DEF GatesGranted, Progress
  <2> QED
    BY <1>1, <1>3, <1>6, <2>1
<1>10. /\ k \in DOMAIN Progress /\ n \in Progress[k] .. CloseProject
       /\ here \in SUBSET (APPROVAL_NODES \cap {Progress[k]})
  BY <1>1 DEF Progress, CloseProject
<1> HIDE DEF n, here
<1>11. Gatekeeping!Work(k, n, Grants[k] \cup here)
  BY <1>2, <1>7, <1>8, <1>9 DEF Gatekeeping!Work, Gatekeeping!Passable, Progress, Grants, Live,
     APPROVAL_NODES
<1> QED
  BY <1>10, <1>11 DEF Gatekeeping!Next, Progress, Grants, Live, APPROVAL_NODES

-----------------------------------------------------------------------------
(* Steps that dispatch nothing *)

LEMMA QuietGates ==
  ASSUME Inv, RunsGood, Inv', RunsGood', Quiet
  PROVE  Gatekeeping!Next \/ UNCHANGED <<Progress, Grants, Live>>
<1>1. /\ DOMAIN runs' = DOMAIN runs
      /\ \A k \in DOMAIN runs : runs'[k].steps = runs[k].steps
      /\ \A k, g : Granted(k, g, approvals') = Granted(k, g, approvals)
  BY DEF Quiet
<1>2. Progress' = Progress
  BY <1>1 DEF Progress
<1>3. Grants' = Grants
  <2>1. \A k \in DOMAIN runs : GatesGranted(k, approvals') = GatesGranted(k, approvals)
    BY <1>1 DEF GatesGranted
  <2>2. /\ Grants = [k \in DOMAIN runs |-> GatesGranted(k, approvals)]
        /\ Grants' = [k \in DOMAIN runs' |-> GatesGranted(k, approvals')]
    BY AnyGrantCounts, AnyGrantCountsNext
  <2> QED
    BY <1>1, <2>1, <2>2
<1>4. Live' \subseteq Live
  BY DEF Quiet, Live, Going, Active
<1>5. ASSUME NEW k \in Live PROVE Gatekeeping!Next
  <2>1. Len(runs[k].steps) \in 0 .. 17 /\ k \in DOMAIN runs
    BY ProgressBound DEF Live
  <2>2. Len(runs'[k].steps) \in Len(runs[k].steps) .. 17
    <3>1. \A len \in 0 .. 17 : len \in len .. 17
      OBVIOUS
    <3> QED
      BY <1>1, <2>1, <3>1
  <2>3. \A g \in APPROVAL_NODES : ~(Len(runs[k].steps) <= g /\ g < Len(runs'[k].steps))
    BY <1>1, <2>1 DEF APPROVAL_NODES, PlanApproval, ConfigurationApproval, ImportApproval,
       AcceptanceApproval
  <2> QED
    BY <1>1, <1>4, <2>2, <2>3, Works
<1> QED
  BY <1>2, <1>3, <1>4, <1>5

-----------------------------------------------------------------------------
(* Steps that dispatch *)

(* A new run stops before the first gate or at it, and has been granted    *)
(* nothing yet.                                                            *)
LEMMA StartGates ==
  ASSUME Inv, RunsGood, Inv', RunsGood', NEW k, NEW r, NEW apps, NEW jbs, NEW last,
         Done(k, r, apps, jbs, last), k \notin DOMAIN runs
  PROVE  Gatekeeping!Next
<1> DEFINE n == Len(runs'[k].steps)
<1>1. /\ OnlyRun(k) /\ k \in DOMAIN runs' /\ \A i \in DOMAIN runs' : i <= k
      /\ Len(r.steps) = 0 /\ last \in 0 .. 17 /\ n \in 0 .. 17 /\ n <= last
      /\ \A m \in 1 .. last - 1 : m \notin APPROVAL_NODES
  <2>1. /\ Len(r.steps) = 0 /\ last \in Len(r.steps) .. 17 /\ n \in Len(r.steps) .. 17
        /\ (n = last \/ (n = last - 1 /\ last = ValidateImportFiles))
        /\ \A m \in Len(r.steps) + 1 .. last - 1 : m \notin APPROVAL_NODES
    BY DEF Done
  <2>2. last \in 0 .. 17 /\ n \in 0 .. 17 /\ (n = last \/ n = last - 1)
    BY <2>1
  <2> HIDE DEF n
  <2>3. n <= last /\ \A m \in 1 .. last - 1 : m \notin APPROVAL_NODES
    BY <2>1, <2>2
  <2> QED
    BY <2>1, <2>2, <2>3 DEF Done, n
<1>2. /\ k = Len(runs) + 1 /\ Len(runs) \in Nat /\ DOMAIN runs = 1 .. Len(runs)
      /\ Len(runs') = k /\ DOMAIN runs' = 1 .. k
  <2>1. DOMAIN runs' = DOMAIN runs \cup {k} /\ runs' \in Seq(Run)
    BY <1>1 DEF OnlyRun
  <2>2. DOMAIN runs = 1 .. Len(runs) /\ Len(runs) \in Nat
    BY Rows
  <2>3. DOMAIN runs' = 1 .. Len(runs') /\ Len(runs') \in Nat
    BY <2>1, LenProperties
  <2>4. k = Len(runs') /\ k \in Nat
    <3>1. Len(runs') \in DOMAIN runs'
      BY <1>1, <2>3
    <3> QED
      BY <1>1, <2>3, <3>1
  <2>5. k = Len(runs) + 1
    <3>1. k \in Nat /\ k > Len(runs) /\ k >= 1
      BY <1>1, <2>2, <2>3
    <3>2. k # Len(runs) + 1 => k - 1 \in DOMAIN runs' /\ k - 1 \notin DOMAIN runs
      <4>1. \A a, b \in Nat : (b > a /\ b # a + 1) => (b - 1 \in 1 .. b /\ b - 1 \notin 1 .. a)
        OBVIOUS
      <4> QED
        BY <2>2, <2>3, <2>4, <3>1, <4>1
    <3>3. k # Len(runs) + 1 => k - 1 \notin DOMAIN runs'
      BY <2>1, <3>1, <3>2
    <3> QED
      BY <3>2, <3>3
  <2> QED
    BY <2>2, <2>3, <2>4, <2>5
<1>3. \A i \in DOMAIN runs : i # k /\ runs'[i] = runs[i]
  BY <1>1, <1>2 DEF OnlyRun
<1>4. Live = {} /\ Live' \in {{}, {k}}
  <2>1. \A i \in Live' : i = k
    BY <1>2 DEF Inv, OneActiveRun, Live, Latest
  <2>2. \A i \in Live : i \in Live'
    BY <1>2, <1>3 DEF Live, Going
  <2> QED
    BY <1>3, <2>1, <2>2 DEF Live
<1>5. Progress' = Append(Progress, n)
  BY <1>2, <1>3 DEF Progress
<1>6. Grants' = Append(Grants, {})
  <2>1. \A i \in DOMAIN runs : \A g : Granted(i, g, approvals') = Granted(i, g, approvals)
    BY <1>3 DEF Done
  <2>2. \A i \in DOMAIN runs : GatesGranted(i, approvals') = GatesGranted(i, approvals)
    BY <2>1 DEF GatesGranted
  <2>3. \A g \in APPROVAL_NODES : Granted(k, g, approvals') = {}
    <3>1. \A g \in APPROVAL_NODES : g # 0
      BY DEF APPROVAL_NODES, PlanApproval, ConfigurationApproval, ImportApproval,
         AcceptanceApproval
    <3>2. \A g \in APPROVAL_NODES : Granted(k, g, approvals') = Granted(k, g, approvals)
      BY <1>1, <3>1 DEF Done
    <3>3. \A g : Granted(k, g, approvals) = {}
      BY <1>2, Rows DEF Refers, Granted
    <3> QED
      BY <3>2, <3>3
  <2>4. GatesGranted(k, approvals') = {}
    BY <2>3 DEF GatesGranted
  <2>5. Grants = [i \in 1 .. Len(runs) |-> GatesGranted(i, approvals)]
    BY <1>2, AnyGrantCounts
  <2>6. Grants' = [i \in 1 .. k |-> GatesGranted(i, approvals')]
    BY <1>2, AnyGrantCountsNext
  <2> QED
    BY <1>2, <2>2, <2>4, <2>5, <2>6
<1>7. \A g \in APPROVAL_NODES : ~(0 <= g /\ g < n)
  <2> HIDE DEF n
  <2>1. \A g \in APPROVAL_NODES : g \in Nat /\ g >= 1
    BY DEF APPROVAL_NODES, PlanApproval, ConfigurationApproval, ImportApproval, AcceptanceApproval
  <2> QED
    BY <1>1, <2>1
<1>8. Len(Progress) + 1 = k
  BY <1>2 DEF Progress
<1>9. PICK m \in 0 .. CloseProject : m = n
  BY <1>1 DEF CloseProject
<1> HIDE DEF n
<1>10. Gatekeeping!Start(m)
  BY <1>4, <1>5, <1>6, <1>7, <1>8, <1>9
     DEF Gatekeeping!Start, Gatekeeping!Passable, Progress, Grants, Live, APPROVAL_NODES
<1> QED
  BY <1>4, <1>9, <1>10 DEF Gatekeeping!Next, Live

(* The run under way stops before the next gate, or at it; the gate it     *)
(* stood at may have been granted to it just now.                          *)
LEMMA MoveGates ==
  ASSUME Inv, RunsGood, Inv', RunsGood', NEW k, NEW r, NEW apps, NEW jbs, NEW last,
         Done(k, r, apps, jbs, last), k \in DOMAIN runs
  PROVE  Gatekeeping!Next
<1>1. /\ DOMAIN runs' = DOMAIN runs /\ \A i \in DOMAIN runs : i # k => runs'[i] = runs[i]
      /\ Active(runs[k]) /\ r.steps = runs[k].steps
      /\ Len(runs'[k].steps) \in Len(runs[k].steps) .. 17
  BY DEF Done, OnlyRun
<1>2. k \in Live /\ Live' \subseteq Live
  BY <1>1 DEF Live, Going, Active
<1>3. \A i \in DOMAIN runs, g \in APPROVAL_NODES :
        (i # k \/ g # Len(runs[k].steps)) =>
          Granted(i, g, approvals') = Granted(i, g, approvals)
  BY <1>1 DEF Done
<1>4. \A g : Granted(k, g, approvals) \subseteq Granted(k, g, approvals')
  BY DEF Done
<1>5. \A g \in APPROVAL_NODES : g < Len(runs'[k].steps) => Granted(k, g, approvals') # {}
  BY <1>1 DEF RunsGood, Good, GatesPassed, Behind
<1> QED
  BY <1>1, <1>2, <1>3, <1>4, <1>5, Works

-----------------------------------------------------------------------------
(* The theorem *)

(* In both execution modes, whatever is delivered twice, crashes or is     *)
(* retried, a project has one run under way, which moves past a gate only  *)
(* when someone independent has granted it while the run stood there       *)
(* (advance, resume, decide, require_receipt).                             *)
THEOREM ImplementsGatekeeper == Spec => GatesKept
<1>1. Init => Gatekeeping!Init
  <2> SUFFICES ASSUME Init PROVE Gatekeeping!Init
    OBVIOUS
  <2>1. runs = <<>> /\ DOMAIN runs = {}
    BY DEF Init, RunsInit
  <2> QED
    BY <2>1 DEF Gatekeeping!Init
<1>2. Inv /\ RunsGood /\ Inv' /\ RunsGood' /\ Warranted /\ [Next]_vars
        => [Gatekeeping!Next]_(Gatekeeping!gateVars)
  <2> SUFFICES ASSUME Inv, RunsGood, Inv', RunsGood', Warranted, [Next]_vars
               PROVE  Gatekeeping!Next \/ UNCHANGED <<Progress, Grants, Live>>
    BY DEF Gatekeeping!gateVars, Progress, Grants, Live, APPROVAL_NODES
  <2>1. CASE Quiet
    BY <2>1, QuietGates
  <2>2. CASE Dispatches
    <3>1. PICK k, r, loaded, p, apps, jbs :
            Hand(k, r, loaded, p, apps, jbs) /\ HandedOn(k, r, loaded, p, apps, jbs)
      BY <2>2 DEF Dispatches
    <3>2. PICK last \in 0 .. 17 : Effect(k, r, apps, jbs, last)
      BY <3>1, Rows, HandedEffect
    <3>3. Done(k, r, apps, jbs, last)
      BY <3>1, <3>2, NextKeeps, EffectDone DEF Warranted
    <3> QED
      BY <3>3, StartGates, MoveGates
  <2> QED
    BY <2>1, <2>2, DispatchesOrQuiet
<1> QED
  BY <1>1, <1>2, GoodAlways, WarrantedAlways, PTL DEF Spec, GatesKept, Gatekeeping!Spec

-----------------------------------------------------------------------------
(* The latest run, while it waits, as Decisions sees it *)

LatestDecisions == INSTANCE Decisions WITH
  run       <- runs[Len(runs)].status,
  approvals <- [a \in DOMAIN approvals |-> approvals[a].status]

Statuses == [a \in DOMAIN approvals |-> approvals[a].status]
Waiting == Latest > 0 /\ runs[Latest].status = "waiting_approval"
Closing(status) ==
  [a \in DOMAIN approvals |->
     IF approvals[a].status = "pending" THEN status ELSE approvals[a].status]

(* The statuses of the latest run and of the approvals are left alone.     *)
Stutters == runs'[Len(runs')].status = runs[Len(runs)].status /\ Statuses' = Statuses

(* One step of Decisions, said of the rows.                                *)
LEMMA DecisionSteps ==
  ASSUME Waiting, NEW status, runs'[Len(runs')].status = status,
         \/ status = "running" /\ Statuses' = Closing("approved")
         \/ status = "failed" /\ Statuses' = Closing("rejected")
         \/ status = "waiting_approval" /\ Statuses' = Append(Closing("cancelled"), "pending")
         \/ status = "cancelled" /\ Statuses' = Closing("cancelled")
  PROVE  LatestDecisions!Next
<1>1. \A s : LatestDecisions!Closed(s) = Closing(s)
  BY DEF LatestDecisions!Closed, Closing
<1>2. runs[Len(runs)].status = "waiting_approval"
  BY DEF Waiting, Latest
<1> QED
  BY <1>1, <1>2 DEF LatestDecisions!Next, LatestDecisions!Approve, LatestDecisions!Reject,
     LatestDecisions!Revise, LatestDecisions!Cancel, Statuses

(* Of all approvals of the project, one is pending while a run waits.      *)
LEMMA OnePending ==
  ASSUME Inv, RunsGood, Waiting
  PROVE  /\ Len(runs) \in DOMAIN runs /\ Going(Len(runs))
         /\ \A k \in DOMAIN runs : Going(k) => k = Len(runs)
         /\ OpenIn(Len(runs), approvals) = {runs[Len(runs)].state.pending}
         /\ \A a \in DOMAIN approvals :
              approvals[a].status = "pending" <=> a = runs[Len(runs)].state.pending
         /\ runs[Len(runs)].state.pending \in DOMAIN approvals
<1>1. Len(runs) \in DOMAIN runs /\ runs[Len(runs)].status = "waiting_approval"
  BY Rows DEF Waiting, Latest
<1>2. Going(Len(runs)) /\ \A k \in DOMAIN runs : Going(k) => k = Len(runs)
  BY <1>1 DEF Inv, OneActiveRun, Going, ActiveStatuses, Latest
<1>3. OpenIn(Len(runs), approvals) = {runs[Len(runs)].state.pending}
  BY <1>1 DEF RunsGood, Good, Awaits
<1>4. ASSUME NEW a \in DOMAIN approvals, approvals[a].status = "pending"
      PROVE  approvals[a].run = Len(runs)
  <2>1. approvals[a].run \in DOMAIN runs
    BY Rows DEF Refers
  <2>2. a \in OpenIn(approvals[a].run, approvals)
    BY <1>4 DEF OpenIn
  <2>3. runs[approvals[a].run].status = "waiting_approval"
    BY <2>1, <2>2 DEF RunsGood, Good, Awaits
  <2> QED
    BY <1>2, <2>1, <2>3 DEF Going, ActiveStatuses
<1> QED
  BY <1>1, <1>2, <1>3, <1>4 DEF OpenIn

(* A decision about a waiting run is about its one pending approval; a     *)
(* worker's event carries the rest.                                        *)
LEMMA DecideSteps ==
  ASSUME Inv, RunsGood, Waiting, ExecutionMode = "worker",
         NEW u \in Users, NEW a \in DOMAIN approvals, Approve(u, a) \/ Reject(u, a)
  PROVE  LatestDecisions!Next
<1> DEFINE k      == approvals[a].run
           status == IF Approve(u, a) THEN "running" ELSE "failed"
           answer == IF Approve(u, a) THEN "approved" ELSE "rejected"
<1>1. Decidable(u, a)
  BY DEF Approve, Reject
<1>2. k \in DOMAIN runs /\ runs[k].status = "waiting_approval" /\ approvals[a].status = "pending"
  BY <1>1, Rows DEF Decidable, Refers
<1>3. k = Len(runs)
  BY <1>2, OnePending DEF Going, ActiveStatuses
<1>4. PICK q \in Run : q.status = status /\ WriteRun(k, q) /\ approvals' = Decided(a, u, answer)
  <2>1. runs[k] \in Run /\ runs[k].state \in RunState
    BY <1>2, Rows DEF Run
  <2>2. ASSUME NEW s \in RunLifecycle
        PROVE  LET q == [Moved(runs[k], s) EXCEPT !.state.pending = 0]
               IN  q \in Run /\ q.status = s
    <3>1. /\ Moved(runs[k], s) \in Run /\ Moved(runs[k], s).state = runs[k].state
          /\ Moved(runs[k], s).status = s
      BY <2>1, MovedRunType
    <3> HIDE DEF k
    <3> QED
      BY <2>1, <3>1 DEF Run, RunState
  <2>3. {"running", "failed"} \subseteq RunLifecycle
    BY DEF RunLifecycle
  <2>4. CASE Approve(u, a)
    BY <2>2, <2>3, <2>4 DEF Approve, Dispatch
  <2>5. CASE ~Approve(u, a)
    BY <2>2, <2>3, <2>5 DEF Reject
  <2> QED
    BY <2>4, <2>5
<1>5. runs'[Len(runs')].status = status
  <2>1. OnlyRun(k) /\ runs'[k] = q
    BY <1>2, <1>4, Rows, WriteRunType
  <2>2. Len(runs') = Len(runs)
    BY <1>2, <2>1, Rows, LenProperties DEF OnlyRun
  <2> QED
    BY <1>3, <1>4, <2>1, <2>2
<1>6. Statuses' = Closing(answer)
  <2>1. /\ DOMAIN approvals' = DOMAIN approvals
        /\ \A b \in DOMAIN approvals :
             approvals'[b].status = IF b = a THEN answer ELSE approvals[b].status
    <3>1. \A b \in DOMAIN approvals : approvals[b] \in Approval
      BY Rows
    <3> HIDE DEF answer
    <3> QED
      BY <1>4, <3>1 DEF Decided, Approval
  <2>2. \A b \in DOMAIN approvals : approvals[b].status = "pending" <=> b = a
    BY <1>2, OnePending
  <2> HIDE DEF answer
  <2> QED
    BY <2>1, <2>2 DEF Statuses, Closing
<1> HIDE DEF k
<1> QED
  BY <1>5, <1>6, DecisionSteps

(* A revised proposal takes the place of the one that waits; a             *)
(* cancellation of the latest run closes it, of an older run nothing.      *)
LEMMA ReviseSteps ==
  ASSUME Inv, RunsGood, Waiting, NEW u \in Users, NEW k \in DOMAIN runs, NEW p \in Revisions,
         ReviseConfiguration(u, k, p)
  PROVE  LatestDecisions!Next
<1> DEFINE old == runs[k].state.pending
<1>1. runs[k].status = "waiting_approval" /\ old \in DOMAIN approvals
  BY DEF ReviseConfiguration
<1>2. k = Len(runs)
  BY <1>1, OnePending DEF Going, ActiveStatuses
<1>3. PICK row :
        approvals' = Append([approvals EXCEPT ![old].status = "cancelled", ![old].version = @ + 1], row)
        /\ row.status = "pending"
  BY DEF ReviseConfiguration, OpenApproval
<1>4. runs'[Len(runs')].status = "waiting_approval"
  <2>1. PICK s : runs' = [runs EXCEPT ![k].state = s, ![k].version = @ + 1]
    BY DEF ReviseConfiguration
  <2>2. runs[k] \in Run /\ runs \in Seq(Run)
    BY Rows
  <2>3. runs'[k].status = runs[k].status
    BY <2>1, <2>2 DEF Run
  <2>4. Len(runs') = Len(runs)
    BY <2>1, <2>2
  <2> QED
    BY <1>1, <1>2, <2>3, <2>4
<1>5. Statuses' = Append(Closing("cancelled"), "pending")
  <2> DEFINE apps == [approvals EXCEPT ![old].status = "cancelled", ![old].version = @ + 1]
             len  == Len(approvals)
  <2>1. len \in Nat /\ DOMAIN approvals = 1 .. len
    BY Rows
  <2>2. \A b \in DOMAIN approvals : approvals[b] \in Approval
    BY Rows
  <2>3. /\ DOMAIN apps = 1 .. len
        /\ \A b \in 1 .. len : apps[b].status = IF b = old THEN "cancelled" ELSE approvals[b].status
    BY <2>1, <2>2 DEF Approval
  <2>4. \A b \in DOMAIN approvals : approvals[b].status = "pending" <=> b = old
    BY <1>2, OnePending
  <2>5. approvals' = Append(apps, row)
    BY <1>3
  <2> HIDE DEF apps, len
  <2>6. Len(apps) = len /\ Len(Closing("cancelled")) = len
    BY <2>1, <2>3 DEF Closing
  <2>7. /\ DOMAIN approvals' = 1 .. len + 1
        /\ \A b \in 1 .. len : approvals'[b] = apps[b]
        /\ approvals'[len + 1] = row
    BY <2>1, <2>3, <2>5, <2>6
  <2>8. Append(Closing("cancelled"), "pending") =
          [b \in 1 .. len + 1 |-> IF b \in 1 .. len THEN Closing("cancelled")[b] ELSE "pending"]
    BY <2>1, <2>6 DEF Closing
  <2>9. \A b \in 1 .. len : Closing("cancelled")[b] = apps[b].status
    BY <2>1, <2>3, <2>4 DEF Closing
  <2>10. ASSUME NEW b \in 1 .. len + 1
         PROVE  approvals'[b].status = IF b \in 1 .. len THEN Closing("cancelled")[b] ELSE "pending"
    <3>1. CASE b \in 1 .. len
      BY <2>7, <2>9, <3>1
    <3>2. CASE b \notin 1 .. len
      <4>1. b = len + 1
        BY <2>1, <3>2
      <4> QED
        BY <1>3, <2>7, <3>2, <4>1
    <3> QED
      BY <3>1, <3>2
  <2> QED
    BY <2>7, <2>8, <2>10 DEF Statuses
<1> QED
  BY <1>4, <1>5, DecisionSteps

LEMMA CancelSteps ==
  ASSUME Inv, RunsGood, Waiting, NEW c \in Clients, CommitCancel(c)
  PROVE  LatestDecisions!Next \/ Stutters
<1> DEFINE k == req[c].target
<1>1. k \in DOMAIN runs
  BY DEF CommitCancel, Inv, TypeOK, ClientsOK
<1>2. /\ \A i \in DOMAIN runs : i # k => runs'[i] = runs[i]
      /\ runs'[k].status = "cancelled" /\ Len(runs') = Len(runs)
  <2>1. PICK v, s : runs' = [runs EXCEPT ![k].status = "cancelled", ![k].version = v, ![k].state = s]
    BY DEF CommitCancel
  <2>2. runs[k] \in Run /\ runs \in Seq(Run)
    BY <1>1, Rows
  <2> HIDE DEF k
  <2>3. runs'[k].status = "cancelled"
    BY <1>1, <2>1, <2>2 DEF Run
  <2>4. Len(runs') = Len(runs) /\ \A i \in DOMAIN runs : i # k => runs'[i] = runs[i]
    BY <2>1, <2>2
  <2> QED
    BY <2>3, <2>4
<1>3. /\ DOMAIN approvals' = DOMAIN approvals
      /\ \A a \in DOMAIN approvals :
           approvals'[a].status = IF a \in Open(k) THEN "cancelled" ELSE approvals[a].status
  <2>1. \A a \in DOMAIN approvals : approvals[a] \in Approval
    BY Rows
  <2>2. approvals' = Closed(k, req[c].user)
    BY DEF CommitCancel
  <2> QED
    BY <2>1, <2>2 DEF Closed, Approval
<1> HIDE DEF k
<1>4. \A a \in DOMAIN approvals : a \in Open(Len(runs)) <=> approvals[a].status = "pending"
  BY OnePending DEF Open, OpenIn
<1>5. CASE k = Len(runs)
  <2>1. Statuses' = Closing("cancelled")
    BY <1>3, <1>4, <1>5 DEF Statuses, Closing
  <2> QED
    BY <1>2, <1>5, <2>1, DecisionSteps
<1>6. CASE k # Len(runs)
  <2>1. Open(k) = {}
    BY <1>4, <1>6 DEF Open
  <2>2. Statuses' = Statuses
    BY <1>3, <2>1 DEF Statuses
  <2> QED
    BY <1>2, <1>6, <2>2, OnePending DEF Stutters
<1> QED
  BY <1>5, <1>6

(* Nothing else can happen to a run that waits: not another start or       *)
(* retry, not an upload, not a step or a failure of a worker.              *)
LEMMA OthersLeaveWaiting ==
  ASSUME Inv, RunsGood, Waiting
  PROVE  /\ \A c \in Clients : ~CommitStart(c) /\ ~CommitRetry(c)
         /\ \A u \in Users, k \in DOMAIN runs, valid \in BOOLEAN :
              ValidateImport(u, k, valid) => UNCHANGED <<runs, approvals>>
         /\ \A w \in Workers : /\ ~StepNode(w) /\ ~StepDeleted(w)
                               /\ FailRun(w) => UNCHANGED <<runs, approvals>>
<1>1. /\ Latest > 0 /\ Latest = Len(runs) /\ runs[Latest].status = "waiting_approval"
      /\ Going(Latest)
  BY OnePending DEF Waiting, Latest
<1>2. ASSUME NEW c \in Clients PROVE ~CommitStart(c) /\ ~CommitRetry(c)
  BY <1>1 DEF CommitStart, CommitRetry, MayStart
<1>3. ASSUME NEW u \in Users, NEW k \in DOMAIN runs, NEW valid \in BOOLEAN,
             ValidateImport(u, k, valid)
      PROVE  UNCHANGED <<runs, approvals>>
  <2>1. runs[k].status = "preparing_materials"
    BY <1>3 DEF ValidateImport
  <2>2. k = Len(runs)
    BY <2>1, OnePending DEF Going, ActiveStatuses
  <2> QED
    BY <1>1, <2>1, <2>2
<1>4. ASSUME NEW w \in Workers, ~At(w, "idle") PROVE ~Executing(EventOf(w).run)
  <2>1. Executing(EventOf(w).run) => EventOf(w).run = Len(runs)
    BY <1>4, HeldRun
  <2>2. ~Executing(Len(runs))
    BY <1>1 DEF Executing
  <2> QED
    BY <2>1, <2>2
<1>5. ASSUME NEW w \in Workers
      PROVE  /\ ~StepNode(w) /\ ~StepDeleted(w)
             /\ FailRun(w) => UNCHANGED <<runs, approvals>>
  BY <1>4 DEF StepNode, StepDeleted, FailRun, At
<1> QED
  BY <1>2, <1>3, <1>5

(* Where workers run the workflow, what happens to a run that waits is one *)
(* decision, revision or cancellation about its one pending approval: the  *)
(* rows of Runs take the very steps of Decisions that the handlers of      *)
(* ApprovalLocks, statement by statement, come down to (decide,            *)
(* revise_configuration, cancel_run).  So a transaction of Runs may stand  *)
(* for what ApprovalLocks leaves when it commits.                          *)
THEOREM WaitingRunsAreDecidedAtomically ==
  Spec => [][ExecutionMode = "worker" /\ Waiting =>
               [LatestDecisions!Next]_(LatestDecisions!decisionVars)]_vars
<1>1. ASSUME Inv, RunsGood, ExecutionMode = "worker", Waiting, [Next]_vars
      PROVE  LatestDecisions!Next \/ Stutters
  <2>1. CASE UNCHANGED <<runs, approvals>>
    BY <2>1 DEF Stutters, Statuses
  <2>2. CASE RunsNext
    <3>1. ASSUME NEW c \in Clients, NEW u \in Users
          PROVE  /\ BeginStart(c, u) => UNCHANGED <<runs, approvals>>
                 /\ \A k : BeginCancel(c, u, k) => UNCHANGED <<runs, approvals>>
                 /\ \A j : BeginRetry(c, u, j) => UNCHANGED <<runs, approvals>>
      BY DEF BeginStart, BeginCancel, BeginRetry, dbVars
    <3>2. ASSUME NEW u \in Users, NEW j, NEW a, NEW result
          PROVE  /\ ExecuteJob(u, j, a, result) => UNCHANGED <<runs, approvals>>
                 /\ ReviseMaterials(u, a) => UNCHANGED <<runs, approvals>>
                 /\ DeleteProject(u) => UNCHANGED <<runs, approvals>>
                 /\ RestoreProject(u) => UNCHANGED <<runs, approvals>>
                 /\ ChangeAccess(u, a) => UNCHANGED <<runs, approvals>>
      BY DEF ExecuteJob, ReviseMaterials, DeleteProject, RestoreProject, ChangeAccess, dbVars
    <3>3. ASSUME NEW c \in Clients PROVE Abandon(c) => UNCHANGED <<runs, approvals>>
      BY DEF Abandon, dbVars
    <3>4. \A u \in Users, k \in DOMAIN runs, valid \in BOOLEAN :
            ValidateImport(u, k, valid) => UNCHANGED <<runs, approvals>>
      BY <1>1, OthersLeaveWaiting
    <3>5. \A c \in Clients : ~CommitStart(c) /\ ~CommitRetry(c)
      BY <1>1, OthersLeaveWaiting
    <3>6. /\ \A u \in Users, a \in DOMAIN approvals :
               Approve(u, a) \/ Reject(u, a) => LatestDecisions!Next
          /\ \A u \in Users, k \in DOMAIN runs, p \in Revisions :
               ReviseConfiguration(u, k, p) => LatestDecisions!Next
          /\ \A c \in Clients : CommitCancel(c) => LatestDecisions!Next \/ Stutters
      BY <1>1, DecideSteps, ReviseSteps, CancelSteps
    <3> QED
      BY <2>1, <2>2, <3>1, <3>2, <3>3, <3>4, <3>5, <3>6 DEF RunsNext
  <2>3. CASE WorkerNext
    <3>1. ASSUME NEW w, NEW e
          PROVE  /\ Publish(e) \/ Lose(e) => UNCHANGED <<runs, approvals>>
                 /\ Receive(w, e) => UNCHANGED <<runs, approvals>>
      BY DEF Publish, Lose, Receive, Take, TakeRefused, Skip, runsVars
    <3>2. ASSUME NEW w \in Workers, NEW http \in BOOLEAN
          PROVE  /\ StepStopped(w) => UNCHANGED <<runs, approvals>>
                 /\ StepRetried(w) \/ StepFails(w, http) => UNCHANGED <<runs, approvals>>
                 /\ CommitFailed(w) \/ CommitDone(w) \/ Crash(w) => UNCHANGED <<runs, approvals>>
      BY DEF StepStopped, StepRetried, StepFails, CommitFailed, CommitDone, Crash, runsVars
    <3>3. \A w \in Workers : /\ ~StepNode(w) /\ ~StepDeleted(w)
                             /\ FailRun(w) => UNCHANGED <<runs, approvals>>
      BY <1>1, OthersLeaveWaiting
    <3> QED
      BY <2>1, <2>3, <3>1, <3>2, <3>3 DEF WorkerNext, WorkerStep
  <2> QED
    BY <1>1, <2>1, <2>2, <2>3 DEF Next, vars
<1>2. Inv /\ RunsGood /\ [Next]_vars =>
        [ExecutionMode = "worker" /\ Waiting =>
           [LatestDecisions!Next]_(LatestDecisions!decisionVars)]_vars
  <2>1. Stutters => UNCHANGED LatestDecisions!decisionVars
    BY DEF Stutters, Statuses, LatestDecisions!decisionVars
  <2> QED
    BY <1>1, <2>1
<1> QED
  BY <1>2, GoodAlways, PTL DEF Spec
=============================================================================
