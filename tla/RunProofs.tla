------------------------------ MODULE RunProofs ------------------------------
(***************************************************************************)
(* Proofs about the rows of Runs, for every value of the constants: nodes  *)
(* run once and in order, a run waits for exactly one approval, and what   *)
(* takes effect was approved by someone independent.                       *)
(*                                                                         *)
(* What a run must satisfy is a predicate of its row and of its approvals  *)
(* (Good), so that it can also be said of the row a transaction has in     *)
(* hand before it writes it back.  Every step writes one run at most.      *)
(***************************************************************************)
EXTENDS WorkerProofs

-----------------------------------------------------------------------------
(* The inductive invariant *)

Active(r) == r.status \in ActiveStatuses

(* The nodes of a run are done in order, and a run under way resumes       *)
(* after the last of them; one that waits stands at it.                    *)
InOrder(r) ==
  /\ \A i \in DOMAIN r.steps : r.steps[i] = i
  /\ Active(r) => /\ StartIndex(r.state) = Len(r.steps) + 1
                  /\ r.state.completed \subseteq 1 .. Len(r.steps)
  /\ r.status = "waiting_approval" => r.node = Len(r.steps)
  /\ r.status = "preparing_materials" => Len(r.steps) = ValidateImportFiles - 1

OpenIn(k, apps) == {a \in DOMAIN apps : apps[a].run = k /\ apps[a].status = "pending"}

Awaits(k, r, apps) ==
  IF r.status = "waiting_approval"
  THEN /\ OpenIn(k, apps) = {r.state.pending}
       /\ apps[r.state.pending].kind = r.node
       /\ apps[r.state.pending].material = Material(r.node, r.state)
  ELSE OpenIn(k, apps) = {}

(* Whoever decided the approval is neither who asked nor who started.      *)
IndependentRow(app, starter) ==
  Personal(app.decidedBy) \/ (app.decidedBy # starter /\ app.decidedBy # app.requestedBy)

GrantsIndependent(k, r, apps) ==
  \A a \in DOMAIN apps :
    apps[a].run = k /\ apps[a].status = "approved" => IndependentRow(apps[a], r.startedBy)

(* The gates behind a run, and the one it has just been let through.       *)
Behind(g, r) ==
  g < Len(r.steps) \/ (g = Len(r.steps) /\ Active(r) /\ r.status # "waiting_approval")
GatesPassed(k, r, apps) ==
  \A g \in APPROVAL_NODES : Behind(g, r) => Granted(k, g, apps) # {}

(* A run under way was let through each gate behind it once, and for the   *)
(* material it still has; it was granted nothing ahead of time.            *)
GrantsFit(k, r, apps) ==
  Active(r) => \A g \in APPROVAL_NODES :
    /\ Behind(g, r) => \E a \in DOMAIN apps : /\ Granted(k, g, apps) = {a}
                                            /\ apps[a].material = Material(g, r.state)
    /\ ~Behind(g, r) => Granted(k, g, apps) = {}

Good(k, r, apps) ==
  /\ InOrder(r) /\ Awaits(k, r, apps)
  /\ GrantsIndependent(k, r, apps) /\ GatesPassed(k, r, apps) /\ GrantsFit(k, r, apps)

RunsGood == \A k \in DOMAIN runs : Good(k, runs[k], approvals)

(* The job of a run under way is its own.                                  *)
JobOwned(k, r, jbs) == Active(r) /\ r.state.job # 0 => r.state.job \in DOMAIN jbs /\ jbs[r.state.job].run = k
JobsOwned == \A k \in DOMAIN runs : JobOwned(k, runs[k], jobs)

(* What an import came to holds still: the workspace has the proposal it   *)
(* was executed under.                                                     *)
Current(j, jbs, applied) == jbs[j].result # "none" /\ jbs[j].under = applied

(* A run past its import has executed its job for what is in the workspace. *)
ImportCurrent(r, jbs, applied) ==
  Active(r) /\ Len(r.steps) >= ExecuteImport /\ r.state.job # 0 =>
    Current(r.state.job, jbs, applied)
ImportsCurrent == \A k \in DOMAIN runs : ImportCurrent(runs[k], jobs, workspace.applied)

Imported(k, jbs, applied) ==
  \E j \in DOMAIN jbs :
    jbs[j].run = k /\ jbs[j].result = "completed" /\ jbs[j].under = applied

(* A run past its go-live checks has imported what the documents ask for,  *)
(* or its project has been blocked since.                                  *)
StillReady ==
  \A k \in DOMAIN runs :
    (/\ Active(runs[k]) /\ Len(runs[k].steps) >= RunGoLiveChecks
     /\ project.status = "in_progress" /\ project.migration) =>
       Imported(k, jobs, workspace.applied)

(* The run that completed a project has its import in full, for what is in *)
(* the workspace, until a later run applies its own configuration.         *)
Reconfigured(k) == \E i \in DOMAIN runs : i > k /\ Len(runs[i].steps) >= ApplyConfiguration
CompletedReady ==
  project.status = "completed" =>
    \E k \in DOMAIN runs :
      /\ Len(runs[k].steps) = CloseProject
      /\ project.migration => Imported(k, jobs, workspace.applied) \/ Reconfigured(k)

(* The workspace holds what the proposal of a run under way was made to    *)
(* replace, and once the run has applied it, the proposal.                 *)
ProposalFits(r, applied) ==
  Active(r) =>
    /\ Len(r.steps) \in {GenerateChanges, ConfigurationApproval} => applied = r.state.base
    /\ Len(r.steps) >= ApplyConfiguration => applied = r.state.config
ProposalsFit == \A k \in DOMAIN runs : ProposalFits(runs[k], workspace.applied)

(* What took effect was approved.                                          *)
Warranted ==
  /\ JobsOwned /\ ImportsApproved /\ ImportsCurrent /\ StillReady /\ CompletedReady
  /\ WorkspaceAsApproved /\ ProposalsFit

(* A step that writes no approval of another run, and opens none for it.   *)
SameElsewhere(k, before, after) ==
  /\ DOMAIN before \subseteq DOMAIN after
  /\ \A a \in DOMAIN after :
       IF a \in DOMAIN before /\ before[a].run # k THEN after[a] = before[a] ELSE after[a].run = k

-----------------------------------------------------------------------------
(* What advance leaves in the row of the run *)

(* The nodes from the first on up to the last recorded.                    *)
NewSteps(first, recorded) == [i \in 1 .. (recorded + 1 - first) |-> first + i - 1]

(* The row q of the run after a segment, from the row r before it.         *)
RanFrom(q, r, last, recorded, done, status, pending) ==
  /\ q.status = status /\ q.node = last /\ q.startedBy = r.startedBy
  /\ q.version = Moved(r, status).version
  /\ q.steps = r.steps \o NewSteps(StartIndex(r.state), recorded)
  /\ q.state.node = last /\ q.state.pending = pending
  /\ q.state.job = r.state.job
  /\ q.state.completed = r.state.completed \cup (StartIndex(r.state) .. done)
  /\ q.state.config = StateThrough(r.state, last, done, workspace.applied).config
  /\ q.state.base = StateThrough(r.state, last, done, workspace.applied).base

LEMMA RanFields ==
  ASSUME NEW r \in Run, NEW last \in Nodes, NEW status \in RunLifecycle, NEW pending \in Nat,
         NEW recorded \in StartIndex(r.state) - 1 .. 17, NEW done \in 0 .. 17
  PROVE  RanFrom(Ran(r, last, recorded, done, status, pending),
                 r, last, recorded, done, status, pending)
<1> DEFINE first == StartIndex(r.state)
           s     == StateThrough(r.state, last, done, workspace.applied)
           m     == Moved(r, status)
<1>1. m \in Run /\ m.status = status /\ m.steps = r.steps /\ m.startedBy = r.startedBy
  <2>1. m.startedBy = r.startedBy
    BY DEF Moved, Run
  <2> QED
    BY <2>1, MovedRunType
<1>2. r.state \in RunState
  BY DEF Run
<1>3. /\ s.node = last /\ s.job = r.state.job
      /\ s.completed = r.state.completed \cup (first .. done)
      /\ DOMAIN s = {"node", "completed", "config", "base", "job", "pending"}
  BY <1>2 DEF StateThrough, RunState
<1> HIDE DEF s, first, m
<1>4. Ran(r, last, recorded, done, status, pending) =
        [m EXCEPT !.node = last, !.steps = r.steps \o NewSteps(first, recorded),
                  !.state = [s EXCEPT !.pending = pending]]
  BY <1>1 DEF Ran, m, s, first, NewSteps
<1> QED
  BY <1>1, <1>3, <1>4 DEF Run, m, s, first, RanFrom

(* Where a segment may end, counted from its first node.                   *)
LEMMA Bounds ==
  ASSUME NEW first \in 1 .. 18, NEW last \in first .. 17
  PROVE  /\ last \in 1 .. 17 /\ last \in 0 .. 17 /\ last - 1 \in 0 .. 17
         /\ last \in first - 1 .. 17 /\ last - 1 \in first - 1 .. 17
OBVIOUS

(* The five ways a segment may end, as seen in the rows of runs and of     *)
(* approvals.                                                              *)
Outcome(k, r, apps, last, recorded, done, status, pending) ==
  \/ /\ last \in APPROVAL_NODES
     /\ recorded = last /\ done = last
     /\ status = "waiting_approval" /\ pending = Len(apps) + 1
     /\ approvals' = Append(apps, OpenApproval(k, last, r.startedBy,
                                    StateThrough(r.state, last, last, workspace.applied)))
  \/ /\ last \notin APPROVAL_NODES
     /\ approvals' = apps /\ pending = r.state.pending
     /\ \/ status = "preparing_materials" /\ last = ValidateImportFiles
           /\ recorded = last - 1 /\ done = last - 1
        \/ status = "failed" /\ last = RunGoLiveChecks /\ recorded = last /\ done = last - 1
        \/ status = "succeeded" /\ last = CloseProject /\ recorded = last /\ done = last
        \/ status = "running" /\ recorded = last /\ done = last

LEMMA AdvanceOutcome ==
  ASSUME RowsOK, NEW k \in 1 .. Len(runs) + 1, NEW r \in Run, NEW loaded, NEW p \in Project,
         NEW apps \in Seq(Approval), NEW jbs,
         NEW oneNode, NEW last \in StartIndex(r.state) .. CloseProject, NEW ready, NEW result,
         Segment(k, r, loaded, p, apps, jbs, oneNode, last, ready, result)
  PROVE  /\ StartIndex(r.state) \in 1 .. 18 /\ last \in Nodes
         /\ \A n \in StartIndex(r.state) .. last - 1 : n \notin APPROVAL_NODES
         /\ \E recorded \in StartIndex(r.state) - 1 .. 17, done \in 0 .. 17,
               status \in RunLifecycle, pending \in Nat :
              /\ Outcome(k, r, apps, last, recorded, done, status, pending)
              /\ RanFrom(runs'[k], r, last, recorded, done, status, pending)
              /\ OnlyRun(k)
<1>1. /\ r.state \in RunState /\ r.state.pending \in Nat /\ workspace.applied \in Proposals
      /\ runs \in Seq(Run) /\ Len(apps) + 1 \in Nat
  BY LenProperties DEF Run, RunState, RowsOK
<1>2. StartIndex(r.state) \in 1 .. 18
  BY <1>1, StartIndexType
<1>3. /\ last \in Nodes /\ last \in 0 .. 17 /\ last - 1 \in 0 .. 17
      /\ last \in StartIndex(r.state) - 1 .. 17 /\ last - 1 \in StartIndex(r.state) - 1 .. 17
  <2>1. last \in StartIndex(r.state) .. 17
    BY DEF CloseProject
  <2> QED
    BY <1>2, <2>1, Bounds DEF Nodes
<1>4. {"waiting_approval", "preparing_materials", "failed", "succeeded", "running"} \subseteq RunLifecycle
  BY DEF RunLifecycle
<1>5. ValidateImportFiles \notin APPROVAL_NODES /\ RunGoLiveChecks \notin APPROVAL_NODES
      /\ CloseProject \notin APPROVAL_NODES
  BY DEF ValidateImportFiles, RunGoLiveChecks, CloseProject, APPROVAL_NODES, PlanApproval,
         ConfigurationApproval, ImportApproval, AcceptanceApproval
<1>6. \A recorded \in StartIndex(r.state) - 1 .. 17, done \in 0 .. 17,
         status \in RunLifecycle, pending \in Nat :
        WriteRun(k, Ran(r, last, recorded, done, status, pending)) =>
          /\ RanFrom(runs'[k], r, last, recorded, done, status, pending)
          /\ OnlyRun(k)
  <2> SUFFICES ASSUME NEW recorded \in StartIndex(r.state) - 1 .. 17, NEW done \in 0 .. 17,
                      NEW status \in RunLifecycle, NEW pending \in Nat,
                      WriteRun(k, Ran(r, last, recorded, done, status, pending))
               PROVE  RanFrom(runs'[k], r, last, recorded, done, status, pending) /\ OnlyRun(k)
    OBVIOUS
  <2>1. Ran(r, last, recorded, done, status, pending) \in Run
    BY <1>1, <1>3, RanType
  <2>2. OnlyRun(k) /\ runs'[k] = Ran(r, last, recorded, done, status, pending)
    BY <1>1, <2>1, WriteRunType
  <2>3. RanFrom(Ran(r, last, recorded, done, status, pending),
                r, last, recorded, done, status, pending)
    BY <1>3, RanFields
  <2> QED
    BY <2>2, <2>3
<1>7. \A n \in StartIndex(r.state) .. last - 1 : n \notin APPROVAL_NODES
  BY DEF Segment
<1>8. \E recorded \in StartIndex(r.state) - 1 .. 17, done \in 0 .. 17,
         status \in RunLifecycle, pending \in Nat :
        /\ Outcome(k, r, apps, last, recorded, done, status, pending)
        /\ WriteRun(k, Ran(r, last, recorded, done, status, pending))
  <2>1. CASE /\ last \in APPROVAL_NODES
             /\ approvals' = Append(apps, OpenApproval(k, last, r.startedBy,
                                StateThrough(r.state, last, last, workspace.applied)))
             /\ WriteRun(k, Ran(r, last, last, last, "waiting_approval", Len(apps) + 1))
    BY <1>1, <1>3, <1>4, <2>1 DEF Outcome
  <2>2. CASE /\ last = ValidateImportFiles /\ approvals' = apps
             /\ WriteRun(k, Ran(r, last, last - 1, last - 1, "preparing_materials", r.state.pending))
    BY <1>1, <1>3, <1>4, <1>5, <2>2 DEF Outcome
  <2>3. CASE /\ last = RunGoLiveChecks /\ approvals' = apps
             /\ WriteRun(k, Ran(r, last, last, last - 1, "failed", r.state.pending))
    BY <1>1, <1>3, <1>4, <1>5, <2>3 DEF Outcome
  <2>4. CASE /\ last = CloseProject /\ approvals' = apps
             /\ WriteRun(k, Ran(r, last, last, last, "succeeded", r.state.pending))
    BY <1>1, <1>3, <1>4, <1>5, <2>4 DEF Outcome
  <2>5. CASE /\ last \notin APPROVAL_NODES /\ approvals' = apps
             /\ WriteRun(k, Ran(r, last, last, last, "running", r.state.pending))
    BY <1>1, <1>3, <1>4, <2>5 DEF Outcome
  <2> QED
    BY <2>1, <2>2, <2>3, <2>4, <2>5 DEF Segment
<1> QED
  BY <1>2, <1>3, <1>6, <1>7, <1>8

(* The nodes a segment adds to those done before it.                       *)
LEMMA StepsAdded ==
  ASSUME NEW steps \in Seq(Nodes), \A i \in DOMAIN steps : steps[i] = i,
         NEW first \in 1 .. 18, Len(steps) = first - 1, NEW recorded \in first - 1 .. 17
  PROVE  /\ Len(steps \o NewSteps(first, recorded)) = recorded
         /\ \A i \in DOMAIN (steps \o NewSteps(first, recorded)) :
              (steps \o NewSteps(first, recorded))[i] = i
<1> DEFINE new == NewSteps(first, recorded)
<1>1. new \in Seq(Nodes) /\ Len(new) = recorded + 1 - first
  <2>1. recorded + 1 - first \in Nat
    OBVIOUS
  <2> QED
    BY <2>1, SegmentType DEF NewSteps
<1>2. \A i \in 1 .. Len(new) : new[i] = first + i - 1
  BY <1>1 DEF NewSteps
<1> HIDE DEF new
<1>3. /\ Len(steps \o new) = Len(steps) + Len(new)
      /\ \A i \in 1 .. Len(steps) : (steps \o new)[i] = steps[i]
      /\ \A i \in 1 .. Len(new) : (steps \o new)[Len(steps) + i] = new[i]
  <2>1. Len(steps) \in Nat /\ Len(new) \in Nat
    BY <1>1, LenProperties
  <2>2. /\ Len(steps \o new) = Len(steps) + Len(new)
        /\ \A i \in 1 .. Len(steps) + Len(new) :
             (steps \o new)[i] = IF i <= Len(steps) THEN steps[i] ELSE new[i - Len(steps)]
    BY <1>1, ConcatProperties, Zenon
  <2>3. ASSUME NEW i \in 1 .. Len(steps) PROVE (steps \o new)[i] = steps[i]
    <3>1. i \in 1 .. Len(steps) + Len(new) /\ i <= Len(steps)
      BY <2>1
    <3> QED
      BY <2>2, <3>1, Zenon
  <2>4. ASSUME NEW i \in 1 .. Len(new) PROVE (steps \o new)[Len(steps) + i] = new[i]
    <3> DEFINE at == Len(steps) + i
    <3>1. at \in 1 .. Len(steps) + Len(new) /\ ~(at <= Len(steps)) /\ at - Len(steps) = i
      BY <2>1
    <3> HIDE DEF at
    <3>2. (steps \o new)[at] = IF at <= Len(steps) THEN steps[at] ELSE new[at - Len(steps)]
      BY <2>2, <3>1, Zenon
    <3>3. (steps \o new)[at] = new[i]
      BY <3>1, <3>2, Zenon
    <3> QED
      BY <3>3, Zenon DEF at
  <2> QED
    BY <2>2, <2>3, <2>4
<1>4. DOMAIN (steps \o new) = 1 .. Len(steps \o new) /\ DOMAIN steps = 1 .. Len(steps)
  BY <1>1
<1>5. Len(steps \o new) = recorded
  <2>1. Len(steps \o new) = (first - 1) + (recorded + 1 - first)
    BY <1>1, <1>3
  <2>2. first \in Int /\ recorded \in Int
    OBVIOUS
  <2> QED
    BY <2>1, <2>2
<1>6. ASSUME NEW i \in 1 .. recorded PROVE (steps \o new)[i] = i
  <2>1. CASE i \in 1 .. Len(steps)
    BY <1>3, <1>4, <2>1
  <2>2. CASE i \notin 1 .. Len(steps)
    <3>1. i - Len(steps) \in 1 .. Len(new) /\ Len(steps) + (i - Len(steps)) = i
      BY <1>1, <2>2
    <3>2. first \in Int /\ Len(steps) = first - 1
      OBVIOUS
    <3>3. (steps \o new)[i] = new[i - Len(steps)]
      BY <1>3, <3>1
    <3>4. new[i - Len(steps)] = first + (i - Len(steps)) - 1
      BY <1>2, <3>1
    <3> QED
      BY <3>2, <3>3, <3>4
  <2> QED
    BY <2>1, <2>2
<1> QED
  BY <1>4, <1>5, <1>6 DEF new

(* An approval opened beside those there are.                              *)
LEMMA Opened ==
  ASSUME NEW k, NEW apps \in Seq(Approval), NEW row \in Approval, row.run = k, row.status = "pending"
  PROVE  /\ Append(apps, row)[Len(apps) + 1] = row /\ Len(apps) + 1 \in DOMAIN Append(apps, row)
         /\ OpenIn(k, Append(apps, row)) = OpenIn(k, apps) \cup {Len(apps) + 1}
         /\ \A i, g : Granted(i, g, Append(apps, row)) = Granted(i, g, apps)
         /\ \A a \in DOMAIN apps : a \in DOMAIN Append(apps, row) /\ Append(apps, row)[a] = apps[a]
         /\ SameElsewhere(k, apps, Append(apps, row))
         /\ \A r : GrantsIndependent(k, r, apps) => GrantsIndependent(k, r, Append(apps, row))
<1>1. /\ DOMAIN apps = 1 .. Len(apps) /\ Len(apps) \in Nat
      /\ DOMAIN Append(apps, row) = 1 .. Len(apps) + 1
      /\ \A a \in DOMAIN apps : Append(apps, row)[a] = apps[a]
      /\ Append(apps, row)[Len(apps) + 1] = row
  <2>1. Append(apps, row) \in Seq(Approval) /\ Len(Append(apps, row)) = Len(apps) + 1
    BY AppendProperties
  <2> QED
    BY <2>1, LenProperties, AppendProperties
<1> DEFINE all == Append(apps, row)
           new == Len(apps) + 1
<1>2. /\ DOMAIN all = DOMAIN apps \cup {new} /\ new \notin DOMAIN apps
      /\ \A a \in DOMAIN apps : all[a] = apps[a]
      /\ all[new] = row
  BY <1>1
<1> HIDE DEF all, new
<1>3. OpenIn(k, all) = OpenIn(k, apps) \cup {new}
  BY <1>2 DEF OpenIn
<1>4. \A i, g : Granted(i, g, all) = Granted(i, g, apps)
  BY <1>2 DEF Granted
<1>5. SameElsewhere(k, apps, all)
  BY <1>2 DEF SameElsewhere
<1>6. \A r : GrantsIndependent(k, r, apps) => GrantsIndependent(k, r, all)
  BY <1>2 DEF GrantsIndependent
<1> QED
  BY <1>2, <1>3, <1>4, <1>5, <1>6 DEF all, new

(* What an approval is about is the proposal or the job, or never changes. *)
LEMMA SameMaterial ==
  ASSUME NEW g, NEW s, NEW t,
         g = ConfigurationApproval => t.config = s.config /\ t.base = s.base,
         g = ImportApproval => t.job = s.job
  PROVE  Material(g, t) = Material(g, s)
BY DEF Material

(* Grants fit as long as they are kept, the run passes no other gate and   *)
(* what it was let through for stays what it is.                           *)
LEMMA SameGrants ==
  ASSUME NEW k, NEW r, NEW q, NEW apps, NEW apps2, GrantsFit(k, r, apps),
         \A g : Granted(k, g, apps2) = Granted(k, g, apps),
         \A a \in DOMAIN apps : apps[a].run = k /\ apps[a].status = "approved" =>
           a \in DOMAIN apps2 /\ apps2[a] = apps[a],
         Active(q) => Active(r),
         Active(q) => \A g \in APPROVAL_NODES : Behind(g, q) <=> Behind(g, r),
         Active(q) => \A g \in APPROVAL_NODES :
           Behind(g, r) => Material(g, q.state) = Material(g, r.state)
  PROVE  GrantsFit(k, q, apps2)
<1> SUFFICES ASSUME Active(q), NEW g \in APPROVAL_NODES
             PROVE  /\ Behind(g, q) => \E a \in DOMAIN apps2 :
                         Granted(k, g, apps2) = {a} /\ apps2[a].material = Material(g, q.state)
                    /\ ~Behind(g, q) => Granted(k, g, apps2) = {}
  BY DEF GrantsFit
<1>1. CASE Behind(g, q)
  <2>1. PICK a \in DOMAIN apps : /\ Granted(k, g, apps) = {a}
                                 /\ apps[a].material = Material(g, r.state)
    BY <1>1 DEF GrantsFit
  <2>2. a \in DOMAIN apps2 /\ apps2[a] = apps[a]
    BY <2>1 DEF Granted
  <2>3. Material(g, q.state) = Material(g, r.state)
    BY <1>1
  <2> QED
    BY <1>1, <2>1, <2>2, <2>3
<1>2. CASE ~Behind(g, q)
  BY <1>2 DEF GrantsFit
<1> QED
  BY <1>1, <1>2

(* A segment that begins where a good run resumes leaves it good.          *)
LEMMA AdvanceGood ==
  ASSUME RowsOK, NEW k \in 1 .. Len(runs) + 1, NEW r \in Run, NEW loaded, NEW p \in Project,
         NEW apps \in Seq(Approval), NEW jbs,
         NEW oneNode, NEW last \in StartIndex(r.state) .. CloseProject, NEW ready, NEW result,
         Segment(k, r, loaded, p, apps, jbs, oneNode, last, ready, result),
         Good(k, r, apps)
  PROVE  /\ Good(k, runs'[k], approvals') /\ OnlyRun(k)
         /\ SameElsewhere(k, apps, approvals')
<1> DEFINE first == StartIndex(r.state)
           q     == runs'[k]
<1>1. /\ first \in 1 .. 18 /\ last \in Nodes /\ last \in first .. 17
      /\ \A n \in first .. last - 1 : n \notin APPROVAL_NODES
  BY AdvanceOutcome DEF CloseProject
<1>2. PICK recorded \in first - 1 .. 17, done \in 0 .. 17, status \in RunLifecycle, pending \in Nat :
        /\ Outcome(k, r, apps, last, recorded, done, status, pending)
        /\ RanFrom(q, r, last, recorded, done, status, pending)
        /\ OnlyRun(k)
  BY AdvanceOutcome
<1>0. APPROVAL_NODES \subseteq Int
  BY DEF APPROVAL_NODES, PlanApproval, ConfigurationApproval, ImportApproval, AcceptanceApproval
<1>3. r.status = "running" /\ Active(r)
  BY DEF Segment, Active, ActiveStatuses
<1>4. /\ \A i \in DOMAIN r.steps : r.steps[i] = i
      /\ Len(r.steps) = first - 1 /\ Len(r.steps) \in Nat /\ r.steps \in Seq(Nodes)
      /\ r.state.completed \subseteq 1 .. first - 1
  <2>1. r.steps \in Seq(Nodes)
    BY DEF Run
  <2>2. Len(r.steps) \in Nat
    BY <2>1, LenProperties
  <2> QED
    BY <1>1, <1>3, <2>1, <2>2 DEF Good, InOrder
<1>5. /\ q.status = status /\ q.node = last /\ q.startedBy = r.startedBy
      /\ q.steps = r.steps \o NewSteps(first, recorded)
      /\ q.state.node = last /\ q.state.pending = pending
      /\ q.state.job = r.state.job
      /\ q.state.completed = r.state.completed \cup (first .. done)
      /\ q.state.config = StateThrough(r.state, last, done, workspace.applied).config
      /\ q.state.base = StateThrough(r.state, last, done, workspace.applied).base
  BY <1>2 DEF RanFrom
<1> HIDE DEF first, q
<1>6. Len(q.steps) = recorded /\ \A i \in DOMAIN q.steps : q.steps[i] = i
  <2>1. recorded \in first - 1 .. 17
    OBVIOUS
  <2>2. /\ Len(r.steps \o NewSteps(first, recorded)) = recorded
        /\ \A i \in DOMAIN (r.steps \o NewSteps(first, recorded)) :
             (r.steps \o NewSteps(first, recorded))[i] = i
    BY <1>1, <1>4, <2>1, StepsAdded
  <2> QED
    BY <1>5, <2>2
<1>7. OpenIn(k, apps) = {} /\ GrantsIndependent(k, r, apps) /\ GatesPassed(k, r, apps)
  BY <1>3 DEF Good, Awaits
<1>8. \A g \in APPROVAL_NODES : g < first => Granted(k, g, apps) # {}
  <2>1. \A g \in APPROVAL_NODES : g < first => Behind(g, r)
    <3> SUFFICES ASSUME NEW g \in APPROVAL_NODES, g < first PROVE Behind(g, r)
      OBVIOUS
    <3>1. g \in Int /\ first \in Int
      BY <1>0, <1>1
    <3>2. g < first - 1 \/ g = first - 1
      BY <3>1
    <3>3. r.status # "waiting_approval"
      BY <1>3
    <3> QED
      BY <1>3, <1>4, <3>2, <3>3 DEF Behind
  <2> QED
    BY <1>7, <2>1 DEF GatesPassed
<1>9. last \in Nat /\ recorded \in Nat
  BY <1>1
<1>10. InOrder(q)
  BY <1>1, <1>2, <1>4, <1>5, <1>6, <1>9
     DEF InOrder, Outcome, Active, ActiveStatuses, StartIndex
<1>11. ASSUME NEW g \in APPROVAL_NODES, g < last \/ (g = last /\ last \notin APPROVAL_NODES)
       PROVE  Granted(k, g, apps) # {}
  <2>1. g \in Int /\ first \in Int /\ last \in Int
    BY <1>0, <1>1
  <2>2. g # last
    BY <1>11
  <2>3. g < first
    BY <1>1, <1>11, <2>1, <2>2
  <2> QED
    BY <1>8, <2>3
<1>12. \A apps2 : GrantsIndependent(k, r, apps2) => GrantsIndependent(k, q, apps2)
  BY <1>5 DEF GrantsIndependent
<1>13. /\ Awaits(k, q, approvals') /\ GrantsIndependent(k, q, approvals')
       /\ GatesPassed(k, q, approvals') /\ SameElsewhere(k, apps, approvals')
  <2>1. CASE /\ last \in APPROVAL_NODES /\ recorded = last /\ done = last
             /\ status = "waiting_approval" /\ pending = Len(apps) + 1
             /\ approvals' = Append(apps, OpenApproval(k, last, r.startedBy,
                                 StateThrough(r.state, last, last, workspace.applied)))
    <3> DEFINE after == StateThrough(r.state, last, last, workspace.applied)
               row   == OpenApproval(k, last, r.startedBy, after)
    <3>1. after \in RunState /\ r.startedBy \in Users /\ k \in Nat
      <4>1. r.state \in RunState /\ workspace.applied \in Proposals /\ r.startedBy \in Users
        BY DEF Run, RowsOK
      <4>2. k \in Nat
        BY LenProperties DEF RowsOK
      <4> QED
        BY <1>1, <2>1, <4>1, <4>2, StateType
    <3>2. row \in Approval /\ row.run = k
      BY <2>1, <3>1, OpenApprovalType
    <3>3. row.status = "pending" /\ row.kind = last /\ row.material = Material(last, after)
      BY DEF OpenApproval
    <3>4. Material(last, after) = Material(q.node, q.state)
      <4>1. after.config = q.state.config /\ after.base = q.state.base /\ after.job = q.state.job
        <5>1. after.job = r.state.job
          BY DEF StateThrough, Run, RunState
        <5> QED
          BY <1>5, <2>1, <5>1
      <4> HIDE DEF after
      <4> QED
        BY <1>5, <4>1 DEF Material
    <3> HIDE DEF row
    <3>5. /\ approvals'[pending] = row
          /\ OpenIn(k, approvals') = {pending}
          /\ \A i, g : Granted(i, g, approvals') = Granted(i, g, apps)
          /\ SameElsewhere(k, apps, approvals')
          /\ GrantsIndependent(k, r, approvals')
      BY <1>7, <2>1, <3>2, <3>3, Opened DEF row
    <3>6. Awaits(k, q, approvals')
      BY <1>5, <2>1, <3>3, <3>4, <3>5 DEF Awaits
    <3>7. GatesPassed(k, q, approvals')
      BY <1>5, <1>6, <1>11, <2>1, <3>5 DEF GatesPassed, Behind
    <3> QED
      BY <1>12, <3>5, <3>6, <3>7
  <2>2. CASE /\ last \notin APPROVAL_NODES /\ approvals' = apps
             /\ status # "waiting_approval" /\ recorded \in {last - 1, last}
    <3>1. Awaits(k, q, approvals')
      BY <1>5, <1>7, <2>2 DEF Awaits
    <3>2. \A g \in APPROVAL_NODES : Behind(g, q) => g < last \/ g = last
      BY <1>0, <1>1, <1>6, <2>2 DEF Behind
    <3>3. GatesPassed(k, q, approvals')
      BY <1>11, <2>2, <3>2 DEF GatesPassed
    <3>4. SameElsewhere(k, apps, approvals')
      BY <2>2 DEF SameElsewhere, OpenIn
    <3> QED
      BY <1>7, <1>12, <2>2, <3>1, <3>3, <3>4
  <2> QED
    BY <1>2, <2>1, <2>2 DEF Outcome
<1>14. /\ \A g : Granted(k, g, approvals') = Granted(k, g, apps)
       /\ \A a \in DOMAIN apps : a \in DOMAIN approvals' /\ approvals'[a] = apps[a]
  <2>1. CASE /\ last \in APPROVAL_NODES
             /\ approvals' = Append(apps, OpenApproval(k, last, r.startedBy,
                                 StateThrough(r.state, last, last, workspace.applied)))
    <3> DEFINE after == StateThrough(r.state, last, last, workspace.applied)
               row   == OpenApproval(k, last, r.startedBy, after)
    <3>1. after \in RunState /\ r.startedBy \in Users /\ k \in Nat
      <4>1. r.state \in RunState /\ workspace.applied \in Proposals /\ r.startedBy \in Users
        BY DEF Run, RowsOK
      <4>2. k \in Nat
        BY LenProperties DEF RowsOK
      <4>3. last \in Nodes /\ last \in 0 .. 17
        BY <1>1
      <4> QED
        BY <4>1, <4>2, <4>3, StateType
    <3> HIDE DEF after
    <3>2. row \in Approval /\ row.run = k
      BY <2>1, <3>1, OpenApprovalType
    <3>3. row.status = "pending"
      BY DEF OpenApproval
    <3> HIDE DEF row
    <3>4. approvals' = Append(apps, row)
      BY <2>1 DEF row, after
    <3> QED
      BY <3>2, <3>3, <3>4, Opened
  <2> QED
    BY <1>2, <2>1 DEF Outcome
<1>15. GrantsFit(k, q, approvals')
  <2>1. ASSUME Active(q), NEW g \in APPROVAL_NODES PROVE Behind(g, q) <=> g < first
    <3>1. g \in Int /\ first \in Int /\ last \in Int /\ (g < last => g < first)
      BY <1>0, <1>1
    <3>2. CASE last \in APPROVAL_NODES
      <4>1. recorded = last /\ status = "waiting_approval"
        BY <1>2, <3>2 DEF Outcome
      <4> QED
        BY <1>1, <1>5, <1>6, <3>1, <4>1 DEF Behind
    <3>3. CASE last \notin APPROVAL_NODES
      <4>1. status # "waiting_approval" /\ g # last
        BY <1>2, <3>3 DEF Outcome
      <4>2. recorded = last \/ (recorded = last - 1 /\ g # last)
        BY <1>2, <3>3, <4>1 DEF Outcome
      <4> QED
        BY <1>1, <1>5, <1>6, <2>1, <3>1, <4>1, <4>2 DEF Behind
    <3> QED
      BY <3>2, <3>3
  <2>2. ASSUME NEW g \in APPROVAL_NODES PROVE Behind(g, r) <=> g < first
    <3>1. g \in Int /\ first \in Int
      BY <1>0, <1>1
    <3>2. g < first <=> (g < first - 1 \/ g = first - 1)
      BY <3>1
    <3>3. Behind(g, r) <=> (g < Len(r.steps) \/ g = Len(r.steps))
      BY <1>3, Zenon DEF Behind
    <3> QED
      BY <1>4, <3>2, <3>3
  <2>3. ASSUME NEW g \in APPROVAL_NODES, Behind(g, r)
        PROVE  Material(g, q.state) = Material(g, r.state)
    <3>1. g < first
      BY <2>2, <2>3
    <3>2. g = ConfigurationApproval => GenerateChanges \notin first .. done
      BY <1>1, <3>1 DEF ConfigurationApproval, GenerateChanges
    <3>3. g = ConfigurationApproval =>
            q.state.config = r.state.config /\ q.state.base = r.state.base
      <4>1. r.state \in RunState
        BY DEF Run
      <4> QED
        BY <1>5, <3>2, <4>1 DEF StateThrough, RunState, first
    <3> QED
      BY <1>5, <3>3, SameMaterial
  <2>4. GrantsFit(k, r, apps)
    BY DEF Good
  <2> QED
    BY <1>3, <1>14, <2>1, <2>2, <2>3, <2>4, SameGrants
<1> QED
  BY <1>2, <1>10, <1>13, <1>15 DEF Good, q

(* What holds of the other runs is not disturbed.                          *)
LEMMA RunWritten ==
  ASSUME RunsGood, NEW k, OnlyRun(k), SameElsewhere(k, approvals, approvals'),
         Good(k, runs'[k], approvals')
  PROVE  RunsGood'
<1> SUFFICES ASSUME NEW i \in DOMAIN runs', i # k PROVE Good(i, runs'[i], approvals')
  BY DEF RunsGood
<1>1. i \in DOMAIN runs /\ runs'[i] = runs[i] /\ Good(i, runs[i], approvals)
  BY DEF OnlyRun, RunsGood
<1> DEFINE r == runs[i]
<1> HIDE DEF r
<1>2. \A a : (a \in DOMAIN approvals' /\ approvals'[a].run = i) <=>
             (a \in DOMAIN approvals /\ approvals[a].run = i)
  BY DEF SameElsewhere
<1>3. \A a : (a \in DOMAIN approvals /\ approvals[a].run = i) => approvals'[a] = approvals[a]
  BY DEF SameElsewhere
<1>4. OpenIn(i, approvals') = OpenIn(i, approvals)
  BY <1>2, <1>3 DEF OpenIn
<1>5. \A g : Granted(i, g, approvals') = Granted(i, g, approvals)
  BY <1>2, <1>3 DEF Granted
<1>6. Good(i, r, approvals)
  BY <1>1 DEF r
<1>7. Awaits(i, r, approvals')
  <2>1. CASE r.status = "waiting_approval"
    <3>1. r.state.pending \in OpenIn(i, approvals)
      BY <1>6, <2>1 DEF Good, Awaits
    <3>2. approvals'[r.state.pending] = approvals[r.state.pending]
      BY <1>3, <3>1 DEF OpenIn
    <3> QED
      BY <1>4, <1>6, <2>1, <3>2 DEF Good, Awaits
  <2>2. CASE r.status # "waiting_approval"
    BY <1>4, <1>6, <2>2 DEF Good, Awaits
  <2> QED
    BY <2>1, <2>2
<1>8. GrantsIndependent(i, r, approvals')
  BY <1>2, <1>3, <1>6 DEF Good, GrantsIndependent
<1>9. GatesPassed(i, r, approvals')
  BY <1>5, <1>6 DEF Good, GatesPassed
<1>10. GrantsFit(i, r, approvals')
  BY <1>2, <1>3, <1>5, <1>6, SameGrants DEF Good
<1> QED
  BY <1>1, <1>6, <1>7, <1>8, <1>9, <1>10 DEF Good, r

LEMMA SameElsewhereTwice ==
  ASSUME NEW k, NEW one, NEW two, NEW three, SameElsewhere(k, one, two), SameElsewhere(k, two, three)
  PROVE  SameElsewhere(k, one, three)
BY DEF SameElsewhere

SameProposal(q, r) == q.state.config = r.state.config /\ q.state.base = r.state.base

(* The rows a transaction has in hand when it dispatches run k, or does a  *)
(* node of it: a new run or the one under way, with the approvals and jobs *)
(* as it has changed them.                                                 *)
Hand(k, r, loaded, p, apps, jbs) ==
  /\ k \in 1 .. Len(runs) + 1 /\ k >= Len(runs)
  /\ r \in Run /\ p \in Project /\ apps \in Seq(Approval) /\ jbs \in Seq(Job)
  /\ Active(r) /\ Good(k, r, apps) /\ SameElsewhere(k, approvals, apps)
  /\ IF k \in DOMAIN runs
     THEN /\ Active(runs[k]) /\ r.steps = runs[k].steps /\ r.startedBy = runs[k].startedBy
          /\ SameProposal(r, runs[k])
          /\ loaded = project /\ p = project
     ELSE r.steps = <<>> /\ p.status = "in_progress"
  /\ \A g : g # Len(r.steps) => Granted(k, g, apps) = Granted(k, g, approvals)
  /\ \/ r.state.job = 0
     \/ k \in DOMAIN runs /\ r.state.job = runs[k].state.job
     \/ /\ r.state.job \in DOMAIN jbs /\ jbs[r.state.job].run = k
        /\ Len(r.steps) < ExecuteImport
  /\ DOMAIN jobs \subseteq DOMAIN jbs
  /\ \A j \in DOMAIN jbs : IF j \in DOMAIN jobs THEN jbs[j] = jobs[j] ELSE jbs[j].result = "none"

(* What it does with them. *)
Left(k, r, loaded, p, apps, jbs) ==
  WriteRun(k, r) /\ WriteProject(loaded, p) /\ approvals' = apps /\ jobs' = jbs /\ UNCHANGED workspace
HandedOn(k, r, loaded, p, apps, jbs) ==
  \/ \E oneNode \in BOOLEAN : Advance(k, r, loaded, p, apps, jbs, oneNode)
  \/ Left(k, r, loaded, p, apps, jbs)

Dispatches ==
  \E k, r, loaded, p, apps, jbs :
    Hand(k, r, loaded, p, apps, jbs) /\ HandedOn(k, r, loaded, p, apps, jbs)

LEMMA DispatchHandsOn ==
  ASSUME NEW k, NEW r, NEW loaded, NEW p, NEW apps, NEW jbs, Dispatch(k, r, loaded, p, apps, jbs)
  PROVE  HandedOn(k, r, loaded, p, apps, jbs)
BY DEF Dispatch, HandedOn, Left

(* A good run in hand is written back good, advanced or not.               *)
LEMMA HandedGood ==
  ASSUME RowsOK, RunsGood, Dispatches
  PROVE  RunsGood'
<1>1. PICK k, r, loaded, p, apps, jbs :
        Hand(k, r, loaded, p, apps, jbs) /\ HandedOn(k, r, loaded, p, apps, jbs)
  BY DEF Dispatches
<1>2. /\ k \in 1 .. Len(runs) + 1 /\ r \in Run /\ p \in Project /\ apps \in Seq(Approval)
      /\ Good(k, r, apps) /\ SameElsewhere(k, approvals, apps)
  BY <1>1 DEF Hand
<1>3. ASSUME NEW oneNode \in BOOLEAN, Advance(k, r, loaded, p, apps, jbs, oneNode)
      PROVE  RunsGood'
  <2>1. PICK last \in StartIndex(r.state) .. CloseProject, ready \in BOOLEAN,
             result \in {"completed", "partial_failed"} :
          Segment(k, r, loaded, p, apps, jbs, oneNode, last, ready, result)
    BY <1>3 DEF Advance
  <2>2. Good(k, runs'[k], approvals') /\ OnlyRun(k) /\ SameElsewhere(k, apps, approvals')
    BY <1>2, <2>1, AdvanceGood
  <2> QED
    BY <1>2, <2>2, SameElsewhereTwice, RunWritten
<1>4. CASE Left(k, r, loaded, p, apps, jbs)
  <2>1. OnlyRun(k) /\ runs'[k] = r
    BY <1>2, <1>4, WriteRunType DEF RowsOK, Left
  <2> QED
    BY <1>2, <1>4, <2>1, RunWritten DEF Left
<1> QED
  BY <1>1, <1>3, <1>4 DEF HandedOn

-----------------------------------------------------------------------------
(* The runs, step by step *)

(* A run under way resumed, waiting for nothing, or begun by a worker.     *)
LEMMA Resumed ==
  ASSUME NEW k, NEW r, NEW q, NEW apps, Good(k, r, apps), Active(r),
         r.status # "waiting_approval", q.status \in {"pending", "running"},
         q.steps = r.steps, q.startedBy = r.startedBy,
         q.state.node = r.state.node, q.state.completed = r.state.completed,
         \A g \in APPROVAL_NODES : Behind(g, r) => Material(g, q.state) = Material(g, r.state)
  PROVE  Good(k, q, apps)
<1>1. Active(q) /\ q.status # "waiting_approval" /\ q.status # "preparing_materials"
  BY DEF Active, ActiveStatuses
<1>2. InOrder(q)
  BY <1>1 DEF Good, InOrder, StartIndex
<1>3. \A g : Behind(g, q) <=> Behind(g, r)
  BY <1>1 DEF Behind
<1>4. GrantsFit(k, q, apps)
  BY <1>3, SameGrants DEF Good
<1> QED
  BY <1>1, <1>2, <1>4 DEF Good, Awaits, GrantsIndependent, GatesPassed, Behind

(* A run ended leaves no approval open and no decision changed.            *)
LEMMA Ended ==
  ASSUME NEW k, NEW r, NEW q, NEW apps, NEW apps2, Good(k, r, apps),
         q.status \in {"failed", "cancelled"}, q.steps = r.steps, q.startedBy = r.startedBy,
         OpenIn(k, apps2) = {}, DOMAIN apps2 = DOMAIN apps,
         \A a \in DOMAIN apps : /\ apps[a].status = "approved" => apps2[a] = apps[a]
                                /\ apps2[a].status = "approved" => apps2[a] = apps[a]
  PROVE  Good(k, q, apps2)
<1>1. ~Active(q) /\ q.status # "waiting_approval"
  BY DEF Active, ActiveStatuses
<1>2. \A g : Granted(k, g, apps) \subseteq Granted(k, g, apps2)
  BY DEF Granted
<1>3. GatesPassed(k, q, apps2)
  BY <1>1, <1>2 DEF Good, GatesPassed, Behind
<1>4. GrantsIndependent(k, q, apps2)
  BY DEF Good, GrantsIndependent
<1> QED
  BY <1>1, <1>3, <1>4 DEF Good, InOrder, Awaits, GrantsFit

(* A new run stands before the first node and waits for nothing.           *)
LEMMA NewRunGood ==
  ASSUME RowsOK, NEW u \in Users, NEW retryOf \in Nat, NEW job \in Nat
  PROVE  Good(Len(runs) + 1, Launched(NewRun(u, retryOf, job)), approvals)
<1> DEFINE r == Launched(NewRun(u, retryOf, job))
           k == Len(runs) + 1
<1>1. /\ r.status \in {"pending", "running"} /\ r.steps = <<>>
      /\ r.state = InitialState(job)
  BY DEF Launched, NewRun, Moved
<1>2. StartIndex(r.state) = 1 /\ r.state.completed = {}
  BY <1>1 DEF InitialState, StartIndex
<1>3. \A a \in DOMAIN approvals : approvals[a].run # k
  BY LenProperties DEF RowsOK, Refers
<1> HIDE DEF r, k
<1>4. Len(r.steps) = 0 /\ DOMAIN r.steps = {}
  BY <1>1
<1>5. InOrder(r)
  BY <1>1, <1>2, <1>4 DEF InOrder
<1>6. Awaits(k, r, approvals) /\ GrantsIndependent(k, r, approvals)
  BY <1>1, <1>3 DEF Awaits, GrantsIndependent, OpenIn
<1>7. GatesPassed(k, r, approvals)
  BY <1>4 DEF GatesPassed, Behind, APPROVAL_NODES, PlanApproval, ConfigurationApproval,
     ImportApproval, AcceptanceApproval
<1>8. GrantsFit(k, r, approvals)
  <2>1. \A g \in APPROVAL_NODES : ~Behind(g, r)
    BY <1>4 DEF Behind, APPROVAL_NODES, PlanApproval, ConfigurationApproval,
       ImportApproval, AcceptanceApproval
  <2> QED
    BY <1>3, <2>1 DEF GrantsFit, Granted
<1> QED
  BY <1>5, <1>6, <1>7, <1>8 DEF Good, r, k

LEMMA Rows ==
  ASSUME Inv
  PROVE  /\ RowsOK /\ project \in Project /\ workspace.applied \in Proposals
         /\ runs \in Seq(Run) /\ DOMAIN runs = 1 .. Len(runs) /\ Len(runs) \in Nat
         /\ approvals \in Seq(Approval) /\ DOMAIN approvals = 1 .. Len(approvals)
         /\ Len(approvals) \in Nat /\ Refers(approvals, DOMAIN runs)
         /\ jobs \in Seq(Job) /\ Len(jobs) \in Nat /\ Refers(jobs, DOMAIN runs)
         /\ \A k : SameElsewhere(k, approvals, approvals)
         /\ \A k \in DOMAIN runs : k \in 1 .. Len(runs) + 1 /\ runs[k] \in Run
BY LenProperties DEF Inv, TypeOK, RowsOK, SameElsewhere

(* A job uploaded for a run comes after those there are.                   *)
LEMMA Uploaded ==
  ASSUME Inv, NEW k \in 1 .. Len(runs) + 1, NEW valid \in BOOLEAN
  PROVE  LET jbs == Append(jobs, UploadedJob(k, valid))
         IN  /\ jbs \in Seq(Job) /\ Len(jbs) \in DOMAIN jbs /\ Len(jbs) \in Nat
             /\ DOMAIN jobs \subseteq DOMAIN jbs
             /\ jbs[Len(jbs)].run = k
             /\ \A j \in DOMAIN jbs :
                  IF j \in DOMAIN jobs THEN jbs[j] = jobs[j] ELSE jbs[j].result = "none"
<1> DEFINE row == UploadedJob(k, valid)
           jbs == Append(jobs, row)
<1>1. row \in Job /\ row.run = k /\ row.result = "none"
  BY Rows DEF UploadedJob, Job, Proposals
<1> HIDE DEF row
<1>2. /\ jbs \in Seq(Job) /\ Len(jbs) = Len(jobs) + 1 /\ Len(jobs) \in Nat
      /\ jbs[Len(jobs) + 1] = row /\ \A j \in 1 .. Len(jobs) : jbs[j] = jobs[j]
  BY <1>1, Rows, AppendProperties
<1>3. DOMAIN jobs = 1 .. Len(jobs) /\ DOMAIN jbs = 1 .. Len(jobs) + 1
  BY <1>2, Rows, LenProperties
<1> HIDE DEF jbs
<1>4. \A j \in DOMAIN jbs : IF j \in DOMAIN jobs THEN jbs[j] = jobs[j] ELSE jbs[j].result = "none"
  BY <1>1, <1>2, <1>3
<1>5. Len(jbs) \in DOMAIN jbs /\ Len(jbs) \in Nat /\ DOMAIN jobs \subseteq DOMAIN jbs
  BY <1>2, <1>3
<1> QED
  BY <1>1, <1>2, <1>4, <1>5 DEF jbs, row

LEMMA StartHand ==
  ASSUME Inv, RunsGood, NEW c \in Clients
  PROVE  /\ CommitStart(c) => Dispatches
         /\ CommitRetry(c) => Dispatches
<1> DEFINE k == Latest + 1
<1>1. Len(runs) + 1 \in 1 .. Len(runs) + 1 /\ k = Len(runs) + 1 /\ Latest \in Nat
  BY Rows DEF Latest
<1>2. \A p \in Project : Moved(p, "in_progress") \in Project
                          /\ Moved(p, "in_progress").status = "in_progress"
  <2> SUFFICES ASSUME NEW p \in Project
               PROVE  /\ Moved(p, "in_progress") \in Project
                      /\ Moved(p, "in_progress").status = "in_progress"
    OBVIOUS
  <2>1. Moved(p, "in_progress") \in Project
    BY MovedProjectType DEF ProjectLifecycle
  <2>2. Moved(p, "in_progress").status = "in_progress"
    BY DEF Moved, Project
  <2> QED
    BY <2>1, <2>2
<1>3. req[c] \in Request
  BY DEF Inv, TypeOK, ClientsOK
<1>4. \A u \in Users, retryOf \in Nat, job \in Nat :
        LET r == Launched(NewRun(u, retryOf, job))
        IN  /\ r \in Run /\ Good(k, r, approvals) /\ Active(r)
            /\ r.steps = <<>> /\ r.state.job = job
  <2> SUFFICES ASSUME NEW u \in Users, NEW retryOf \in Nat, NEW job \in Nat
               PROVE  LET r == Launched(NewRun(u, retryOf, job))
                      IN  /\ r \in Run /\ Good(k, r, approvals) /\ Active(r)
                          /\ r.steps = <<>> /\ r.state.job = job
    OBVIOUS
  <2>1. /\ Launched(NewRun(u, retryOf, job)) \in Run
        /\ Good(k, Launched(NewRun(u, retryOf, job)), approvals)
    BY <1>1, Rows, NewRunType, NewRunGood
  <2> QED
    BY <2>1 DEF Launched, NewRun, InitialState, Moved, Active, ActiveStatuses
<1>0. k \notin DOMAIN runs /\ k \in 1 .. Len(runs) + 1 /\ k >= Len(runs)
  BY <1>1, Rows
<1> HIDE DEF k
<1>5. ASSUME CommitStart(c) PROVE Dispatches
  <2> DEFINE p       == req[c].loaded
             retryOf == IF Latest > 0 /\ runs[Latest].status \in {"failed", "cancelled"}
                        THEN Latest ELSE 0
             r       == Launched(NewRun(req[c].user, retryOf, 0))
  <2>1. req[c].user \in Users /\ p \in Project
    BY <1>3, <1>5 DEF CommitStart, Request
  <2>2. Dispatch(k, r, p, Moved(p, "in_progress"), approvals, jobs)
    BY <1>5 DEF CommitStart, k
  <2>3. /\ r \in Run /\ Good(k, r, approvals) /\ Active(r) /\ r.steps = <<>> /\ r.state.job = 0
        /\ Moved(p, "in_progress") \in Project /\ Moved(p, "in_progress").status = "in_progress"
    BY <1>1, <1>2, <1>4, <2>1
  <2> HIDE DEF p, r
  <2>4. Hand(k, r, p, Moved(p, "in_progress"), approvals, jobs)
    BY <1>0, <2>3, Rows DEF Hand
  <2> QED
    BY <2>2, <2>4, DispatchHandsOn DEF Dispatches
<1>6. ASSUME CommitRetry(c) PROVE Dispatches
  <2> DEFINE jbs == Append(jobs, UploadedJob(k, TRUE))
             r   == Launched(NewRun(req[c].user, Latest, Len(jbs)))
  <2>1. req[c].user \in Users
    BY <1>3, <1>6 DEF CommitRetry, Request
  <2>2. Dispatch(k, r, project, Moved(project, "in_progress"), approvals, jbs)
    BY <1>6 DEF CommitRetry, k
  <2>3. /\ jbs \in Seq(Job) /\ Len(jbs) \in DOMAIN jbs /\ Len(jbs) \in Nat
        /\ DOMAIN jobs \subseteq DOMAIN jbs
        /\ jbs[Len(jbs)].run = k
        /\ \A j \in DOMAIN jbs : IF j \in DOMAIN jobs THEN jbs[j] = jobs[j] ELSE jbs[j].result = "none"
    BY <1>0, Uploaded
  <2> HIDE DEF jbs
  <2>4. /\ r \in Run /\ Good(k, r, approvals) /\ Active(r) /\ r.steps = <<>>
        /\ r.state.job = Len(jbs)
        /\ Moved(project, "in_progress") \in Project /\ Moved(project, "in_progress").status = "in_progress"
    BY <1>1, <1>2, <1>4, <2>1, <2>3, Rows
  <2> HIDE DEF r
  <2>6. Len(r.steps) < ExecuteImport
    BY <2>4 DEF ExecuteImport
  <2>5. Hand(k, r, project, Moved(project, "in_progress"), approvals, jbs)
    BY <1>0, <2>3, <2>4, <2>6, Rows DEF Hand
  <2> QED
    BY <2>2, <2>5, DispatchHandsOn DEF Dispatches
<1> QED
  BY <1>5, <1>6

LEMMA CancelGood ==
  ASSUME Inv, RunsGood, NEW c \in Clients, CommitCancel(c)
  PROVE  RunsGood'
<1> DEFINE k   == req[c].target
           l   == req[c].loadedRun
           row == [runs[k] EXCEPT !.status = "cancelled", !.version = l.version + 1,
                                  !.state = [l.state EXCEPT !.pending = 0]]
<1>1. k \in DOMAIN runs /\ l \in LoadedRun
  BY DEF CommitCancel, Inv, TypeOK, ClientsOK, Request
<1>2. runs[k] \in Run /\ Good(k, runs[k], approvals)
  BY <1>1, Rows DEF RunsGood
<1>3. row \in Run
  <2>1. [l.state EXCEPT !.pending = 0] \in RunState /\ l.version + 1 \in Nat
    BY <1>1 DEF LoadedRun, RunState
  <2> QED
    BY <1>2, <2>1 DEF Run, RunLifecycle
<1>4. /\ row.status = "cancelled" /\ row.steps = runs[k].steps
      /\ row.startedBy = runs[k].startedBy
  BY <1>2 DEF Run
<1>5. runs' = [runs EXCEPT ![k] = row]
  BY DEF CommitCancel
<1>6. approvals' = Closed(k, req[c].user)
  BY DEF CommitCancel
<1> HIDE DEF row, k, l
<1>7. OnlyRun(k) /\ runs'[k] = row
  BY <1>1, <1>3, <1>5, Rows, UpdateType, LenProperties DEF OnlyRun
<1>8. /\ DOMAIN approvals' = DOMAIN approvals
      /\ \A a \in DOMAIN approvals :
           /\ approvals'[a].run = approvals[a].run
           /\ a \in Open(k) => approvals'[a].status = "cancelled"
           /\ a \notin Open(k) => approvals'[a] = approvals[a]
  <2>1. \A a \in DOMAIN approvals : approvals[a] \in Approval
    BY Rows
  <2> QED
    BY <1>6, <2>1 DEF Closed, Approval
<1>9. OpenIn(k, approvals') = {} /\ SameElsewhere(k, approvals, approvals')
  BY <1>8 DEF OpenIn, Open, SameElsewhere
<1>10. \A a \in DOMAIN approvals :
         /\ approvals[a].status = "approved" => approvals'[a] = approvals[a]
         /\ approvals'[a].status = "approved" => approvals'[a] = approvals[a]
  BY <1>8 DEF Open
<1>11. Good(k, runs'[k], approvals')
  BY <1>2, <1>4, <1>7, <1>8, <1>9, <1>10, Ended
<1> QED
  BY <1>7, <1>9, <1>11, RunWritten

(* The approval being decided is the one its run waits for.                *)
LEMMA Deciding ==
  ASSUME Inv, RunsGood, NEW u \in Users, NEW a \in DOMAIN approvals, Decidable(u, a),
         NEW decision \in {"approved", "rejected"}
  PROVE  LET k == approvals[a].run  apps == Decided(a, u, decision)
         IN  /\ k \in DOMAIN runs /\ runs[k].status = "waiting_approval"
             /\ approvals[a].kind = runs[k].node
             /\ OpenIn(k, apps) = {} /\ SameElsewhere(k, approvals, apps)
             /\ DOMAIN apps = DOMAIN approvals
             /\ \A b \in DOMAIN approvals : b # a => apps[b] = approvals[b]
             /\ apps[a].status = decision /\ apps[a].run = k /\ apps[a].decidedBy = u
             /\ apps[a].kind = approvals[a].kind /\ apps[a].requestedBy = approvals[a].requestedBy
<1> DEFINE k    == approvals[a].run
           apps == Decided(a, u, decision)
<1>1. k \in DOMAIN runs /\ approvals[a] \in Approval
  BY Rows DEF Refers
<1>2. runs[k].status = "waiting_approval" /\ approvals[a].status = "pending"
  BY DEF Decidable
<1>3. Good(k, runs[k], approvals) /\ a \in OpenIn(k, approvals)
  BY <1>1, <1>2 DEF RunsGood, OpenIn
<1>4. OpenIn(k, approvals) = {a} /\ approvals[a].kind = runs[k].node
  BY <1>2, <1>3 DEF Good, Awaits
<1>5. /\ DOMAIN apps = DOMAIN approvals
      /\ \A b \in DOMAIN approvals : b # a => apps[b] = approvals[b]
      /\ apps[a].status = decision /\ apps[a].run = k /\ apps[a].decidedBy = u
      /\ apps[a].kind = approvals[a].kind /\ apps[a].requestedBy = approvals[a].requestedBy
  BY <1>1, Rows DEF Decided, Approval
<1>6. decision # "pending"
  OBVIOUS
<1> HIDE DEF apps
<1>7. OpenIn(k, apps) = {}
  BY <1>4, <1>5, <1>6 DEF OpenIn
<1>8. SameElsewhere(k, approvals, apps)
  BY <1>5 DEF SameElsewhere
<1> QED
  BY <1>1, <1>2, <1>4, <1>5, <1>7, <1>8 DEF apps

(* A gate granted by someone independent lets the run pass it.             *)
LEMMA ApproveHand ==
  ASSUME Inv, RunsGood, NEW u \in Users, NEW a \in DOMAIN approvals, Approve(u, a)
  PROVE  Dispatches
<1> DEFINE k    == approvals[a].run
           r    == runs[k]
           q    == [Moved(r, "running") EXCEPT !.state.pending = 0]
           apps == Decided(a, u, "approved")
<1>1. Decidable(u, a) /\ Dispatch(k, q, project, project, apps, jobs)
  BY DEF Approve
<1>2. /\ k \in DOMAIN runs /\ r.status = "waiting_approval" /\ approvals[a].kind = r.node
      /\ OpenIn(k, apps) = {} /\ SameElsewhere(k, approvals, apps)
      /\ DOMAIN apps = DOMAIN approvals
      /\ \A b \in DOMAIN approvals : b # a => apps[b] = approvals[b]
      /\ apps[a].status = "approved" /\ apps[a].run = k /\ apps[a].decidedBy = u
      /\ apps[a].kind = approvals[a].kind /\ apps[a].requestedBy = approvals[a].requestedBy
      /\ approvals[a].status = "pending"
  BY <1>1, Deciding DEF Decidable
<1>3. k \in 1 .. Len(runs) + 1 /\ r \in Run /\ Good(k, r, approvals)
  BY <1>2, Rows DEF RunsGood
<1>4. /\ q \in Run /\ q.status = "running" /\ q.steps = r.steps /\ q.startedBy = r.startedBy
      /\ q.state.node = r.state.node /\ q.state.completed = r.state.completed
      /\ q.state.job = r.state.job
  <2>1. r.state \in RunState /\ "running" \in RunLifecycle
    BY <1>3 DEF Run, RunLifecycle
  <2>2. /\ Moved(r, "running") \in Run /\ Moved(r, "running").state = r.state
        /\ Moved(r, "running").status = "running" /\ Moved(r, "running").steps = r.steps
    BY <1>3, <2>1, MovedRunType
  <2>3. Moved(r, "running").startedBy = r.startedBy
    BY <1>3 DEF Moved, Run
  <2> QED
    BY <2>1, <2>2, <2>3 DEF Run, RunState
<1>17. q.state.config = r.state.config /\ q.state.base = r.state.base
  <2>1. Moved(r, "running").state = r.state /\ r.state \in RunState /\ Moved(r, "running") \in Run
    BY <1>3, MovedRunType DEF Run, RunLifecycle
  <2> QED
    BY <2>1 DEF Run, RunState
<1>5. apps \in Seq(Approval)
  BY Rows, DecidedType
<1>6. Personal(u) \/ (u # r.startedBy /\ u # approvals[a].requestedBy)
  BY <1>1 DEF Decidable, MayDecide
<1>15. apps[a].material = Material(apps[a].kind, r.state)
  <2>1. approvals[a].material = Material(approvals[a].kind, r.state) /\ approvals[a] \in Approval
    BY Rows DEF Approve
  <2>2. apps[a].material = approvals[a].material
    BY <2>1 DEF Decided, Approval
  <2> QED
    BY <1>2, <2>1, <2>2
<1> HIDE DEF q, apps, r, k
<1>7. Active(r) /\ Active(q) /\ q.status # "waiting_approval"
  BY <1>2, <1>4 DEF Active, ActiveStatuses
<1>8. InOrder(q)
  BY <1>3, <1>4, <1>7 DEF Good, InOrder, StartIndex
<1>9. GrantsIndependent(k, q, apps)
  BY <1>2, <1>3, <1>4, <1>6 DEF Good, GrantsIndependent, IndependentRow
<1>10. GatesPassed(k, q, apps)
  <2> SUFFICES ASSUME NEW g \in APPROVAL_NODES, Behind(g, q) PROVE Granted(k, g, apps) # {}
    BY DEF GatesPassed
  <2>1. CASE g < Len(r.steps)
    <3>1. Granted(k, g, approvals) # {}
      BY <1>3, <2>1 DEF Good, GatesPassed, Behind
    <3>2. Granted(k, g, approvals) \subseteq Granted(k, g, apps)
      BY <1>2 DEF Granted
    <3> QED
      BY <3>1, <3>2
  <2>2. CASE g = Len(r.steps)
    <3>1. g = apps[a].kind
      BY <1>2, <1>3, <2>2 DEF Good, InOrder
    <3> QED
      BY <1>2, <3>1 DEF Granted
  <2> QED
    BY <1>4, <2>1, <2>2 DEF Behind
<1>11. GrantsFit(k, q, apps)
  <2> SUFFICES ASSUME NEW g \in APPROVAL_NODES
               PROVE  /\ Behind(g, q) => \E b \in DOMAIN apps :
                           Granted(k, g, apps) = {b} /\ apps[b].material = Material(g, q.state)
                      /\ ~Behind(g, q) => Granted(k, g, apps) = {}
    BY DEF GrantsFit
  <2>1. Material(g, q.state) = Material(g, r.state)
    BY <1>4, <1>17, SameMaterial
  <2>2. r.node = Len(r.steps) /\ GrantsFit(k, r, approvals)
    BY <1>2, <1>3 DEF Good, InOrder
  <2>3. CASE g = Len(r.steps)
    <3>1. Behind(g, q) /\ ~Behind(g, r)
      BY <1>2, <1>3, <1>4, <1>7, <2>3, LenProperties DEF Behind, Run
    <3>2. Granted(k, g, approvals) = {}
      BY <1>7, <2>2, <3>1 DEF GrantsFit
    <3>3. g = apps[a].kind
      BY <1>2, <2>2, <2>3
    <3>4. Granted(k, g, apps) = {a}
      BY <1>2, <3>2, <3>3 DEF Granted
    <3>5. apps[a].material = Material(g, r.state)
      BY <1>2, <1>15, <3>3
    <3> QED
      BY <1>2, <2>1, <3>1, <3>4, <3>5
  <2>4. CASE g # Len(r.steps)
    <3>1. Behind(g, q) <=> Behind(g, r)
      BY <1>4, <2>4 DEF Behind
    <3>2. Granted(k, g, apps) = Granted(k, g, approvals)
      BY <1>2, <2>2, <2>4 DEF Granted
    <3>3. CASE Behind(g, r)
      <4>1. PICK b \in DOMAIN approvals : /\ Granted(k, g, approvals) = {b}
                                          /\ approvals[b].material = Material(g, r.state)
        BY <1>7, <2>2, <3>3 DEF GrantsFit
      <4>2. b # a
        BY <1>2, <4>1 DEF Granted
      <4> QED
        BY <1>2, <2>1, <3>1, <3>2, <3>3, <4>1, <4>2
    <3>4. CASE ~Behind(g, r)
      BY <1>7, <2>2, <3>1, <3>2, <3>4 DEF GrantsFit
    <3> QED
      BY <3>3, <3>4
  <2> QED
    BY <2>3, <2>4
<1>16. Good(k, q, apps)
  BY <1>2, <1>7, <1>8, <1>9, <1>10, <1>11 DEF Good, Awaits
<1>12. \A g : g # Len(r.steps) => Granted(k, g, apps) = Granted(k, g, approvals)
  <2> SUFFICES ASSUME NEW g, g # Len(r.steps) PROVE Granted(k, g, apps) = Granted(k, g, approvals)
    OBVIOUS
  <2>1. g # approvals[a].kind
    BY <1>2, <1>3 DEF Good, InOrder
  <2> QED
    BY <1>2, <2>1 DEF Granted
<1>13. k >= Len(runs)
  BY <1>2, <1>7, Rows DEF Inv, OneActiveRun, Going, Active, Latest, r
<1>14. Hand(k, q, project, project, apps, jobs)
  BY <1>2, <1>3, <1>4, <1>5, <1>7, <1>16, <1>17, <1>12, <1>13, Rows DEF Hand, SameProposal, r
<1> QED
  BY <1>1, <1>14, DispatchHandsOn DEF Dispatches

LEMMA RejectGood ==
  ASSUME Inv, RunsGood, NEW u \in Users, NEW a \in DOMAIN approvals, Reject(u, a)
  PROVE  RunsGood'
<1> DEFINE k    == approvals[a].run
           r    == runs[k]
           q    == [Moved(r, "failed") EXCEPT !.state.pending = 0]
           apps == Decided(a, u, "rejected")
<1>1. Decidable(u, a) /\ WriteRun(k, q) /\ approvals' = apps
  BY DEF Reject
<1>2. /\ k \in DOMAIN runs
      /\ OpenIn(k, apps) = {} /\ SameElsewhere(k, approvals, apps)
      /\ DOMAIN apps = DOMAIN approvals
      /\ \A b \in DOMAIN approvals : b # a => apps[b] = approvals[b]
      /\ apps[a].status = "rejected" /\ approvals[a].status = "pending"
  BY <1>1, Deciding DEF Decidable
<1>3. k \in 1 .. Len(runs) + 1 /\ r \in Run /\ Good(k, r, approvals)
  BY <1>2, Rows DEF RunsGood
<1>4. q \in Run /\ q.status = "failed" /\ q.steps = r.steps /\ q.startedBy = r.startedBy
  <2>1. r.state \in RunState /\ "failed" \in RunLifecycle
    BY <1>3 DEF Run, RunLifecycle
  <2>2. /\ Moved(r, "failed") \in Run /\ Moved(r, "failed").state = r.state
        /\ Moved(r, "failed").status = "failed" /\ Moved(r, "failed").steps = r.steps
    BY <1>3, <2>1, MovedRunType
  <2>3. Moved(r, "failed").startedBy = r.startedBy
    BY <1>3 DEF Moved, Run
  <2> QED
    BY <2>1, <2>2, <2>3 DEF Run, RunState
<1> HIDE DEF q, apps, r, k
<1>5. OnlyRun(k) /\ runs'[k] = q
  BY <1>1, <1>3, <1>4, Rows, WriteRunType
<1>6. \A b \in DOMAIN approvals :
        /\ approvals[b].status = "approved" => apps[b] = approvals[b]
        /\ apps[b].status = "approved" => apps[b] = approvals[b]
  BY <1>2
<1>7. Good(k, q, apps)
  BY <1>2, <1>3, <1>4, <1>6, Ended
<1> QED
  BY <1>1, <1>2, <1>5, <1>7, RunWritten

(* A revised proposal swaps the approval open for another about it.        *)
LEMMA ReviseGood ==
  ASSUME Inv, RunsGood, NEW u \in Users, NEW k \in DOMAIN runs, NEW proposal \in Revisions,
         ReviseConfiguration(u, k, proposal)
  PROVE  RunsGood'
<1> DEFINE r    == runs[k]
           old  == r.state.pending
           s    == [r.state EXCEPT !.config = proposal, !.base = workspace.applied,
                                   !.pending = Len(approvals) + 1]
           row  == [approvals[old] EXCEPT !.status = "cancelled",
                                          !.version = approvals[old].version + 1]
           new  == OpenApproval(k, ConfigurationApproval, u, s)
           mid  == [approvals EXCEPT ![old] = row]
           q    == [r EXCEPT !.state = s, !.version = r.version + 1]
<1>1. /\ r.status = "waiting_approval" /\ r.node = ConfigurationApproval
      /\ old \in DOMAIN approvals /\ approvals[old].status = "pending"
      /\ approvals' = Append(mid, new) /\ runs' = [runs EXCEPT ![k] = q]
  BY DEF ReviseConfiguration
<1>2. r \in Run /\ Good(k, r, approvals) /\ r.state \in RunState /\ k \in Nat
  BY Rows DEF RunsGood, Run
<1>3. s \in RunState /\ s.pending = Len(approvals) + 1
      /\ s.node = r.state.node /\ s.completed = r.state.completed
  <2>1. Len(approvals) + 1 \in Nat /\ proposal \in Proposals /\ workspace.applied \in Proposals
    BY Rows DEF Proposals
  <2> QED
    BY <1>2, <2>1 DEF RunState
<1>4. /\ q \in Run /\ q.status = r.status /\ q.node = r.node /\ q.steps = r.steps
      /\ q.startedBy = r.startedBy /\ q.state = s
  <2>1. r.version + 1 \in Nat
    BY <1>2 DEF Run
  <2> HIDE DEF s
  <2> QED
    BY <1>2, <1>3, <2>1 DEF Run
<1>5. /\ new \in Approval /\ new.run = k
      /\ new.status = "pending" /\ new.kind = r.node /\ new.material = Material(r.node, s)
  <2>1. ConfigurationApproval \in APPROVAL_NODES
    BY DEF APPROVAL_NODES
  <2> HIDE DEF s
  <2>2. new \in Approval /\ new.run = k
    BY <1>2, <1>3, <2>1, OpenApprovalType
  <2> QED
    BY <1>1, <2>2 DEF OpenApproval
<1>6. OpenIn(k, approvals) = {old}
  BY <1>1, <1>2 DEF Good, Awaits
<1>7. row \in Approval /\ row.status = "cancelled" /\ row.run = k
  <2>1. approvals[old] \in Approval /\ approvals[old].run = k
    <3>1. old \in OpenIn(k, approvals)
      BY <1>6
    <3> HIDE DEF old
    <3> QED
      BY <3>1, Rows DEF OpenIn
  <2>2. approvals[old].version + 1 \in Nat
    BY <2>1 DEF Approval
  <2> QED
    BY <2>1, <2>2 DEF Approval
<1> HIDE DEF row, new, s, q, old, r
<1>8. /\ mid \in Seq(Approval) /\ DOMAIN mid = DOMAIN approvals /\ Len(mid) = Len(approvals)
      /\ mid[old] = row /\ \A b \in DOMAIN approvals : b # old => mid[b] = approvals[b]
  BY <1>1, <1>7, Rows, UpdateType, LenProperties
<1> HIDE DEF mid
<1>9. /\ OpenIn(k, mid) = {} /\ SameElsewhere(k, approvals, mid)
      /\ \A g : Granted(k, g, mid) = Granted(k, g, approvals)
      /\ GrantsIndependent(k, r, mid)
  <2>1. OpenIn(k, mid) = {}
    BY <1>6, <1>7, <1>8 DEF OpenIn
  <2>2. SameElsewhere(k, approvals, mid)
    BY <1>1, <1>6, <1>7, <1>8 DEF SameElsewhere, OpenIn
  <2>3. \A g : Granted(k, g, mid) = Granted(k, g, approvals)
    BY <1>1, <1>7, <1>8 DEF Granted
  <2>4. GrantsIndependent(k, r, mid)
    BY <1>1, <1>2, <1>7, <1>8 DEF Good, GrantsIndependent
  <2> QED
    BY <2>1, <2>2, <2>3, <2>4
<1>10. /\ approvals'[s.pending] = new /\ OpenIn(k, approvals') = {s.pending}
       /\ \A g : Granted(k, g, approvals') = Granted(k, g, approvals)
       /\ SameElsewhere(k, mid, approvals')
       /\ GrantsIndependent(k, r, approvals')
  <2>1. /\ Append(mid, new)[Len(mid) + 1] = new
        /\ OpenIn(k, Append(mid, new)) = OpenIn(k, mid) \cup {Len(mid) + 1}
        /\ \A i, g : Granted(i, g, Append(mid, new)) = Granted(i, g, mid)
        /\ SameElsewhere(k, mid, Append(mid, new))
        /\ \A run : GrantsIndependent(k, run, mid) => GrantsIndependent(k, run, Append(mid, new))
    BY <1>5, <1>8, Opened
  <2>2. s.pending = Len(mid) + 1
    BY <1>3, <1>8
  <2>3. OpenIn(k, Append(mid, new)) = {Len(mid) + 1}
    BY <1>9, <2>1
  <2> QED
    BY <1>1, <1>9, <2>1, <2>2, <2>3
<1>11. SameElsewhere(k, approvals, approvals')
  BY <1>9, <1>10, SameElsewhereTwice
<1>12. InOrder(q)
  BY <1>2, <1>3, <1>4 DEF Good, InOrder, StartIndex, Active
<1>13. Awaits(k, q, approvals')
  BY <1>1, <1>4, <1>5, <1>10 DEF Awaits
<1>14. GrantsIndependent(k, q, approvals') /\ GatesPassed(k, q, approvals')
  BY <1>2, <1>4, <1>10 DEF Good, GrantsIndependent, GatesPassed, Behind, Active
<1>16. GrantsFit(k, q, approvals')
  <2>1. \A g : Behind(g, q) <=> Behind(g, r)
    BY <1>4 DEF Behind, Active
  <2>2. ASSUME NEW g \in APPROVAL_NODES, Behind(g, r)
        PROVE  Material(g, q.state) = Material(g, r.state)
    <3>1. Len(r.steps) = ConfigurationApproval /\ Len(r.steps) \in Nat
      BY <1>1, <1>2, LenProperties DEF Good, InOrder, Run
    <3>2. g < ConfigurationApproval \/ r.status # "waiting_approval"
      BY <2>2, <3>1 DEF Behind
    <3>3. g # ConfigurationApproval /\ g # ImportApproval
      BY <1>1, <3>2 DEF ConfigurationApproval, ImportApproval
    <3> QED
      BY <3>3, SameMaterial
  <2>3. \A g : Granted(k, g, approvals') = Granted(k, g, approvals)
    BY <1>10
  <2>4. \A a \in DOMAIN approvals : approvals[a].run = k /\ approvals[a].status = "approved" =>
          a \in DOMAIN approvals' /\ approvals'[a] = approvals[a]
    <3>1. \A a \in DOMAIN mid : a \in DOMAIN approvals' /\ approvals'[a] = mid[a]
      BY <1>1, <1>5, <1>8, Opened
    <3> QED
      BY <1>1, <1>8, <3>1
  <2>5. Active(q) => Active(r)
    BY <1>4 DEF Active
  <2> QED
    BY <1>2, <2>1, <2>2, <2>3, <2>4, <2>5, SameGrants DEF Good
<1>15. OnlyRun(k) /\ runs'[k] = q
  BY <1>1, <1>4, Rows, UpdateType, LenProperties DEF OnlyRun
<1> QED
  BY <1>11, <1>12, <1>13, <1>14, <1>15, <1>16, RunWritten DEF Good

LEMMA ValidateHand ==
  ASSUME Inv, RunsGood, NEW u \in Users, NEW k \in DOMAIN runs, ValidateImport(u, k, TRUE)
  PROVE  Dispatches
<1> DEFINE jbs == Append(jobs, UploadedJob(k, TRUE))
           r   == runs[k]
           q   == [Moved(r, "running") EXCEPT !.state.job = Len(jbs)]
<1>1. Dispatch(k, q, project, project, approvals, jbs) /\ r.status = "preparing_materials"
  BY DEF ValidateImport
<1>2. k \in 1 .. Len(runs) + 1 /\ r \in Run /\ Good(k, r, approvals)
  BY Rows DEF RunsGood
<1>3. /\ jbs \in Seq(Job) /\ Len(jbs) \in DOMAIN jbs /\ Len(jbs) \in Nat
      /\ DOMAIN jobs \subseteq DOMAIN jbs
      /\ jbs[Len(jbs)].run = k
      /\ \A j \in DOMAIN jbs : IF j \in DOMAIN jobs THEN jbs[j] = jobs[j] ELSE jbs[j].result = "none"
  BY <1>2, Uploaded
<1> HIDE DEF jbs
<1>4. /\ q \in Run /\ q.status = "running" /\ q.steps = r.steps /\ q.startedBy = r.startedBy
      /\ q.state.node = r.state.node /\ q.state.completed = r.state.completed
      /\ q.state.job = Len(jbs)
      /\ q.state.config = r.state.config /\ q.state.base = r.state.base
  <2>1. r.state \in RunState /\ "running" \in RunLifecycle
    BY <1>2 DEF Run, RunLifecycle
  <2>2. /\ Moved(r, "running") \in Run /\ Moved(r, "running").state = r.state
        /\ Moved(r, "running").status = "running" /\ Moved(r, "running").steps = r.steps
    BY <1>2, <2>1, MovedRunType
  <2>3. Moved(r, "running").startedBy = r.startedBy
    BY <1>2 DEF Moved, Run
  <2> QED
    BY <1>3, <2>1, <2>2, <2>3 DEF Run, RunState
<1>5. Active(r)
  BY <1>1 DEF Active, ActiveStatuses
<1>6. k >= Len(runs)
  BY <1>5, Rows DEF Inv, OneActiveRun, Going, Active, Latest
<1> HIDE DEF q
<1>7. Active(q)
  BY <1>4 DEF Active, ActiveStatuses
<1>10. ASSUME NEW g \in APPROVAL_NODES, Behind(g, r)
       PROVE  Material(g, q.state) = Material(g, r.state)
  <2>1. Len(r.steps) = ValidateImportFiles - 1
    BY <1>1, <1>2 DEF Good, InOrder
  <2>2. g # ImportApproval
    BY <1>10, <2>1 DEF Behind, ValidateImportFiles, ImportApproval
  <2> QED
    BY <1>4, <2>2, SameMaterial
<1>8. Good(k, q, approvals)
  BY <1>1, <1>2, <1>4, <1>5, <1>10, Resumed
<1>11. Len(q.steps) < ExecuteImport
  <2>1. Len(r.steps) = ValidateImportFiles - 1
    BY <1>1, <1>2 DEF Good, InOrder
  <2> QED
    BY <1>4, <2>1 DEF ValidateImportFiles, ExecuteImport
<1>9. Hand(k, q, project, project, approvals, jbs)
  BY <1>2, <1>3, <1>4, <1>5, <1>6, <1>7, <1>8, <1>11, Rows DEF Hand, SameProposal
<1> QED
  BY <1>1, <1>9, DispatchHandsOn DEF Dispatches

(* A node done by a worker, or the run of its event ended by it.           *)
LEMMA WorkerGood ==
  ASSUME Inv, RunsGood, NEW w \in Workers
  PROVE  /\ StepNode(w) => Dispatches
         /\ StepDeleted(w) => RunsGood'
         /\ FailRun(w) => RunsGood'
<1> DEFINE k == EventOf(w).run
           r == runs[k]
<1>1. ASSUME ~At(w, "idle"), Executing(k)
      PROVE  /\ k \in DOMAIN runs /\ k \in 1 .. Len(runs) + 1 /\ r \in Run
             /\ Begun(r) \in Run /\ Good(k, r, approvals) /\ OpenIn(k, approvals) = {}
             /\ Active(r) /\ r.status # "waiting_approval" /\ r.status \in {"pending", "running"}
             /\ Begun(r).steps = r.steps /\ Begun(r).startedBy = r.startedBy
             /\ Begun(r).state = r.state
  <2>1. k \in DOMAIN runs /\ k \in 1 .. Len(runs) + 1 /\ r \in Run
    BY <1>1, HeldRun
  <2>2. r.status \in {"pending", "running"}
    BY <1>1 DEF Executing
  <2>3. Good(k, r, approvals)
    BY <2>1 DEF RunsGood
  <2>4. Active(r) /\ r.status # "waiting_approval"
    BY <2>2 DEF Active, ActiveStatuses
  <2>5. Begun(r) \in Run
    BY <2>1, BegunType
  <2>6. Begun(r).steps = r.steps /\ Begun(r).startedBy = r.startedBy /\ Begun(r).state = r.state
    BY <2>1 DEF Begun, Moved, Run
  <2>7. OpenIn(k, approvals) = {}
    BY <2>3, <2>4 DEF Good, Awaits
  <2> HIDE DEF r, k
  <2> QED
    BY <2>1, <2>2, <2>3, <2>4, <2>5, <2>6, <2>7
<1>2. ASSUME StepNode(w) PROVE Dispatches
  <2>1. ~At(w, "idle") /\ Executing(k) /\ Advance(k, Begun(r), project, project, approvals, jobs, TRUE)
    BY <1>2 DEF StepNode, At
  <2>2. PICK last \in StartIndex(Begun(r).state) .. CloseProject, ready \in BOOLEAN,
             result \in {"completed", "partial_failed"} :
          Segment(k, Begun(r), project, project, approvals, jobs, TRUE, last, ready, result)
    BY <2>1 DEF Advance
  <2>3. Begun(r).status \in {"pending", "running"}
    BY <2>2 DEF Segment
  <2>4. Good(k, Begun(r), approvals)
    BY <1>1, <2>1, <2>3, Resumed
  <2>5. Active(Begun(r))
    BY <2>3 DEF Active, ActiveStatuses
  <2>6. k >= Len(runs)
    BY <2>1, HeldRun, Rows
  <2>7. Hand(k, Begun(r), project, project, approvals, jobs)
    BY <1>1, <2>1, <2>4, <2>5, <2>6, Rows DEF Hand, SameProposal
  <2>8. HandedOn(k, Begun(r), project, project, approvals, jobs)
    BY <2>1 DEF HandedOn
  <2> QED
    BY <2>7, <2>8 DEF Dispatches
<1>3. ASSUME NEW status \in {"failed", "cancelled"}, ~At(w, "idle"), Executing(k),
             runs' = [runs EXCEPT ![k] = Moved(Begun(@), status)], UNCHANGED approvals
      PROVE  RunsGood'
  <2> DEFINE q == Moved(Begun(r), status)
  <2>1. q \in Run /\ q.status = status /\ q.steps = Begun(r).steps /\ q.startedBy = Begun(r).startedBy
    <3>1. status \in RunLifecycle
      BY DEF RunLifecycle
    <3>2. Begun(r) \in Run
      BY <1>1, <1>3
    <3>3. q.startedBy = Begun(r).startedBy
      BY <3>2 DEF Moved, Run
    <3> QED
      BY <3>1, <3>2, <3>3, MovedRunType
  <2>2. runs' = [runs EXCEPT ![k] = q]
    BY <1>3
  <2>3. /\ k \in DOMAIN runs /\ Good(k, r, approvals) /\ OpenIn(k, approvals) = {}
        /\ q.steps = r.steps /\ q.startedBy = r.startedBy
    BY <1>1, <1>3, <2>1
  <2> HIDE DEF k, r, q
  <2>4. OnlyRun(k) /\ runs'[k] = q
    BY <2>1, <2>2, <2>3, Rows, UpdateType, LenProperties DEF OnlyRun
  <2>5. Good(k, q, approvals)
    BY <2>1, <2>3, Ended
  <2> QED
    BY <1>3, <2>4, <2>5, Rows, RunWritten
<1>4. ASSUME StepDeleted(w) PROVE RunsGood'
  BY <1>3, <1>4 DEF StepDeleted, At
<1>5. ASSUME FailRun(w) PROVE RunsGood'
  <2>1. CASE UNCHANGED runs
    BY <1>5, <2>1 DEF FailRun, RunsGood
  <2>2. CASE Executing(k) /\ runs' = [runs EXCEPT ![k] = Moved(Begun(@), "failed")]
    BY <1>3, <1>5, <2>2 DEF FailRun, At
  <2> QED
    BY <1>5, <2>1, <2>2 DEF FailRun
<1> QED
  BY <1>2, <1>4, <1>5

LEMMA NextGood ==
  ASSUME Inv, RunsGood, [Next]_vars
  PROVE  RunsGood'
<1>0. Dispatches => RunsGood'
  BY Rows, HandedGood
<1>1. CASE UNCHANGED <<runs, approvals>>
  BY <1>1 DEF RunsGood
<1>2. CASE RunsNext
  <2>1. ASSUME NEW c \in Clients, NEW u \in Users
        PROVE  /\ BeginStart(c, u) => UNCHANGED <<runs, approvals>>
               /\ \A k : BeginCancel(c, u, k) => UNCHANGED <<runs, approvals>>
               /\ \A j : BeginRetry(c, u, j) => UNCHANGED <<runs, approvals>>
               /\ Abandon(c) => UNCHANGED <<runs, approvals>>
    BY DEF BeginStart, BeginCancel, BeginRetry, Abandon, dbVars
  <2>2. ASSUME NEW u \in Users, NEW j, NEW a, NEW result
        PROVE  /\ ExecuteJob(u, j, a, result) => UNCHANGED <<runs, approvals>>
               /\ ReviseMaterials(u, a) => UNCHANGED <<runs, approvals>>
               /\ DeleteProject(u) => UNCHANGED <<runs, approvals>>
               /\ RestoreProject(u) => UNCHANGED <<runs, approvals>>
               /\ ChangeAccess(u, a) => UNCHANGED <<runs, approvals>>
    BY DEF ExecuteJob, ReviseMaterials, DeleteProject, RestoreProject, ChangeAccess, dbVars
  <2>3. ASSUME NEW c \in Clients PROVE Abandon(c) => UNCHANGED <<runs, approvals>>
    BY DEF Abandon, dbVars
  <2>4. ASSUME NEW u \in Users, NEW k \in DOMAIN runs, NEW valid \in BOOLEAN,
               ValidateImport(u, k, valid)
        PROVE  RunsGood'
    <3>1. CASE valid = FALSE
      BY <1>1, <2>4, <3>1 DEF ValidateImport
    <3>2. CASE valid = TRUE
      BY <1>0, <2>4, <3>2, ValidateHand
    <3> QED
      BY <3>1, <3>2
  <2>5. /\ \A c \in Clients : CommitStart(c) \/ CommitRetry(c) => RunsGood'
        /\ \A u \in Users, a \in DOMAIN approvals : Approve(u, a) => RunsGood'
    BY <1>0, StartHand, ApproveHand
  <2> QED
    BY <1>1, <1>2, <2>1, <2>2, <2>3, <2>4, <2>5, CancelGood, RejectGood, ReviseGood DEF RunsNext
<1>3. CASE WorkerNext
  <2>1. ASSUME NEW w, NEW e
        PROVE  /\ Publish(e) \/ Lose(e) => UNCHANGED <<runs, approvals>>
               /\ Receive(w, e) => UNCHANGED <<runs, approvals>>
    BY DEF Publish, Lose, Receive, Take, TakeRefused, Skip, runsVars
  <2>2. ASSUME NEW w \in Workers, NEW http \in BOOLEAN
        PROVE  /\ StepStopped(w) => UNCHANGED <<runs, approvals>>
               /\ StepRetried(w) \/ StepFails(w, http) => UNCHANGED <<runs, approvals>>
               /\ CommitFailed(w) \/ CommitDone(w) \/ Crash(w) => UNCHANGED <<runs, approvals>>
    BY DEF StepStopped, StepRetried, StepFails, CommitFailed, CommitDone, Crash, runsVars
  <2> QED
    BY <1>0, <1>1, <1>3, <2>1, <2>2, WorkerGood DEF WorkerNext, WorkerStep
<1> QED
  BY <1>1, <1>2, <1>3 DEF Next, vars

LEMMA GoodAlways == Spec => [](Inv /\ RunsGood)
<1>1. Init => RunsGood
  BY DEF Init, RunsInit, RunsGood
<1> QED
  BY <1>1, InitInv, NextInv, NextGood, PTL DEF Spec

-----------------------------------------------------------------------------
(* The theorems about the rows of a run *)

(* Whatever is redelivered, retried or resumed, a run records every node   *)
(* once and in the order of the workflow (advance, _record, next_node).    *)
THEOREM NodesRunOnceInOrder == Spec => []NodesOnceInOrder
<1>1. RunsGood => NodesOnceInOrder
  BY DEF RunsGood, Good, InOrder, NodesOnceInOrder
<1> QED
  BY <1>1, GoodAlways, PTL

(* A run waits for an approval exactly while one approval of it is open,   *)
(* the one its state names, for the node it stands at and about the        *)
(* material it has now: a cancelled, superseded or failed run leaves       *)
(* nothing behind to decide (cancel_run, revise_configuration, decide).    *)
THEOREM WaitsForOneApproval == Spec => []OpenApprovalIffWaiting
<1>1. RunsGood => OpenApprovalIffWaiting
  BY DEF RunsGood, Good, Awaits, OpenApprovalIffWaiting, OpenIn, Open
<1> QED
  BY <1>1, GoodAlways, PTL

(* No run gets past an approval node unless an approval of that kind was   *)
(* granted to this very run by someone who neither started it nor asked,   *)
(* the owner of a personal space apart (decide).                           *)
THEOREM GatesArePassedIndependently == Spec => []GatesIndependent
<1>1. RunsGood => GatesIndependent
  <2> SUFFICES ASSUME RunsGood, NEW k \in DOMAIN runs, NEW g \in APPROVAL_NODES,
                      g < Len(runs[k].steps)
               PROVE  \E a \in Granted(k, g, approvals) : Independent(a)
    BY DEF GatesIndependent
  <2>1. Good(k, runs[k], approvals)
    BY DEF RunsGood
  <2>2. PICK a \in Granted(k, g, approvals) : TRUE
    BY <2>1 DEF Good, GatesPassed, Behind
  <2>3. IndependentRow(approvals[a], runs[k].startedBy) /\ approvals[a].run = k
    BY <2>1, <2>2 DEF Good, GrantsIndependent, Granted
  <2> QED
    BY <2>2, <2>3 DEF Independent, IndependentRow
<1> QED
  BY <1>1, GoodAlways, PTL

-----------------------------------------------------------------------------
(* What takes effect *)

(* The proposal of a run after the nodes of a segment.                     *)
Proposed(q, r, segment) ==
  IF GenerateChanges \in segment
  THEN q.state.config = "standard" /\ q.state.base = workspace.applied
  ELSE SameProposal(q, r)

(* The steps and approvals a segment leaves behind.                        *)
Reached(k, r, apps, last) ==
  /\ StartIndex(r.state) = Len(r.steps) + 1 /\ Len(r.steps) \in 0 .. 16
  /\ last \in Len(r.steps) + 1 .. 17
  /\ \A n \in Len(r.steps) + 1 .. last - 1 : n \notin APPROVAL_NODES
  /\ OnlyRun(k) /\ runs'[k].state.job = r.state.job /\ runs'[k].startedBy = r.startedBy
  /\ Len(runs'[k].steps) = last
     \/ (Len(runs'[k].steps) = last - 1 /\ last = ValidateImportFiles)
  /\ Proposed(runs'[k], r, Len(r.steps) + 1 .. last)
  /\ \A i, g : Granted(i, g, approvals') = Granted(i, g, apps)
  /\ \A a \in DOMAIN apps : a \in DOMAIN approvals' /\ approvals'[a] = apps[a]

LEMMA SegmentReaches ==
  ASSUME RowsOK, NEW k, NEW r, NEW loaded, NEW p, NEW apps, NEW jbs,
         Hand(k, r, loaded, p, apps, jbs), NEW oneNode,
         NEW last \in StartIndex(r.state) .. CloseProject, NEW ready, NEW result,
         Segment(k, r, loaded, p, apps, jbs, oneNode, last, ready, result)
  PROVE  Reached(k, r, apps, last)
<1>1. /\ k \in 1 .. Len(runs) + 1 /\ r \in Run /\ p \in Project /\ apps \in Seq(Approval)
      /\ Active(r) /\ InOrder(r)
  BY DEF Hand, Good
<1> DEFINE first == StartIndex(r.state)
<1>2. /\ first \in 1 .. 18 /\ last \in Nodes /\ last \in first .. 17
      /\ \A n \in first .. last - 1 : n \notin APPROVAL_NODES
  BY <1>1, AdvanceOutcome DEF CloseProject
<1>3. PICK recorded \in first - 1 .. 17, done \in 0 .. 17, status \in RunLifecycle, pending \in Nat :
        /\ Outcome(k, r, apps, last, recorded, done, status, pending)
        /\ RanFrom(runs'[k], r, last, recorded, done, status, pending)
        /\ OnlyRun(k)
  BY <1>1, AdvanceOutcome
<1>4. first = Len(r.steps) + 1 /\ r.steps \in Seq(Nodes) /\ Len(r.steps) \in Nat
      /\ \A i \in DOMAIN r.steps : r.steps[i] = i
  <2>1. r.steps \in Seq(Nodes)
    BY <1>1 DEF Run
  <2> QED
    BY <1>1, <2>1, LenProperties DEF InOrder
<1> HIDE DEF first
<1>5. Len(r.steps) = first - 1 /\ Len(r.steps) \in 0 .. 16
  <2>1. first \in 1 .. 17
    BY <1>2
  <2> DEFINE n == Len(r.steps)
  <2>2. n \in Nat /\ first = n + 1
    BY <1>4
  <2> HIDE DEF n
  <2>3. n = first - 1 /\ n \in 0 .. 16
    BY <2>1, <2>2
  <2> QED
    BY <2>3 DEF n
<1>6. Len(runs'[k].steps) = recorded
  <2>1. recorded \in first - 1 .. 17
    OBVIOUS
  <2>2. Len(r.steps \o NewSteps(first, recorded)) = recorded
    <3>1. first \in 1 .. 18 /\ Len(r.steps) = first - 1
      BY <1>2, <1>5
    <3> QED
      BY <1>4, <2>1, <3>1, StepsAdded
  <2> QED
    BY <1>3, <2>2 DEF RanFrom, first
<1>7. recorded = last \/ (recorded = last - 1 /\ last = ValidateImportFiles)
  BY <1>3 DEF Outcome
<1>8. /\ \A i, g : Granted(i, g, approvals') = Granted(i, g, apps)
      /\ \A a \in DOMAIN apps : a \in DOMAIN approvals' /\ approvals'[a] = apps[a]
  <2>1. CASE approvals' = apps
    BY <2>1
  <2>2. CASE /\ last \in APPROVAL_NODES
             /\ approvals' = Append(apps, OpenApproval(k, last, r.startedBy,
                                 StateThrough(r.state, last, last, workspace.applied)))
    <3> DEFINE after == StateThrough(r.state, last, last, workspace.applied)
               row   == OpenApproval(k, last, r.startedBy, after)
    <3>1. after \in RunState /\ r.startedBy \in Users /\ k \in Nat
      <4>1. r.state \in RunState /\ workspace.applied \in Proposals /\ r.startedBy \in Users
        BY <1>1 DEF Run, RowsOK
      <4>2. k \in Nat
        BY <1>1, LenProperties DEF RowsOK
      <4>3. last \in 0 .. 17
        BY <1>2 DEF Nodes
      <4> QED
        BY <1>2, <4>1, <4>2, <4>3, StateType
    <3> HIDE DEF after
    <3>2. row \in Approval /\ row.run = k /\ row.status = "pending"
      BY <2>2, <3>1, OpenApprovalType DEF OpenApproval
    <3>3. approvals' = Append(apps, row)
      BY <2>2 DEF after
    <3> HIDE DEF row
    <3>4. \A i, g : Granted(i, g, Append(apps, row)) = Granted(i, g, apps)
      BY <1>1, <3>2, Opened
    <3>5. \A a \in DOMAIN apps : a \in DOMAIN Append(apps, row) /\ Append(apps, row)[a] = apps[a]
      <4>1. /\ DOMAIN apps = 1 .. Len(apps) /\ Len(apps) \in Nat
            /\ Append(apps, row) \in Seq(Approval) /\ Len(Append(apps, row)) = Len(apps) + 1
            /\ \A a \in 1 .. Len(apps) : Append(apps, row)[a] = apps[a]
        BY <1>1, <3>2, AppendProperties, LenProperties
      <4>2. DOMAIN Append(apps, row) = 1 .. Len(apps) + 1
        BY <4>1, LenProperties
      <4> QED
        BY <4>1, <4>2
    <3> QED
      BY <3>3, <3>4, <3>5
  <2> QED
    BY <1>3, <2>1, <2>2 DEF Outcome
<1>9. Proposed(runs'[k], r, Len(r.steps) + 1 .. last)
  <2>1. Proposed(runs'[k], r, first .. last)
    <3>1. GenerateChanges \in first .. last <=> GenerateChanges \in first .. done
      <4>1. done = last \/ (done = last - 1 /\ last \in {ValidateImportFiles, RunGoLiveChecks})
        BY <1>3 DEF Outcome
      <4> QED
        BY <1>2, <4>1 DEF GenerateChanges, ValidateImportFiles, RunGoLiveChecks
    <3>2. r.state \in RunState
      BY <1>1 DEF Run
    <3>3. /\ runs'[k].state.config = StateThrough(r.state, last, done, workspace.applied).config
          /\ runs'[k].state.base = StateThrough(r.state, last, done, workspace.applied).base
      BY <1>3 DEF RanFrom
    <3> QED
      BY <3>1, <3>2, <3>3 DEF StateThrough, RunState, Proposed, SameProposal, first
  <2> QED
    BY <1>4, <2>1
<1> QED
  BY <1>2, <1>3, <1>4, <1>5, <1>6, <1>7, <1>8, <1>9 DEF RanFrom, first, Reached

(* No job but the run's own is executed, and that one with its grant; what *)
(* it came to under the proposal in the workspace, it comes to again.      *)
Executes(k, r, apps, jbs, segment) ==
  /\ DOMAIN jobs' = DOMAIN jbs
  /\ \A j \in DOMAIN jbs :
       /\ jobs'[j].run = jbs[j].run
       /\ Current(j, jbs, workspace'.applied) => jobs'[j] = jbs[j]
       /\ jobs'[j] # jbs[j] => j = r.state.job /\ Receipt(k, ImportApproval, r.state, apps)
  /\ ExecuteImport \in segment /\ r.state.job \in DOMAIN jbs =>
       Current(r.state.job, jobs', workspace'.applied)

(* The import, the proposal applied and the project a segment leaves.      *)
Wrote(k, r, loaded, p, apps, jbs, segment, last) ==
  /\ Executes(k, r, apps, jbs, segment)
  /\ IF ApplyConfiguration \in segment
     THEN /\ workspace'.applied = r.state.config
          /\ Receipt(k, ConfigurationApproval, r.state, apps)
     ELSE workspace'.applied = workspace.applied
  /\ RunGoLiveChecks \in segment /\ project.migration =>
       \/ WriteProject(loaded, Moved(p, "blocked"))
       \/ r.state.job # 0 /\ jobs'[r.state.job].result = "completed"
  /\ project'.migration = project.migration
  /\ \/ WriteProject(loaded, p)
     \/ last = RunGoLiveChecks /\ WriteProject(loaded, Moved(p, "blocked"))
     \/ /\ last = CloseProject /\ CanMoveProject(p, "completed")
        /\ WriteProject(loaded, Moved(p, "completed"))

LEMMA SegmentWrites ==
  ASSUME project \in Project,
         NEW k, NEW r \in Run, NEW loaded, NEW p, NEW apps, NEW jbs \in Seq(Job), NEW oneNode,
         NEW last \in StartIndex(r.state) .. CloseProject, NEW ready,
         NEW result \in {"completed", "partial_failed"},
         Segment(k, r, loaded, p, apps, jbs, oneNode, last, ready, result)
  PROVE  Wrote(k, r, loaded, p, apps, jbs, StartIndex(r.state) .. last, last)
<1> DEFINE segment == StartIndex(r.state) .. last
           j0      == r.state.job
           imports == ExecuteImport \in segment /\ j0 # 0
           applied == Applied(segment, r.state)
           jbs2    == IF imports THEN [jbs EXCEPT ![j0] = Executed(@, applied, result)] ELSE jbs
           after   == StateThrough(r.state, last, last, workspace.applied)
<1>1. /\ \A n \in segment : MayRun(k, n, r, p, apps)
      /\ (RunGoLiveChecks \in segment /\ ready) =>
           CanBeReady(k, after, apps, jbs2, applied)
      /\ jobs' = jbs2
      /\ workspace' = [applied |-> applied]
      /\ \/ WriteProject(loaded, p)
         \/ last = RunGoLiveChecks /\ WriteProject(loaded, Moved(p, "blocked"))
         \/ last = CloseProject /\ WriteProject(loaded, Moved(p, "completed"))
  BY DEF Segment
<1>2. after.job = j0
  BY DEF StateThrough, Run, RunState
<1>3. imports => Receipt(k, ImportApproval, r.state, apps)
  BY <1>1 DEF MayRun
<1>4. ApplyConfiguration \in segment => Receipt(k, ConfigurationApproval, r.state, apps)
  BY <1>1 DEF MayRun
<1>5. last = CloseProject /\ last \in segment => CanMoveProject(p, "completed")
  BY <1>1 DEF MayRun
<1>6. workspace'.applied = IF ApplyConfiguration \in segment THEN r.state.config
                           ELSE workspace.applied
  BY <1>1 DEF Applied
<1>7. (RunGoLiveChecks \in segment /\ ready /\ project.migration) =>
        j0 # 0 /\ jobs'[j0].result = "completed"
  BY <1>1, <1>2 DEF CanBeReady
<1>8. RunGoLiveChecks \in segment /\ ~ready => WriteProject(loaded, Moved(p, "blocked"))
  <2> SUFFICES ASSUME RunGoLiveChecks \in segment, ~ready
               PROVE  WriteProject(loaded, Moved(p, "blocked"))
    OBVIOUS
  <2>1. last = RunGoLiveChecks
    BY DEF Segment, RunGoLiveChecks, CloseProject
  <2>2. last \notin APPROVAL_NODES /\ last # ValidateImportFiles /\ last # CloseProject
    BY <2>1 DEF RunGoLiveChecks, CloseProject, ValidateImportFiles, APPROVAL_NODES, PlanApproval,
       ConfigurationApproval, ImportApproval, AcceptanceApproval
  <2> QED
    BY <2>1, <2>2 DEF Segment
<1>12. j0 \in DOMAIN jbs => j0 # 0
  BY LenProperties
<1>13. workspace'.applied = applied
  BY <1>1
<1> HIDE DEF imports, j0, after, segment, applied
<1>9. /\ DOMAIN jobs' = DOMAIN jbs
      /\ \A j \in DOMAIN jbs :
           /\ jobs'[j].run = jbs[j].run
           /\ Current(j, jbs, applied) => jobs'[j] = jbs[j]
           /\ jobs'[j] # jbs[j] => j = j0 /\ imports
      /\ imports /\ j0 \in DOMAIN jbs => Current(j0, jobs', applied)
  <2>1. CASE ~imports
    BY <1>1, <2>1
  <2>2. CASE imports
    <3> DEFINE row == Executed(jbs[j0], applied, result)
    <3>1. jobs' = [jbs EXCEPT ![j0] = row]
      BY <1>1, <2>2
    <3>3. ASSUME j0 \in DOMAIN jbs
          PROVE  /\ row.run = jbs[j0].run
                 /\ Current(j0, jbs, applied) => row = jbs[j0]
                 /\ row.result # "none" /\ row.under = applied
      <4>1. jbs[j0] \in Job
        BY <3>3
      <4> QED
        BY <4>1 DEF Executed, Current, Job
    <3> HIDE DEF row
    <3>2. DOMAIN jobs' = DOMAIN jbs
          /\ \A j \in DOMAIN jbs : jobs'[j] = IF j = j0 THEN row ELSE jbs[j]
      BY <3>1
    <3> QED
      BY <2>2, <3>2, <3>3 DEF Current
  <2> QED
    BY <2>1, <2>2
<1>14. Executes(k, r, apps, jbs, segment)
  BY <1>3, <1>9, <1>12, <1>13 DEF Executes, imports, j0
<1>10. project'.migration = project.migration
  BY <1>1 DEF WriteProject, Project
<1>11. last \in segment
  BY DEF segment
<1> QED
  BY <1>1, <1>4, <1>5, <1>6, <1>7, <1>8, <1>10, <1>11, <1>14 DEF segment, j0, Wrote

(* All that a dispatch does, whether it goes through the nodes up to last  *)
(* or leaves the run where it is.                                          *)
Effect(k, r, apps, jbs, last) ==
  LET len == Len(r.steps)  segment == len + 1 .. last  j0 == r.state.job  q == runs'[k]
  IN
  /\ len \in 0 .. 17 /\ last \in len .. 17
  /\ \A n \in len + 1 .. last - 1 : n \notin APPROVAL_NODES
  /\ OnlyRun(k) /\ q.state.job = j0 /\ q.startedBy = r.startedBy
  /\ Len(q.steps) \in len .. 17
  /\ Len(q.steps) = last \/ (Len(q.steps) = last - 1 /\ last = ValidateImportFiles)
  /\ Proposed(q, r, segment)
  /\ \A i, g : Granted(i, g, approvals') = Granted(i, g, apps)
  /\ \A a \in DOMAIN apps : a \in DOMAIN approvals' /\ approvals'[a] = apps[a]
  /\ Executes(k, r, apps, jbs, segment)
  /\ IF ApplyConfiguration \in segment
     THEN /\ workspace'.applied = r.state.config
          /\ Receipt(k, ConfigurationApproval, r.state, apps)
     ELSE workspace'.applied = workspace.applied
  /\ (RunGoLiveChecks \in segment /\ project.migration /\ project'.status = "in_progress") =>
       j0 # 0 /\ jobs'[j0].result = "completed"
  /\ project'.migration = project.migration
  /\ k \in DOMAIN runs /\ project'.status = "in_progress" => project.status = "in_progress"
  /\ project'.status = "completed" =>
       project.status = "completed"
       \/ (k \in DOMAIN runs /\ last = CloseProject /\ len < last /\ project.status = "in_progress")

LEMMA ProjectWritten ==
  ASSUME RowsOK, NEW k, NEW r, NEW loaded, NEW p, NEW apps, NEW jbs, NEW last,
         Hand(k, r, loaded, p, apps, jbs), Reached(k, r, apps, last),
         Wrote(k, r, loaded, p, apps, jbs, StartIndex(r.state) .. last, last)
  PROVE  /\ k \in DOMAIN runs /\ WriteProject(loaded, Moved(p, "blocked")) =>
              project'.status = "blocked"
         /\ k \in DOMAIN runs /\ project'.status = "in_progress" => project.status = "in_progress"
         /\ k \notin DOMAIN runs => last < RunGoLiveChecks
         /\ project'.status = "completed" =>
              project.status = "completed"
              \/ (k \in DOMAIN runs /\ last = CloseProject /\ project.status = "in_progress")
<1>1. project \in Project /\ p \in Project
  BY DEF Hand, RowsOK
<1>2. \/ WriteProject(loaded, p)
      \/ last = RunGoLiveChecks /\ WriteProject(loaded, Moved(p, "blocked"))
      \/ /\ last = CloseProject /\ CanMoveProject(p, "completed")
         /\ WriteProject(loaded, Moved(p, "completed"))
  BY DEF Wrote
<1>3. /\ last \in Len(r.steps) + 1 .. 17
      /\ \A n \in Len(r.steps) + 1 .. last - 1 : n \notin APPROVAL_NODES
  BY DEF Reached
<1>4. Moved(p, "blocked").status = "blocked" /\ Moved(p, "completed").status = "completed"
  BY <1>1 DEF Moved, Project
<1>5. CASE k \in DOMAIN runs
  <2>1. loaded = project /\ p = project
    BY <1>5 DEF Hand
  <2>2. WriteProject(loaded, p) => project' = project
    BY <2>1 DEF WriteProject
  <2>3. WriteProject(loaded, Moved(p, "blocked")) => project'.status = "blocked"
    BY <1>1, <1>4, <2>1 DEF WriteProject, Project
  <2>4. WriteProject(loaded, Moved(p, "completed")) => project'.status = "completed"
    BY <1>1, <1>4, <2>1 DEF WriteProject, Project
  <2>5. CanMoveProject(p, "completed") => project.status \in {"in_progress", "completed"}
    <3>1. PROJECT_TRANSITIONS[project.status] =
            CASE project.status = "draft"       -> {"ready", "in_progress", "cancelled"}
              [] project.status = "ready"       -> {"in_progress", "cancelled"}
              [] project.status = "in_progress" -> {"blocked", "completed", "cancelled"}
              [] project.status = "blocked"     -> {"in_progress", "cancelled"}
              [] project.status = "completed"   -> {"archived"}
              [] project.status = "cancelled"   -> {"archived"}
              [] project.status = "archived"    -> {}
      BY <1>1 DEF PROJECT_TRANSITIONS, Project
    <3>2. project.status \in ProjectLifecycle
      BY <1>1 DEF Project
    <3> QED
      BY <2>1, <3>1, <3>2 DEF CanMoveProject, CanMove, ProjectLifecycle
  <2> QED
    BY <1>2, <1>5, <2>2, <2>3, <2>4, <2>5
<1>6. CASE k \notin DOMAIN runs
  <2>1. r.steps = <<>> /\ p.status = "in_progress"
    BY <1>6 DEF Hand
  <2>2. last \in 1 .. 17 /\ \A n \in 1 .. last - 1 : n \notin APPROVAL_NODES
    <3>1. Len(r.steps) = 0
      BY <2>1
    <3> QED
      BY <1>3, <3>1
  <2>3. last <= 6
    <3>1. 6 \in APPROVAL_NODES
      BY DEF APPROVAL_NODES, PlanApproval
    <3> QED
      BY <2>2, <3>1
  <2>4. last < RunGoLiveChecks /\ last # RunGoLiveChecks /\ last # CloseProject
    BY <2>2, <2>3 DEF RunGoLiveChecks, CloseProject
  <2>5. WriteProject(loaded, p)
    BY <1>2, <2>4
  <2>6. project'.status = "completed" => project.status = "completed"
    BY <1>1, <2>1, <2>5 DEF WriteProject, Project
  <2> QED
    BY <1>6, <2>4, <2>6
<1> QED
  BY <1>5, <1>6

LEMMA HandedEffect ==
  ASSUME RowsOK, NEW k, NEW r, NEW loaded, NEW p, NEW apps, NEW jbs,
         Hand(k, r, loaded, p, apps, jbs), HandedOn(k, r, loaded, p, apps, jbs)
  PROVE  \E last \in 0 .. 17 : Effect(k, r, apps, jbs, last)
<1>1. /\ k \in 1 .. Len(runs) + 1 /\ r \in Run /\ jbs \in Seq(Job) /\ InOrder(r)
      /\ project \in Project
  BY DEF Hand, Good, RowsOK
<1>2. ASSUME NEW oneNode \in BOOLEAN, Advance(k, r, loaded, p, apps, jbs, oneNode)
      PROVE  \E last \in 0 .. 17 : Effect(k, r, apps, jbs, last)
  <2>1. PICK last \in StartIndex(r.state) .. CloseProject, ready \in BOOLEAN,
             result \in {"completed", "partial_failed"} :
          Segment(k, r, loaded, p, apps, jbs, oneNode, last, ready, result)
    BY <1>2 DEF Advance
  <2>2. Reached(k, r, apps, last)
    BY <2>1, SegmentReaches
  <2>3. Wrote(k, r, loaded, p, apps, jbs, StartIndex(r.state) .. last, last)
    BY <1>1, <2>1, SegmentWrites
  <2> DEFINE len == Len(r.steps)
  <2>4. Wrote(k, r, loaded, p, apps, jbs, len + 1 .. last, last)
    BY <2>2, <2>3 DEF Reached
  <2>5. /\ len \in 0 .. 16 /\ last \in len + 1 .. 17
        /\ Len(runs'[k].steps) = last
           \/ (Len(runs'[k].steps) = last - 1 /\ last = ValidateImportFiles)
    BY <2>2 DEF Reached
  <2>6. /\ len \in 0 .. 17 /\ last \in len .. 17 /\ last \in 0 .. 17 /\ len < last
        /\ Len(runs'[k].steps) \in len .. 17
    <3> HIDE DEF len
    <3>1. \A x \in 0 .. 16 : \A y \in x + 1 .. 17 :
            x \in 0 .. 17 /\ y \in x .. 17 /\ y \in 0 .. 17 /\ x < y /\ y - 1 \in x .. 17
      OBVIOUS
    <3> QED
      BY <2>5, <3>1
  <2>7. (RunGoLiveChecks \in len + 1 .. last /\ project.migration /\ project'.status = "in_progress") =>
          r.state.job # 0 /\ jobs'[r.state.job].result = "completed"
    <3> SUFFICES ASSUME RunGoLiveChecks \in len + 1 .. last, project.migration,
                        project'.status = "in_progress"
                 PROVE  r.state.job # 0 /\ jobs'[r.state.job].result = "completed"
      OBVIOUS
    <3>1. last \in Int /\ RunGoLiveChecks <= last /\ RunGoLiveChecks \in Int
      BY <2>6 DEF RunGoLiveChecks
    <3>2. k \in DOMAIN runs
      BY <2>2, <2>3, <3>1, ProjectWritten
    <3>3. ~WriteProject(loaded, Moved(p, "blocked"))
      BY <2>2, <2>3, <3>2, ProjectWritten
    <3> QED
      BY <2>4, <3>3 DEF Wrote
  <2>8. /\ k \in DOMAIN runs /\ project'.status = "in_progress" => project.status = "in_progress"
        /\ project'.status = "completed" =>
             project.status = "completed"
             \/ (k \in DOMAIN runs /\ last = CloseProject /\ project.status = "in_progress")
    BY <2>2, <2>3, ProjectWritten
  <2>9. Effect(k, r, apps, jbs, last)
    BY <2>2, <2>4, <2>6, <2>7, <2>8 DEF Effect, Reached, Wrote
  <2> QED
    BY <2>6, <2>9
<1>3. CASE Left(k, r, loaded, p, apps, jbs)
  <2> DEFINE len == Len(r.steps)
  <2>1. OnlyRun(k) /\ runs'[k] = r
    BY <1>1, <1>3, WriteRunType DEF RowsOK, Left
  <2>2. len \in 0 .. 17
    <3>1. r.steps \in Seq(Nodes)
      BY <1>1 DEF Run
    <3>2. len = 0 \/ (r.steps[len] \in Nodes /\ r.steps[len] = len)
      BY <1>1, <3>1, LenProperties DEF InOrder
    <3> HIDE DEF len
    <3> QED
      BY <3>2 DEF Nodes
  <2>3. k \in DOMAIN runs => project' = project
    BY <1>3 DEF Left, Hand, WriteProject
  <2>4. k \notin DOMAIN runs => project'.status = project.status \/ project'.status = "in_progress"
    BY <1>1, <1>3 DEF Left, Hand, WriteProject, Project
  <2>5. project'.migration = project.migration
    BY <1>1, <1>3 DEF Left, WriteProject, Project
  <2>6. /\ approvals' = apps /\ jobs' = jbs /\ workspace' = workspace
    BY <1>3 DEF Left
  <2> HIDE DEF len
  <2>7. /\ len \in len .. 17 /\ len + 1 .. len = {} /\ len + 1 .. len - 1 = {}
    BY <2>2
  <2>9. Proposed(runs'[k], r, len + 1 .. len)
    BY <2>1, <2>7 DEF Proposed, SameProposal
  <2>8. Effect(k, r, apps, jbs, len)
    BY <2>9, <2>1, <2>2, <2>3, <2>4, <2>5, <2>6, <2>7 DEF Effect, Executes, len
  <2> QED
    BY <2>2, <2>8
<1> QED
  BY <1>2, <1>3 DEF HandedOn

-----------------------------------------------------------------------------
(* Steps that dispatch nothing *)

(* A proposal still to be approved is replaced.                            *)
Replaced(q, r) == Len(r.steps) = ConfigurationApproval /\ q.state.base = workspace.applied

(* Nothing is done or granted, no run comes to life; an import is executed *)
(* only for a grant there is, and the project is neither taken up nor      *)
(* completed.                                                              *)
Quiet ==
  /\ DOMAIN runs' = DOMAIN runs
  /\ DOMAIN approvals \subseteq DOMAIN approvals' /\ DOMAIN jobs \subseteq DOMAIN jobs'
  /\ \A k \in DOMAIN runs :
       /\ runs'[k].steps = runs[k].steps /\ runs'[k].startedBy = runs[k].startedBy
       /\ Active(runs'[k]) => /\ Active(runs[k]) /\ runs'[k].state.job = runs[k].state.job
                              /\ SameProposal(runs'[k], runs[k]) \/ Replaced(runs'[k], runs[k])
       /\ ~Active(runs[k]) => runs'[k].status \in {runs[k].status, "cancelled"}
  /\ \A k, g : Granted(k, g, approvals') = Granted(k, g, approvals)
  /\ workspace' = workspace
  /\ project'.status \in {"in_progress", "completed"} =>
       project'.status = project.status /\ project'.migration = project.migration
  /\ \A j \in DOMAIN jobs' :
       IF j \in DOMAIN jobs
       THEN /\ jobs'[j].run = jobs[j].run
            /\ \/ jobs'[j] = jobs[j]
               \/ /\ ~Current(j, jobs, workspace.applied)
                  /\ \E a \in Granted(jobs[j].run, ImportApproval, approvals) :
                       approvals[a].material.job = j
       ELSE jobs'[j].result = "none"

LEMMA QuietWarranted ==
  ASSUME Inv, RunsGood, Warranted, Kept, Quiet
  PROVE  Warranted'
<1>1. JobsOwned'
  BY DEF Quiet, Warranted, JobsOwned, JobOwned
<1>2. \A k, g : \A a \in Granted(k, g, approvals) :
        /\ a \in Granted(k, g, approvals') /\ approvals'[a] = approvals[a]
        /\ approvals[a].run = k
  BY DEF Quiet, Kept, Granted
<1>3. ASSUME NEW j \in DOMAIN jobs', jobs'[j].result # "none"
      PROVE  \E a \in Granted(jobs'[j].run, ImportApproval, approvals') :
               approvals'[a].material.job = j /\ Independent(a)'
  <2>1. j \in DOMAIN jobs /\ jobs'[j].run = jobs[j].run /\ jobs[j].run \in DOMAIN runs
    BY <1>3, Rows DEF Quiet, Refers
  <2>2. PICK a \in Granted(jobs[j].run, ImportApproval, approvals) : approvals[a].material.job = j
    BY <1>3, <2>1 DEF Quiet, Warranted, ImportsApproved
  <2>3. IndependentRow(approvals[a], runs[jobs[j].run].startedBy)
    BY <2>1, <2>2 DEF RunsGood, Good, GrantsIndependent, Granted
  <2>4. /\ a \in Granted(jobs'[j].run, ImportApproval, approvals') /\ approvals'[a] = approvals[a]
        /\ approvals[a].run = jobs[j].run
    BY <1>2, <2>1, <2>2
  <2>5. runs'[jobs[j].run].startedBy = runs[jobs[j].run].startedBy
    BY <2>1 DEF Quiet
  <2>6. Independent(a)'
    BY <2>3, <2>4, <2>5 DEF Independent, IndependentRow
  <2> QED
    BY <2>2, <2>4, <2>6
<1>9. ASSUME NEW k, Imported(k, jobs, workspace.applied)
      PROVE  Imported(k, jobs', workspace'.applied)
  <2>1. PICK j \in DOMAIN jobs : /\ jobs[j].run = k /\ jobs[j].result = "completed"
                                 /\ jobs[j].under = workspace.applied
    BY <1>9 DEF Imported
  <2>2. j \in DOMAIN jobs' /\ jobs'[j] = jobs[j] /\ workspace' = workspace
    BY <2>1 DEF Quiet, Current
  <2> QED
    BY <2>1, <2>2 DEF Imported
<1>10. ImportsCurrent'
  <2> SUFFICES ASSUME NEW k \in DOMAIN runs', Active(runs'[k]),
                      Len(runs'[k].steps) >= ExecuteImport, runs'[k].state.job # 0
               PROVE  Current(runs'[k].state.job, jobs', workspace'.applied)
    BY DEF ImportsCurrent, ImportCurrent
  <2> DEFINE job == runs[k].state.job
  <2>1. /\ k \in DOMAIN runs /\ Active(runs[k]) /\ runs'[k].steps = runs[k].steps
        /\ runs'[k].state.job = job /\ workspace' = workspace
    BY DEF Quiet
  <2>2. Current(job, jobs, workspace.applied) /\ job \in DOMAIN jobs
    BY <2>1 DEF Warranted, ImportsCurrent, ImportCurrent, JobsOwned, JobOwned
  <2>3. jobs'[job] = jobs[job]
    BY <2>2 DEF Quiet
  <2> QED
    BY <2>1, <2>2, <2>3 DEF Current
<1>4. StillReady'
  <2> SUFFICES ASSUME NEW k \in DOMAIN runs', Active(runs'[k]),
                      Len(runs'[k].steps) >= RunGoLiveChecks,
                      project'.status = "in_progress", project'.migration
               PROVE  Imported(k, jobs', workspace'.applied)
    BY DEF StillReady
  <2>1. Imported(k, jobs, workspace.applied)
    BY DEF Quiet, Warranted, StillReady
  <2> QED
    BY <1>9, <2>1
<1>5. CompletedReady'
  <2> SUFFICES ASSUME project'.status = "completed"
               PROVE  \E k \in DOMAIN runs' :
                        /\ Len(runs'[k].steps) = CloseProject
                        /\ project'.migration =>
                             Imported(k, jobs', workspace'.applied) \/ Reconfigured(k)'
    BY DEF CompletedReady
  <2>1. project.status = "completed" /\ project'.migration = project.migration
    BY DEF Quiet
  <2>2. PICK k \in DOMAIN runs :
          /\ Len(runs[k].steps) = CloseProject
          /\ project.migration => Imported(k, jobs, workspace.applied) \/ Reconfigured(k)
    BY <2>1 DEF Warranted, CompletedReady
  <2>3. k \in DOMAIN runs' /\ runs'[k].steps = runs[k].steps
    BY DEF Quiet
  <2>4. Reconfigured(k) => Reconfigured(k)'
    BY DEF Reconfigured, Quiet
  <2> QED
    BY <1>9, <2>1, <2>2, <2>3, <2>4
<1>6. WorkspaceAsApproved'
  <2>1. {k \in DOMAIN runs' : Len(runs'[k].steps) >= ApplyConfiguration} =
        {k \in DOMAIN runs : Len(runs[k].steps) >= ApplyConfiguration}
    BY DEF Quiet
  <2>2. workspace' = workspace /\ \A k, g : Granted(k, g, approvals') = Granted(k, g, approvals)
    BY DEF Quiet
  <2> QED
    BY <1>2, <2>1, <2>2 DEF Warranted, WorkspaceAsApproved
<1>7. ImportsApproved'
  BY <1>3 DEF ImportsApproved
<1>8. ProposalsFit'
  <2> SUFFICES ASSUME NEW k \in DOMAIN runs', Active(runs'[k])
               PROVE  ProposalFits(runs'[k], workspace'.applied)
    BY DEF ProposalsFit, ProposalFits
  <2>1. /\ k \in DOMAIN runs /\ Active(runs[k]) /\ runs'[k].steps = runs[k].steps
        /\ workspace' = workspace
        /\ SameProposal(runs'[k], runs[k]) \/ Replaced(runs'[k], runs[k])
    BY DEF Quiet
  <2>2. ProposalFits(runs[k], workspace.applied)
    BY <2>1 DEF Warranted, ProposalsFit
  <2>3. CASE SameProposal(runs'[k], runs[k])
    BY <2>1, <2>2, <2>3 DEF ProposalFits, SameProposal
  <2>4. CASE Replaced(runs'[k], runs[k])
    BY <2>1, <2>4 DEF ProposalFits, Replaced, ConfigurationApproval, ApplyConfiguration
  <2> QED
    BY <2>1, <2>3, <2>4
<1> QED
  BY <1>1, <1>4, <1>5, <1>6, <1>7, <1>8, <1>10 DEF Warranted

-----------------------------------------------------------------------------
(* Steps that dispatch *)

(* What the rows in hand and the effect on them come to, row by row.       *)
Done(k, r, apps, jbs, last) ==
  LET len == Len(r.steps)  q == runs'[k]  job == r.state.job IN
  /\ k \in DOMAIN runs' /\ OnlyRun(k) /\ (\A i \in DOMAIN runs' : i <= k)
  /\ len \in 0 .. 17 /\ last \in len .. 17
  /\ \A n \in len + 1 .. last - 1 : n \notin APPROVAL_NODES
  /\ Len(q.steps) \in len .. 17
  /\ Len(q.steps) = last \/ (Len(q.steps) = last - 1 /\ last = ValidateImportFiles)
  /\ q.state.job = job /\ q.startedBy = r.startedBy /\ Proposed(q, r, len + 1 .. last)
  /\ IF k \in DOMAIN runs
     THEN /\ Active(runs[k]) /\ r.steps = runs[k].steps /\ r.startedBy = runs[k].startedBy
          /\ SameProposal(r, runs[k])
     ELSE len = 0
  /\ \A g : g # len => Granted(k, g, approvals') = Granted(k, g, approvals)
  /\ \A i \in DOMAIN runs : i # k => \A g : Granted(i, g, approvals') = Granted(i, g, approvals)
  /\ \A i, g : \A a \in Granted(i, g, approvals) :
       a \in Granted(i, g, approvals') /\ approvals'[a] = approvals[a]
  /\ DOMAIN jobs \subseteq DOMAIN jobs'
  /\ job # 0 => job \in DOMAIN jobs' /\ jobs'[job].run = k
  /\ \A j \in DOMAIN jobs :
       /\ jobs'[j].run = jobs[j].run
       /\ Current(j, jobs, workspace'.applied) => jobs'[j] = jobs[j]
  /\ job # 0 /\ ExecuteImport \in len + 1 .. last => Current(job, jobs', workspace'.applied)
  /\ job # 0 /\ len >= ExecuteImport => k \in DOMAIN runs /\ job = runs[k].state.job
  /\ \A j \in DOMAIN jobs' : jobs'[j].result # "none" =>
       \/ j \in DOMAIN jobs /\ jobs[j].result # "none"
       \/ j = job /\ Receipt(k, ImportApproval, r.state, approvals')
  /\ IF ApplyConfiguration \in len + 1 .. last
     THEN /\ workspace'.applied = r.state.config
          /\ Receipt(k, ConfigurationApproval, r.state, approvals')
     ELSE workspace'.applied = workspace.applied
  /\ (RunGoLiveChecks \in len + 1 .. last /\ project.migration /\ project'.status = "in_progress") =>
       job # 0 /\ jobs'[job].result = "completed"
  /\ project'.migration = project.migration
  /\ k \in DOMAIN runs /\ project'.status = "in_progress" => project.status = "in_progress"
  /\ project'.status = "completed" =>
       project.status = "completed"
       \/ (k \in DOMAIN runs /\ last = CloseProject /\ len < last /\ project.status = "in_progress")

LEMMA EffectDone ==
  ASSUME Inv, JobsOwned, Kept, NEW k, NEW r, NEW loaded, NEW p, NEW apps, NEW jbs,
         NEW last \in 0 .. 17, Hand(k, r, loaded, p, apps, jbs), Effect(k, r, apps, jbs, last)
  PROVE  Done(k, r, apps, jbs, last)
<1>1. /\ k \in DOMAIN runs' /\ OnlyRun(k) /\ \A i \in DOMAIN runs' : i <= k
  <2>1. OnlyRun(k) /\ k >= Len(runs) /\ k \in 1 .. Len(runs) + 1
    BY DEF Effect, Hand
  <2> QED
    BY <2>1, Rows DEF OnlyRun
<1>2. /\ Len(r.steps) \in 0 .. 17 /\ last \in Len(r.steps) .. 17
      /\ \A n \in Len(r.steps) + 1 .. last - 1 : n \notin APPROVAL_NODES
      /\ Len(runs'[k].steps) \in Len(r.steps) .. 17
      /\ Len(runs'[k].steps) = last
         \/ (Len(runs'[k].steps) = last - 1 /\ last = ValidateImportFiles)
      /\ runs'[k].state.job = r.state.job /\ runs'[k].startedBy = r.startedBy
      /\ Proposed(runs'[k], r, Len(r.steps) + 1 .. last)
  BY DEF Effect
<1>3. \A i, g : Granted(i, g, approvals') = Granted(i, g, apps)
  BY DEF Effect
<1>4. /\ \A a \in DOMAIN apps : a \in DOMAIN approvals' /\ approvals'[a] = apps[a]
      /\ DOMAIN approvals \subseteq DOMAIN apps
  BY DEF Effect, Hand, SameElsewhere
<1>5. IF k \in DOMAIN runs
      THEN /\ Active(runs[k]) /\ r.steps = runs[k].steps /\ r.startedBy = runs[k].startedBy
           /\ SameProposal(r, runs[k])
      ELSE Len(r.steps) = 0
  BY DEF Hand
<1>15. \A g : g # Len(r.steps) => Granted(k, g, approvals') = Granted(k, g, approvals)
  BY <1>3 DEF Hand
<1>6. \A i \in DOMAIN runs : i # k => \A g : Granted(i, g, approvals') = Granted(i, g, approvals)
  <2>1. \A i, g : i # k => Granted(i, g, apps) = Granted(i, g, approvals)
    BY DEF Hand, SameElsewhere, Granted
  <2> QED
    BY <1>3, <2>1
<1>7. \A i, g : \A a \in Granted(i, g, approvals) :
        a \in Granted(i, g, approvals') /\ approvals'[a] = approvals[a]
  BY <1>4 DEF Kept, Granted
<1>8. /\ DOMAIN jobs \subseteq DOMAIN jobs' /\ DOMAIN jobs' = DOMAIN jbs
      /\ \A j \in DOMAIN jbs :
           /\ jobs'[j].run = jbs[j].run
           /\ Current(j, jbs, workspace'.applied) => jobs'[j] = jbs[j]
           /\ jobs'[j] # jbs[j] => j = r.state.job /\ Receipt(k, ImportApproval, r.state, apps)
      /\ ExecuteImport \in Len(r.steps) + 1 .. last /\ r.state.job \in DOMAIN jbs =>
           Current(r.state.job, jobs', workspace'.applied)
      /\ \A j \in DOMAIN jbs : IF j \in DOMAIN jobs THEN jbs[j] = jobs[j] ELSE jbs[j].result = "none"
  BY DEF Effect, Executes, Hand
<1>9. r.state.job # 0 => r.state.job \in DOMAIN jobs' /\ jobs'[r.state.job].run = k
  <2> DEFINE job == r.state.job
  <2>1. \/ job = 0
        \/ k \in DOMAIN runs /\ job = runs[k].state.job /\ Active(runs[k])
        \/ job \in DOMAIN jbs /\ jbs[job].run = k
    BY DEF Hand
  <2> HIDE DEF job
  <2> QED
    BY <1>8, <2>1 DEF JobsOwned, JobOwned, job
<1>10. \A kind : Receipt(k, kind, r.state, apps) => Receipt(k, kind, r.state, approvals')
  <2> SUFFICES ASSUME NEW kind, Receipt(k, kind, r.state, apps)
               PROVE  Receipt(k, kind, r.state, approvals')
    OBVIOUS
  <2>1. Granted(k, kind, approvals') = Granted(k, kind, apps)
    BY <1>3
  <2>2. \A a \in Granted(k, kind, apps) : approvals'[a] = apps[a]
    BY <1>4 DEF Granted
  <2> QED
    BY <2>1, <2>2 DEF Receipt
<1>11. IF ApplyConfiguration \in Len(r.steps) + 1 .. last
       THEN /\ workspace'.applied = r.state.config
            /\ Receipt(k, ConfigurationApproval, r.state, approvals')
       ELSE workspace'.applied = workspace.applied
  BY <1>10 DEF Effect
<1>12. \A j \in DOMAIN jobs :
         /\ jobs'[j].run = jobs[j].run
         /\ Current(j, jobs, workspace'.applied) => jobs'[j] = jobs[j]
  BY <1>8 DEF Current
<1>16. r.state.job # 0 /\ ExecuteImport \in Len(r.steps) + 1 .. last =>
         Current(r.state.job, jobs', workspace'.applied)
  BY <1>8, <1>9
<1>17. r.state.job # 0 /\ Len(r.steps) >= ExecuteImport =>
         k \in DOMAIN runs /\ r.state.job = runs[k].state.job
  <2> DEFINE len == Len(r.steps)  job == r.state.job
  <2>1. \/ job = 0
        \/ k \in DOMAIN runs /\ job = runs[k].state.job
        \/ len < ExecuteImport
    BY DEF Hand
  <2>2. len \in 0 .. 17
    BY <1>2
  <2> HIDE DEF len, job
  <2>3. ~(len < ExecuteImport /\ len >= ExecuteImport)
    BY <2>2 DEF ExecuteImport
  <2> QED
    BY <2>1, <2>3 DEF len, job
<1>13. \A j \in DOMAIN jobs' : jobs'[j].result # "none" =>
         \/ j \in DOMAIN jobs /\ jobs[j].result # "none"
         \/ j = r.state.job /\ Receipt(k, ImportApproval, r.state, approvals')
  BY <1>8, <1>10
<1>14. /\ (/\ RunGoLiveChecks \in Len(r.steps) + 1 .. last /\ project.migration
           /\ project'.status = "in_progress") =>
             r.state.job # 0 /\ jobs'[r.state.job].result = "completed"
       /\ project'.migration = project.migration
       /\ k \in DOMAIN runs /\ project'.status = "in_progress" => project.status = "in_progress"
       /\ project'.status = "completed" =>
            project.status = "completed"
            \/ (/\ k \in DOMAIN runs /\ last = CloseProject /\ Len(r.steps) < last
                /\ project.status = "in_progress")
  BY DEF Effect
<1> QED
  BY <1>1, <1>2, <1>5, <1>6, <1>7, <1>8, <1>9, <1>11, <1>12, <1>13, <1>14, <1>15, <1>16, <1>17
     DEF Done

LEMMA DoneJobs ==
  ASSUME Inv, Inv', RunsGood', Warranted, NEW k, NEW r, NEW apps, NEW jbs, NEW last,
         Done(k, r, apps, jbs, last)
  PROVE  JobsOwned' /\ ImportsApproved'
<1>1. JobsOwned'
  <2> SUFFICES ASSUME NEW i \in DOMAIN runs' PROVE JobOwned(i, runs'[i], jobs')
    BY DEF JobsOwned
  <2>1. CASE i = k
    BY <2>1 DEF Done, JobOwned
  <2>2. CASE i # k
    <3>1. i \in DOMAIN runs /\ runs'[i] = runs[i]
      BY <2>2 DEF Done, OnlyRun
    <3>2. JobOwned(i, runs[i], jobs)
      BY <3>1 DEF Warranted, JobsOwned
    <3> QED
      BY <3>1, <3>2 DEF Done, JobOwned
  <2> QED
    BY <2>1, <2>2
<1>2. \A i \in DOMAIN runs : i \in DOMAIN runs' /\ runs'[i].startedBy = runs[i].startedBy
  BY DEF Done, OnlyRun
<1>3. ASSUME NEW j \in DOMAIN jobs', jobs'[j].result # "none"
      PROVE  \E a \in Granted(jobs'[j].run, ImportApproval, approvals') :
               approvals'[a].material.job = j /\ Independent(a)'
  <2>1. CASE j \in DOMAIN jobs /\ jobs[j].result # "none"
    <3>1. PICK a \in Granted(jobs[j].run, ImportApproval, approvals) :
            approvals[a].material.job = j /\ Independent(a)
      BY <2>1 DEF Warranted, ImportsApproved
    <3>2. /\ jobs'[j].run = jobs[j].run /\ jobs[j].run \in DOMAIN runs
          /\ a \in Granted(jobs[j].run, ImportApproval, approvals') /\ approvals'[a] = approvals[a]
          /\ approvals[a].run = jobs[j].run
      BY <2>1, <3>1, Rows DEF Done, Refers, Granted
    <3>3. Independent(a)'
      BY <1>2, <3>1, <3>2 DEF Independent
    <3> QED
      BY <3>1, <3>2, <3>3
  <2>2. CASE j = r.state.job /\ Receipt(k, ImportApproval, r.state, approvals')
    <3>1. PICK a \in Granted(k, ImportApproval, approvals') :
            approvals'[a].material = Material(ImportApproval, r.state)
      BY <2>2 DEF Receipt
    <3>2. approvals'[a].material.job = j
      BY <2>2, <3>1 DEF Material, ImportApproval, ConfigurationApproval
    <3>3. jobs'[j].run = k /\ k \in DOMAIN runs'
      <4>1. r.state.job # 0
        BY <1>3, <2>2, LenProperties DEF Inv, TypeOK, RowsOK
      <4> QED
        BY <2>2, <4>1 DEF Done
    <3>4. IndependentRow(approvals'[a], runs'[k].startedBy) /\ approvals'[a].run = k
      BY <3>1, <3>3 DEF RunsGood, Good, GrantsIndependent, Granted
    <3>5. Independent(a)'
      BY <3>4 DEF Independent, IndependentRow
    <3> QED
      BY <3>1, <3>2, <3>3, <3>5
  <2> QED
    BY <1>3, <2>1, <2>2 DEF Done
<1> QED
  BY <1>1, <1>3 DEF ImportsApproved

(* The run a dispatch is about is the only one under way after it.         *)
LEMMA DoneLatest ==
  ASSUME Inv', NEW k, NEW r, NEW apps, NEW jbs, NEW last, Done(k, r, apps, jbs, last),
         NEW i \in DOMAIN runs', Active(runs'[i])
  PROVE  i = k
<1>1. i = Len(runs')
  BY DEF Inv, OneActiveRun, Going, Active, Latest
<1>2. Len(runs') \in DOMAIN runs' /\ DOMAIN runs' = 1 .. Len(runs') /\ Len(runs') \in Nat
  BY <1>1, LenProperties DEF Inv, TypeOK, RowsOK
<1>3. k \in DOMAIN runs' /\ \A x \in DOMAIN runs' : x <= k
  BY DEF Done
<1> QED
  BY <1>1, <1>2, <1>3

LEMMA DoneImports ==
  ASSUME Inv', Warranted, NEW k, NEW r, NEW apps, NEW jbs, NEW last, Done(k, r, apps, jbs, last)
  PROVE  ImportsCurrent'
<1> DEFINE len == Len(r.steps)
           q   == runs'[k]
           job == r.state.job
<1>1. /\ len \in 0 .. 17 /\ last \in len .. 17
      /\ Len(q.steps) = last \/ (Len(q.steps) = last - 1 /\ last = ValidateImportFiles)
  BY DEF Done
<1> SUFFICES ASSUME NEW i \in DOMAIN runs', Active(runs'[i]),
                    Len(runs'[i].steps) >= ExecuteImport, runs'[i].state.job # 0
             PROVE  Current(runs'[i].state.job, jobs', workspace'.applied)
  BY DEF ImportsCurrent, ImportCurrent
<1>2. i = k /\ runs'[i].state.job = job
  BY DoneLatest DEF Done
<1>3. Len(q.steps) >= 13
  BY <1>2 DEF ExecuteImport
<1>4. CASE len < ExecuteImport
  <2>1. ExecuteImport \in len + 1 .. last
    <3> HIDE DEF len, q
    <3> QED
      BY <1>1, <1>3, <1>4 DEF ExecuteImport, ValidateImportFiles
  <2> QED
    BY <1>2, <2>1 DEF Done
<1>5. CASE len >= ExecuteImport
  <2>1. k \in DOMAIN runs /\ job = runs[k].state.job
    BY <1>2, <1>5 DEF Done
  <2>2. Active(runs[k]) /\ runs[k].steps = r.steps
    BY <2>1 DEF Done
  <2>3. Current(job, jobs, workspace.applied) /\ job \in DOMAIN jobs
    BY <1>2, <1>5, <2>1, <2>2 DEF Warranted, ImportsCurrent, ImportCurrent, JobsOwned, JobOwned
  <2>4. ApplyConfiguration \notin len + 1 .. last
    <3> HIDE DEF len
    <3> QED
      BY <1>1, <1>5 DEF ApplyConfiguration, ExecuteImport
  <2>5. workspace'.applied = workspace.applied
    BY <2>4 DEF Done
  <2>6. jobs'[job] = jobs[job]
    BY <2>3, <2>5 DEF Done
  <2> QED
    BY <1>2, <2>3, <2>5, <2>6 DEF Current
<1> HIDE DEF len
<1> QED
  BY <1>1, <1>4, <1>5 DEF ExecuteImport

LEMMA DoneProject ==
  ASSUME Inv', Warranted, ImportsCurrent', NEW k, NEW r, NEW apps, NEW jbs, NEW last,
         Done(k, r, apps, jbs, last)
  PROVE  StillReady' /\ CompletedReady'
<1> DEFINE len == Len(r.steps)
           q   == runs'[k]
<1>1. /\ len \in 0 .. 17 /\ last \in len .. 17 /\ Len(q.steps) \in len .. 17
      /\ Len(q.steps) = last \/ (Len(q.steps) = last - 1 /\ last = ValidateImportFiles)
      /\ \A n \in len + 1 .. last - 1 : n \notin APPROVAL_NODES
  BY DEF Done
<1>2. ASSUME NEW i, Imported(i, jobs, workspace.applied), workspace'.applied = workspace.applied
      PROVE  Imported(i, jobs', workspace'.applied)
  <2>1. PICK j \in DOMAIN jobs : /\ jobs[j].run = i /\ jobs[j].result = "completed"
                                 /\ jobs[j].under = workspace.applied
    BY <1>2 DEF Imported
  <2>2. j \in DOMAIN jobs' /\ jobs'[j] = jobs[j]
    BY <1>2, <2>1 DEF Done, Current
  <2> QED
    BY <1>2, <2>1, <2>2 DEF Imported
<1>3. StillReady'
  <2> SUFFICES ASSUME NEW i \in DOMAIN runs', Active(runs'[i]),
                      Len(runs'[i].steps) >= RunGoLiveChecks,
                      project'.status = "in_progress", project'.migration
               PROVE  Imported(i, jobs', workspace'.applied)
    BY DEF StillReady
  <2>1. i = k
    BY DoneLatest
  <2>5. Len(q.steps) >= 15
    BY <2>1 DEF RunGoLiveChecks
  <2>2. last >= RunGoLiveChecks
    <3> HIDE DEF len, q
    <3> QED
      BY <1>1, <2>5 DEF RunGoLiveChecks, ValidateImportFiles
  <2>3. CASE len < RunGoLiveChecks
    <3> DEFINE job == r.state.job
    <3>1. RunGoLiveChecks \in len + 1 .. last
      <4> HIDE DEF len
      <4> QED
        BY <1>1, <2>2, <2>3 DEF RunGoLiveChecks
    <3>2. /\ job # 0 /\ jobs'[job].result = "completed"
          /\ job \in DOMAIN jobs' /\ jobs'[job].run = k /\ q.state.job = job
      BY <3>1 DEF Done
    <3>3. Len(q.steps) >= ExecuteImport
      <4> HIDE DEF len, q
      <4> QED
        BY <1>1, <2>5 DEF ExecuteImport
    <3>4. Current(job, jobs', workspace'.applied)
      BY <2>1, <3>2, <3>3 DEF ImportsCurrent, ImportCurrent
    <3> QED
      BY <2>1, <3>2, <3>4 DEF Imported, Current
  <2>4. CASE len >= RunGoLiveChecks
    <3>1. k \in DOMAIN runs
      <4>1. len # 0
        <5> HIDE DEF len
        <5> QED
          BY <2>4 DEF RunGoLiveChecks
      <4> QED
        BY <4>1 DEF Done
    <3>2. /\ Active(runs[k]) /\ r.steps = runs[k].steps /\ project.migration
          /\ project.status = "in_progress"
      BY <3>1 DEF Done
    <3>3. Imported(k, jobs, workspace.applied)
      BY <2>4, <3>1, <3>2 DEF Warranted, StillReady
    <3>4. ApplyConfiguration \notin len + 1 .. last
      <4> HIDE DEF len
      <4> QED
        BY <1>1, <2>4 DEF ApplyConfiguration, RunGoLiveChecks
    <3>5. workspace'.applied = workspace.applied
      BY <3>4 DEF Done
    <3> QED
      BY <1>2, <2>1, <3>3, <3>5
  <2> HIDE DEF len
  <2> QED
    BY <1>1, <2>3, <2>4 DEF RunGoLiveChecks
<1>4. CompletedReady'
  <2> SUFFICES ASSUME project'.status = "completed"
               PROVE  \E i \in DOMAIN runs' :
                        /\ Len(runs'[i].steps) = CloseProject
                        /\ project'.migration =>
                             Imported(i, jobs', workspace'.applied) \/ Reconfigured(i)'
    BY DEF CompletedReady
  <2>1. project'.migration = project.migration
    BY DEF Done
  <2>4. k \in DOMAIN runs' /\ \A i \in DOMAIN runs : i \in DOMAIN runs' /\ i <= k
                                                    /\ (i # k => runs'[i] = runs[i])
    BY DEF Done, OnlyRun
  <2>5. k \in DOMAIN runs => Len(runs[k].steps) = len /\ Active(runs[k])
    BY DEF Done
  <2>6. ApplyConfiguration \notin len + 1 .. last => workspace'.applied = workspace.applied
    BY DEF Done
  <2>7. DOMAIN runs' \subseteq Int
    BY LenProperties DEF Inv, TypeOK, RowsOK
  <2>2. CASE project.status = "completed"
    <3>1. PICK i \in DOMAIN runs :
            /\ Len(runs[i].steps) = CloseProject
            /\ project.migration => Imported(i, jobs, workspace.applied) \/ Reconfigured(i)
      BY <2>2 DEF Warranted, CompletedReady
    <3>2. i = k => len = 17
      BY <2>5, <3>1 DEF CloseProject
    <3>3. Len(runs'[i].steps) = CloseProject
      <4>1. CASE i = k
        <5>1. Len(q.steps) = 17
          <6>1. Len(q.steps) \in len .. 17 /\ len = 17
            BY <1>1, <3>2, <4>1
          <6> HIDE DEF len, q
          <6> QED
            BY <6>1
        <5> QED
          BY <4>1, <5>1 DEF CloseProject
      <4>2. CASE i # k
        BY <2>4, <3>1, <4>2
      <4> QED
        BY <4>1, <4>2
    <3>4. CASE ApplyConfiguration \in len + 1 .. last
      <4>1. i # k /\ Len(q.steps) >= ApplyConfiguration
        <5> HIDE DEF len, q
        <5> QED
          BY <1>1, <3>2, <3>4 DEF ApplyConfiguration, ValidateImportFiles
      <4>2. i <= k /\ k > i
        BY <2>4, <2>7, <4>1
      <4>3. Reconfigured(i)'
        BY <2>4, <4>1, <4>2 DEF Reconfigured
      <4> QED
        BY <2>4, <3>3, <4>3
    <3>5. CASE ApplyConfiguration \notin len + 1 .. last
      <4>1. ASSUME Reconfigured(i) PROVE Reconfigured(i)'
        <5>1. PICK x \in DOMAIN runs : x > i /\ Len(runs[x].steps) >= ApplyConfiguration
          BY <4>1 DEF Reconfigured
        <5>2. CASE x = k
          <6>1. len >= ApplyConfiguration
            BY <2>5, <5>1, <5>2
          <6>2. Len(q.steps) >= ApplyConfiguration
            <7> HIDE DEF len, q
            <7> QED
              BY <1>1, <6>1 DEF ApplyConfiguration
          <6> QED
            BY <2>4, <5>1, <5>2, <6>2 DEF Reconfigured
        <5>3. CASE x # k
          BY <2>4, <5>1, <5>3 DEF Reconfigured
        <5> QED
          BY <5>2, <5>3
      <4> QED
        BY <1>2, <2>1, <2>4, <2>6, <3>1, <3>3, <3>5, <4>1
    <3> QED
      BY <3>4, <3>5
  <2>3. CASE k \in DOMAIN runs /\ last = CloseProject /\ len < last /\ project.status = "in_progress"
    <3>1. len = 16
      <4>1. AcceptanceApproval \in APPROVAL_NODES
        BY DEF APPROVAL_NODES
      <4> HIDE DEF len
      <4> QED
        BY <1>1, <2>3, <4>1 DEF CloseProject, AcceptanceApproval
    <3>2. Active(runs[k]) /\ Len(runs[k].steps) >= RunGoLiveChecks
      <4>1. Active(runs[k]) /\ Len(runs[k].steps) = 16
        BY <2>3, <2>5, <3>1
      <4> QED
        BY <4>1 DEF RunGoLiveChecks
    <3>3. project.migration => Imported(k, jobs, workspace.applied)
      BY <2>3, <3>2 DEF Warranted, StillReady
    <3>4. Len(q.steps) = CloseProject
      BY <1>1, <2>3 DEF CloseProject, ValidateImportFiles
    <3>5. ApplyConfiguration \notin len + 1 .. last
      <4> HIDE DEF len
      <4> QED
        BY <1>1, <3>1 DEF ApplyConfiguration
    <3> QED
      BY <1>2, <2>1, <2>4, <2>6, <3>3, <3>4, <3>5
  <2> QED
    BY <2>2, <2>3 DEF Done
<1> QED
  BY <1>3, <1>4

LEMMA DoneWorkspace ==
  ASSUME Inv, Warranted, NEW k, NEW r, NEW apps, NEW jbs, NEW last, Done(k, r, apps, jbs, last)
  PROVE  WorkspaceAsApproved'
<1> DEFINE len == Len(r.steps)
           q   == runs'[k]
           appliers  == {i \in DOMAIN runs : Len(runs[i].steps) >= ApplyConfiguration}
           appliers2 == {i \in DOMAIN runs' : Len(runs'[i].steps) >= ApplyConfiguration}
<1>1. /\ len \in 0 .. 17 /\ last \in len .. 17 /\ Len(q.steps) \in len .. 17
      /\ Len(q.steps) = last \/ (Len(q.steps) = last - 1 /\ last = ValidateImportFiles)
  BY DEF Done
<1>2. CASE ApplyConfiguration \in len + 1 .. last
  <2>1. Len(q.steps) >= ApplyConfiguration
    <3> HIDE DEF len, q
    <3> QED
      BY <1>1, <1>2 DEF ApplyConfiguration, ValidateImportFiles
  <2>2. k \in appliers2 /\ \A i \in appliers2 : i <= k
    BY <2>1 DEF Done
  <2>3. PICK a \in Granted(k, ConfigurationApproval, approvals') :
          /\ \A b \in Granted(k, ConfigurationApproval, approvals') : b <= a
          /\ approvals'[a].material = Material(ConfigurationApproval, r.state)
    BY <1>2 DEF Done, Receipt
  <2>4. approvals'[a].material.config = workspace'.applied
    BY <1>2, <2>3 DEF Done, Material
  <2> QED
    BY <2>2, <2>3, <2>4 DEF WorkspaceAsApproved
<1>3. CASE ApplyConfiguration \notin len + 1 .. last
  <2>1. workspace'.applied = workspace.applied
    BY <1>3 DEF Done
  <2>2. Len(q.steps) >= ApplyConfiguration <=> len >= ApplyConfiguration
    <3> HIDE DEF len, q
    <3> QED
      BY <1>1, <1>3 DEF ApplyConfiguration
  <2>3. \A i \in DOMAIN runs : i \in DOMAIN runs' /\ (i # k => runs'[i] = runs[i])
    BY DEF Done, OnlyRun
  <2>4. DOMAIN runs' = DOMAIN runs \cup {k}
    BY DEF Done, OnlyRun
  <2>5. k \in DOMAIN runs => len = Len(runs[k].steps)
    BY DEF Done
  <2>6. k \notin DOMAIN runs => len = 0
    BY DEF Done
  <2>7. appliers2 = appliers
    <3>1. k \notin DOMAIN runs => ~(len >= ApplyConfiguration)
      <4> HIDE DEF len
      <4> QED
        BY <2>6 DEF ApplyConfiguration
    <3> QED
      BY <2>2, <2>3, <2>4, <2>5, <3>1
  <2>8. ASSUME NEW i \in appliers
        PROVE  /\ Granted(i, ConfigurationApproval, approvals') =
                  Granted(i, ConfigurationApproval, approvals)
               /\ \A a \in Granted(i, ConfigurationApproval, approvals) :
                    approvals'[a] = approvals[a]
    <3>1. i = k => ConfigurationApproval # len
      <4>1. i = k => len >= ApplyConfiguration
        BY <2>5
      <4> HIDE DEF len
      <4> QED
        BY <1>1, <4>1 DEF ApplyConfiguration, ConfigurationApproval
    <3> QED
      BY <3>1 DEF Done
  <2> HIDE DEF appliers, appliers2
  <2>9. IF appliers = {} THEN workspace.applied = "none"
        ELSE \E i \in appliers :
               /\ \A j \in appliers : j <= i
               /\ \E a \in Granted(i, ConfigurationApproval, approvals) :
                    /\ \A b \in Granted(i, ConfigurationApproval, approvals) : b <= a
                    /\ approvals[a].material.config = workspace.applied
    BY DEF Warranted, WorkspaceAsApproved, appliers
  <2>10. IF appliers2 = {} THEN workspace'.applied = "none"
         ELSE \E i \in appliers2 :
                /\ \A j \in appliers2 : j <= i
                /\ \E a \in Granted(i, ConfigurationApproval, approvals') :
                     /\ \A b \in Granted(i, ConfigurationApproval, approvals') : b <= a
                     /\ approvals'[a].material.config = workspace'.applied
    BY <2>1, <2>7, <2>8, <2>9
  <2> QED
    BY <2>10 DEF WorkspaceAsApproved, appliers2
<1> QED
  BY <1>2, <1>3

LEMMA DoneProposal ==
  ASSUME Inv', Warranted, NEW k, NEW r, NEW apps, NEW jbs, NEW last, Done(k, r, apps, jbs, last)
  PROVE  ProposalsFit'
<1> DEFINE len == Len(r.steps)
           q   == runs'[k]
           n   == Len(q.steps)
<1> SUFFICES ASSUME NEW i \in DOMAIN runs', Active(runs'[i])
             PROVE  ProposalFits(runs'[i], workspace'.applied)
  BY DEF ProposalsFit, ProposalFits
<1>1. i = k
  <2>1. i = Len(runs')
    BY DEF Inv, OneActiveRun, Going, Active, Latest
  <2>2. Len(runs') \in DOMAIN runs' /\ DOMAIN runs' = 1 .. Len(runs') /\ Len(runs') \in Nat
    BY <2>1, LenProperties DEF Inv, TypeOK, RowsOK
  <2> QED
    BY <2>1, <2>2 DEF Done
<1>2. /\ len \in 0 .. 17 /\ last \in len .. 17
      /\ n = last \/ (n = last - 1 /\ last = ValidateImportFiles)
      /\ \A m \in len + 1 .. last - 1 : m \notin APPROVAL_NODES
      /\ Proposed(q, r, len + 1 .. last)
      /\ IF ApplyConfiguration \in len + 1 .. last
         THEN workspace'.applied = r.state.config
         ELSE workspace'.applied = workspace.applied
  BY DEF Done
<1>3. len # 0 => /\ len \in {8, 9} => workspace.applied = r.state.base
                 /\ len >= 10 => workspace.applied = r.state.config
  <2> SUFFICES ASSUME len # 0
               PROVE  /\ len \in {8, 9} => workspace.applied = r.state.base
                      /\ len >= 10 => workspace.applied = r.state.config
    OBVIOUS
  <2>1. k \in DOMAIN runs /\ Active(runs[k]) /\ r.steps = runs[k].steps /\ SameProposal(r, runs[k])
    BY DEF Done
  <2>2. ProposalFits(runs[k], workspace.applied)
    BY <2>1 DEF Warranted, ProposalsFit
  <2> QED
    BY <2>1, <2>2 DEF ProposalFits, SameProposal, GenerateChanges, ConfigurationApproval,
       ApplyConfiguration
<1>4. 9 \in APPROVAL_NODES
  BY DEF APPROVAL_NODES, ConfigurationApproval
<1> HIDE DEF len, n
<1>5. CASE n \in {8, 9}
  <2>1. last = n /\ ApplyConfiguration \notin len + 1 .. last
    BY <1>2, <1>5 DEF ValidateImportFiles, ApplyConfiguration
  <2>2. workspace'.applied = q.state.base
    <3>1. CASE GenerateChanges \in len + 1 .. last
      BY <1>2, <2>1, <3>1 DEF Proposed
    <3>2. CASE GenerateChanges \notin len + 1 .. last
      <4>1. len # 0 /\ len \in {8, 9}
        BY <1>2, <1>5, <2>1, <3>2 DEF GenerateChanges
      <4> QED
        BY <1>2, <1>3, <2>1, <3>2, <4>1 DEF Proposed, SameProposal
    <3> QED
      BY <3>1, <3>2
  <2>3. ~(n >= 10)
    BY <1>5
  <2> QED
    BY <1>1, <2>2, <2>3 DEF ProposalFits, ApplyConfiguration, n
<1>6. CASE n >= 10
  <2>1. last \in 10 .. 17
    BY <1>2, <1>6 DEF ValidateImportFiles
  <2>2. GenerateChanges \notin len + 1 .. last
    BY <1>2, <1>4, <2>1 DEF GenerateChanges
  <2>3. SameProposal(q, r)
    BY <1>2, <2>2 DEF Proposed
  <2>4. workspace'.applied = q.state.config
    <3>1. CASE ApplyConfiguration \in len + 1 .. last
      BY <1>2, <2>3, <3>1 DEF SameProposal
    <3>2. CASE ApplyConfiguration \notin len + 1 .. last
      <4>1. len # 0 /\ len >= 10
        BY <1>2, <2>1, <3>2 DEF ApplyConfiguration
      <4> QED
        BY <1>2, <1>3, <2>3, <3>2, <4>1 DEF SameProposal
    <3> QED
      BY <3>1, <3>2
  <2>5. n \notin {8, 9}
    BY <1>6
  <2> QED
    BY <1>1, <2>4, <2>5 DEF ProposalFits, GenerateChanges, ConfigurationApproval, n
<1>7. CASE n \notin {8, 9} /\ ~(n >= 10)
  BY <1>1, <1>7 DEF ProposalFits, GenerateChanges, ConfigurationApproval, ApplyConfiguration, n
<1> QED
  BY <1>5, <1>6, <1>7

LEMMA DispatchesWarranted ==
  ASSUME Inv, Inv', RunsGood', Warranted, Kept, Dispatches
  PROVE  Warranted'
<1>1. PICK k, r, loaded, p, apps, jbs :
        Hand(k, r, loaded, p, apps, jbs) /\ HandedOn(k, r, loaded, p, apps, jbs)
  BY DEF Dispatches
<1>2. PICK last \in 0 .. 17 : Effect(k, r, apps, jbs, last)
  BY <1>1, Rows, HandedEffect
<1>3. Done(k, r, apps, jbs, last)
  BY <1>1, <1>2, EffectDone DEF Warranted
<1> QED
  BY <1>3, DoneJobs, DoneImports, DoneProject, DoneWorkspace, DoneProposal DEF Warranted

-----------------------------------------------------------------------------
(* Every step dispatches or is quiet *)

LEMMA NothingWritten ==
  ASSUME UNCHANGED <<runs, approvals, jobs, workspace>>,
         project'.status \in {"in_progress", "completed"} =>
           project'.status = project.status /\ project'.migration = project.migration
  PROVE  Quiet
BY DEF Quiet, SameProposal

(* One run is written, and ends or stays as it was but for its version and *)
(* proposal, while approvals are closed or opened.                         *)
LEMMA RunQuiet ==
  ASSUME Inv, NEW k \in DOMAIN runs, OnlyRun(k),
         runs'[k].steps = runs[k].steps, runs'[k].startedBy = runs[k].startedBy,
         Active(runs'[k]) => /\ Active(runs[k]) /\ runs'[k].state.job = runs[k].state.job
                             /\ SameProposal(runs'[k], runs[k]) \/ Replaced(runs'[k], runs[k]),
         Active(runs[k]) \/ runs'[k].status = "cancelled",
         DOMAIN approvals \subseteq DOMAIN approvals',
         \A i, g : Granted(i, g, approvals') = Granted(i, g, approvals),
         UNCHANGED <<jobs, workspace>>,
         project'.status \in {"in_progress", "completed"} =>
           project'.status = project.status /\ project'.migration = project.migration
  PROVE  Quiet
<1>1. DOMAIN runs' = DOMAIN runs /\ \A i \in DOMAIN runs : i # k => runs'[i] = runs[i]
  BY DEF OnlyRun
<1> QED
  BY <1>1 DEF Quiet, SameProposal

LEMMA CancelQuiet ==
  ASSUME Inv, NEW c \in Clients, CommitCancel(c)
  PROVE  Quiet
<1> DEFINE k   == req[c].target
           l   == req[c].loadedRun
           p   == req[c].loaded
           row == [runs[k] EXCEPT !.status = "cancelled", !.version = l.version + 1,
                                  !.state = [l.state EXCEPT !.pending = 0]]
<1>1. k \in DOMAIN runs /\ l \in LoadedRun /\ p \in Project
  BY DEF CommitCancel, Inv, TypeOK, ClientsOK, Request
<1>2. runs[k] \in Run
  BY <1>1, Rows
<1>3. row \in Run
  <2>1. [l.state EXCEPT !.pending = 0] \in RunState /\ l.version + 1 \in Nat
    BY <1>1 DEF LoadedRun, RunState
  <2> QED
    BY <1>2, <2>1 DEF Run, RunLifecycle
<1>4. /\ row.status = "cancelled" /\ row.steps = runs[k].steps
      /\ row.startedBy = runs[k].startedBy
  BY <1>2 DEF Run
<1>5. /\ runs' = [runs EXCEPT ![k] = row] /\ approvals' = Closed(k, req[c].user)
      /\ WriteProject(p, IF p.status = "in_progress" THEN Moved(p, "blocked") ELSE p)
      /\ UNCHANGED <<jobs, workspace>>
  BY DEF CommitCancel
<1>6. project'.status \in {"in_progress", "completed"} =>
        project'.status = project.status /\ project'.migration = project.migration
  <2>1. Moved(p, "blocked").status = "blocked"
    BY <1>1 DEF Moved, Project
  <2>2. project \in Project
    BY Rows
  <2> HIDE DEF p
  <2> QED
    BY <1>5, <2>1, <2>2 DEF WriteProject, Project
<1> HIDE DEF row, k, l
<1>7. OnlyRun(k) /\ runs'[k] = row
  BY <1>1, <1>3, <1>5, Rows, UpdateType, LenProperties DEF OnlyRun
<1>8. /\ DOMAIN approvals' = DOMAIN approvals
      /\ \A i, g : Granted(i, g, approvals') = Granted(i, g, approvals)
  <2>1. \A a \in DOMAIN approvals : approvals[a] \in Approval
    BY Rows
  <2>2. /\ DOMAIN approvals' = DOMAIN approvals
        /\ \A a \in DOMAIN approvals :
             /\ a \in Open(k) => approvals'[a].status = "cancelled"
             /\ a \notin Open(k) => approvals'[a] = approvals[a]
    BY <1>5, <2>1 DEF Closed, Approval
  <2>3. \A a \in Open(k) : approvals[a].status = "pending"
    BY DEF Open
  <2> QED
    BY <2>2, <2>3 DEF Granted
<1>9. ~Active(row)
  BY <1>4 DEF Active, ActiveStatuses
<1> QED
  BY <1>1, <1>4, <1>5, <1>6, <1>7, <1>8, <1>9, RunQuiet

LEMMA RejectQuiet ==
  ASSUME Inv, RunsGood, NEW u \in Users, NEW a \in DOMAIN approvals, Reject(u, a)
  PROVE  Quiet
<1> DEFINE k    == approvals[a].run
           r    == runs[k]
           q    == [Moved(r, "failed") EXCEPT !.state.pending = 0]
           apps == Decided(a, u, "rejected")
<1>1. /\ Decidable(u, a) /\ WriteRun(k, q) /\ approvals' = apps /\ UNCHANGED <<jobs, workspace>>
      /\ WriteProject(project, Moved(project, "blocked"))
  BY DEF Reject
<1>2. /\ k \in DOMAIN runs /\ DOMAIN apps = DOMAIN approvals
      /\ \A b \in DOMAIN approvals : b # a => apps[b] = approvals[b]
      /\ apps[a].status = "rejected" /\ approvals[a].status = "pending"
  BY <1>1, Deciding DEF Decidable
<1>3. k \in 1 .. Len(runs) + 1 /\ r \in Run
  BY <1>2, Rows
<1>4. q \in Run /\ q.status = "failed" /\ q.steps = r.steps /\ q.startedBy = r.startedBy
  <2>1. r.state \in RunState /\ "failed" \in RunLifecycle
    BY <1>3 DEF Run, RunLifecycle
  <2>2. /\ Moved(r, "failed") \in Run /\ Moved(r, "failed").state = r.state
        /\ Moved(r, "failed").status = "failed" /\ Moved(r, "failed").steps = r.steps
    BY <1>3, <2>1, MovedRunType
  <2>3. Moved(r, "failed").startedBy = r.startedBy
    BY <1>3 DEF Moved, Run
  <2> QED
    BY <2>1, <2>2, <2>3 DEF Run, RunState
<1>9. Active(r)
  BY <1>1 DEF Decidable, Active, ActiveStatuses
<1>5. project'.status \in {"in_progress", "completed"} =>
        project'.status = project.status /\ project'.migration = project.migration
  BY <1>1, Rows DEF WriteProject, Moved, Project
<1> HIDE DEF q, apps, k
<1>6. OnlyRun(k) /\ runs'[k] = q
  BY <1>1, <1>3, <1>4, Rows, WriteRunType
<1>7. \A i, g : Granted(i, g, apps) = Granted(i, g, approvals)
  BY <1>2 DEF Granted
<1>8. ~Active(q)
  BY <1>4 DEF Active, ActiveStatuses
<1> QED
  BY <1>1, <1>2, <1>4, <1>5, <1>6, <1>7, <1>8, <1>9, RunQuiet

LEMMA ReviseQuiet ==
  ASSUME Inv, RunsGood, NEW u \in Users, NEW k \in DOMAIN runs, NEW proposal \in Revisions,
         ReviseConfiguration(u, k, proposal)
  PROVE  Quiet
<1> DEFINE r   == runs[k]
           old == r.state.pending
           s   == [r.state EXCEPT !.config = proposal, !.base = workspace.applied,
                                  !.pending = Len(approvals) + 1]
           row == [approvals[old] EXCEPT !.status = "cancelled",
                                         !.version = approvals[old].version + 1]
           new == OpenApproval(k, ConfigurationApproval, u, s)
           mid == [approvals EXCEPT ![old] = row]
           q   == [r EXCEPT !.state = s, !.version = r.version + 1]
<1>1. /\ old \in DOMAIN approvals /\ approvals[old].status = "pending"
      /\ approvals' = Append(mid, new) /\ runs' = [runs EXCEPT ![k] = q]
      /\ r.status = "waiting_approval" /\ r.node = ConfigurationApproval
      /\ UNCHANGED <<project, jobs, workspace>>
  BY DEF ReviseConfiguration
<1>2. r \in Run /\ r.state \in RunState /\ approvals[old] \in Approval
  BY <1>1, Rows DEF Run
<1>12. Len(r.steps) = ConfigurationApproval
  BY <1>1 DEF RunsGood, Good, InOrder
<1>3. s \in RunState /\ s.job = r.state.job /\ s.base = workspace.applied
  <2>1. proposal \in Proposals /\ workspace.applied \in Proposals /\ Len(approvals) + 1 \in Nat
    BY Rows DEF Proposals
  <2> QED
    BY <1>2, <2>1 DEF RunState
<1>4. /\ q \in Run /\ q.steps = r.steps /\ q.startedBy = r.startedBy /\ q.state = s
      /\ q.status = r.status
  <2>1. r.version + 1 \in Nat
    BY <1>2 DEF Run
  <2> HIDE DEF s
  <2> QED
    BY <1>2, <1>3, <2>1 DEF Run
<1>5. new \in Approval /\ new.run = k /\ new.status = "pending"
  <2>1. ConfigurationApproval \in APPROVAL_NODES
    BY DEF APPROVAL_NODES
  <2> HIDE DEF s
  <2>2. new \in Approval /\ new.run = k
    BY <1>2, <1>3, <2>1, Rows, OpenApprovalType
  <2> QED
    BY <2>2 DEF OpenApproval
<1>6. row \in Approval /\ row.status = "cancelled"
  <2>1. approvals[old].version + 1 \in Nat
    BY <1>2 DEF Approval
  <2> QED
    BY <1>2, <2>1 DEF Approval
<1> HIDE DEF row, new, s, q, old
<1>7. /\ mid \in Seq(Approval) /\ DOMAIN mid = DOMAIN approvals
      /\ mid[old] = row /\ \A b \in DOMAIN approvals : b # old => mid[b] = approvals[b]
  BY <1>1, <1>6, Rows, UpdateType, LenProperties
<1> HIDE DEF mid
<1>8. \A i, g : Granted(i, g, mid) = Granted(i, g, approvals)
  BY <1>1, <1>6, <1>7 DEF Granted
<1>9. \A i, g : Granted(i, g, approvals') = Granted(i, g, mid)
  <2>1. \A i, g : Granted(i, g, Append(mid, new)) = Granted(i, g, mid)
    BY <1>5, <1>7, Opened
  <2> QED
    BY <1>1, <2>1, Zenon
<1>10. DOMAIN approvals \subseteq DOMAIN approvals'
  <2>1. SameElsewhere(k, mid, approvals')
    BY <1>1, <1>5, <1>7, Opened
  <2> QED
    BY <1>7, <2>1 DEF SameElsewhere
<1>11. OnlyRun(k) /\ runs'[k] = q
  BY <1>1, <1>4, Rows, UpdateType, LenProperties DEF OnlyRun
<1>13. Active(r) /\ Active(runs'[k])
  BY <1>1, <1>4, <1>11 DEF Active, ActiveStatuses
<1>14. Replaced(runs'[k], r) /\ runs'[k].state.job = r.state.job
  BY <1>3, <1>4, <1>11, <1>12 DEF Replaced
<1> QED
  BY <1>1, <1>4, <1>8, <1>9, <1>10, <1>11, <1>13, <1>14, RunQuiet

LEMMA JobsQuiet ==
  ASSUME Inv
  PROVE  /\ \A u \in Users, k \in DOMAIN runs : ValidateImport(u, k, FALSE) => Quiet
         /\ \A u \in Users, j \in DOMAIN jobs, a \in DOMAIN approvals : \A result :
              ExecuteJob(u, j, a, result) => Quiet
<1>1. ASSUME NEW u \in Users, NEW k \in DOMAIN runs, ValidateImport(u, k, FALSE)
      PROVE  Quiet
  <2>1. jobs' = Append(jobs, UploadedJob(k, FALSE)) /\ UNCHANGED <<project, runs, approvals, workspace>>
    BY <1>1 DEF ValidateImport
  <2> DEFINE jbs == Append(jobs, UploadedJob(k, FALSE))
  <2>2. /\ DOMAIN jobs \subseteq DOMAIN jbs
        /\ \A j \in DOMAIN jbs :
             IF j \in DOMAIN jobs THEN jbs[j] = jobs[j] ELSE jbs[j].result = "none"
    BY Rows, Uploaded
  <2> HIDE DEF jbs
  <2>3. jobs' = jbs
    BY <2>1 DEF jbs
  <2> QED
    BY <2>1, <2>2, <2>3 DEF Quiet, SameProposal
<1>2. ASSUME NEW u \in Users, NEW j \in DOMAIN jobs, NEW a \in DOMAIN approvals, NEW result,
             ExecuteJob(u, j, a, result)
      PROVE  Quiet
  <2> DEFINE row == Executed(jobs[j], workspace.applied, result)
  <2>1. /\ jobs' = [jobs EXCEPT ![j] = row]
        /\ runs[jobs[j].run].state.job = j /\ GrantFits(a, jobs[j].run)
        /\ UNCHANGED <<project, runs, approvals, workspace>>
    BY <1>2 DEF ExecuteJob
  <2>2. /\ row.run = jobs[j].run
        /\ Current(j, jobs, workspace.applied) => row = jobs[j]
    <3>1. jobs[j] \in Job
      BY Rows
    <3> QED
      BY <3>1 DEF Executed, Current, Job
  <2> HIDE DEF row
  <2>3. /\ a \in Granted(jobs[j].run, ImportApproval, approvals)
        /\ approvals[a].material.job = j
    BY <2>1 DEF GrantFits, Material, ImportApproval, ConfigurationApproval
  <2>4. /\ DOMAIN jobs' = DOMAIN jobs
        /\ \A i \in DOMAIN jobs : jobs'[i] = IF i = j THEN row ELSE jobs[i]
    BY <2>1
  <2> QED
    BY <2>1, <2>2, <2>3, <2>4 DEF Quiet, SameProposal
<1> QED
  BY <1>1, <1>2

LEMMA WorkerQuiet ==
  ASSUME Inv, NEW w \in Workers, StepDeleted(w) \/ FailRun(w)
  PROVE  Quiet
<1> DEFINE k == EventOf(w).run
           r == runs[k]
<1>1. ASSUME NEW status \in {"failed", "cancelled"}, Executing(k), ~At(w, "idle"),
             runs' = [runs EXCEPT ![k] = Moved(Begun(@), status)],
             UNCHANGED <<approvals, jobs, workspace>>,
             project' = project \/ project' = Moved(project, "blocked")
      PROVE  Quiet
  <2>1. k \in DOMAIN runs /\ r \in Run /\ Begun(r) \in Run
    BY <1>1, HeldRun, BegunType
  <2> DEFINE q == Moved(Begun(r), status)
  <2>2. q \in Run /\ q.status = status /\ q.steps = r.steps /\ q.startedBy = r.startedBy
    <3>1. status \in RunLifecycle
      BY DEF RunLifecycle
    <3>2. q \in Run /\ q.status = status /\ q.steps = Begun(r).steps
      BY <2>1, <3>1, MovedRunType
    <3>3. Begun(r).steps = r.steps /\ Begun(r).startedBy = r.startedBy
      BY <2>1 DEF Begun, Moved, Run
    <3>4. q.startedBy = Begun(r).startedBy
      BY <2>1 DEF Moved, Run
    <3> QED
      BY <3>2, <3>3, <3>4
  <2>3. runs' = [runs EXCEPT ![k] = q]
    BY <1>1
  <2>4. project'.status \in {"in_progress", "completed"} =>
          project'.status = project.status /\ project'.migration = project.migration
    BY <1>1, Rows DEF Moved, Project
  <2> HIDE DEF q, k
  <2>5. OnlyRun(k) /\ runs'[k] = q
    BY <2>1, <2>2, <2>3, Rows, UpdateType, LenProperties DEF OnlyRun
  <2>6. ~Active(q) /\ Active(r)
    BY <1>1, <2>2 DEF Active, ActiveStatuses, Executing, k
  <2> QED
    BY <1>1, <2>1, <2>2, <2>4, <2>5, <2>6, RunQuiet
<1>2. CASE StepDeleted(w)
  BY <1>1, <1>2 DEF StepDeleted, At
<1>3. CASE FailRun(w)
  <2>1. CASE UNCHANGED <<runs, project>>
    BY <1>3, <2>1, NothingWritten DEF FailRun
  <2>2. CASE /\ Executing(k) /\ runs' = [runs EXCEPT ![k] = Moved(Begun(@), "failed")]
             /\ project' = project \/ project' = Moved(project, "blocked")
    BY <1>1, <1>3, <2>2 DEF FailRun, At
  <2> QED
    BY <1>3, <2>1, <2>2 DEF FailRun
<1> QED
  BY <1>2, <1>3

LEMMA DispatchesOrQuiet ==
  ASSUME Inv, RunsGood, [Next]_vars
  PROVE  Dispatches \/ Quiet
<1>1. UNCHANGED <<runs, approvals, jobs, workspace, project>> => Quiet
  BY NothingWritten
<1>2. ASSUME UNCHANGED <<runs, approvals, jobs, workspace>>, project'.status = project.status,
             project'.migration = project.migration
             \/ project.status \in {"draft", "ready", "blocked"}
      PROVE  Quiet
  BY <1>2, NothingWritten
<1>3. CASE UNCHANGED vars
  BY <1>1, <1>3 DEF vars
<1>4. CASE RunsNext
  <2>1. ASSUME NEW c \in Clients, NEW u \in Users
        PROVE  /\ BeginStart(c, u) => Quiet
               /\ \A k : BeginCancel(c, u, k) => Quiet
               /\ \A j : BeginRetry(c, u, j) => Quiet
    BY <1>1 DEF BeginStart, BeginCancel, BeginRetry, dbVars
  <2>2. ASSUME NEW c \in Clients PROVE Abandon(c) => Quiet
    BY <1>1 DEF Abandon, dbVars
  <2>3. ASSUME NEW u \in Users, NEW m
        PROVE  /\ ReviseMaterials(u, m) => Quiet
               /\ DeleteProject(u) => Quiet
               /\ RestoreProject(u) => Quiet
               /\ ChangeAccess(u, m) => Quiet
    <3>1. ReviseMaterials(u, m) => Quiet
      BY <1>2, Rows DEF ReviseMaterials, Project
    <3>2. DeleteProject(u) => Quiet
      BY <1>2, Rows DEF DeleteProject, Project
    <3>3. RestoreProject(u) => Quiet
      BY <1>2, Rows DEF RestoreProject, Project
    <3>4. ChangeAccess(u, m) => Quiet
      BY <1>1 DEF ChangeAccess, dbVars
    <3> QED
      BY <3>1, <3>2, <3>3, <3>4
  <2>4. ASSUME NEW u \in Users, NEW k \in DOMAIN runs, NEW valid \in BOOLEAN,
               ValidateImport(u, k, valid)
        PROVE  Dispatches \/ Quiet
    <3>1. CASE valid = FALSE
      BY <2>4, <3>1, JobsQuiet
    <3>2. CASE valid = TRUE
      BY <2>4, <3>2, ValidateHand
    <3> QED
      BY <3>1, <3>2
  <2>5. /\ \A c \in Clients : CommitStart(c) \/ CommitRetry(c) => Dispatches
        /\ \A u \in Users, a \in DOMAIN approvals : Approve(u, a) => Dispatches
    BY StartHand, ApproveHand
  <2>6. /\ \A c \in Clients : CommitCancel(c) => Quiet
        /\ \A u \in Users, a \in DOMAIN approvals : Reject(u, a) => Quiet
        /\ \A u \in Users, k \in DOMAIN runs, p \in Revisions :
             ReviseConfiguration(u, k, p) => Quiet
        /\ \A u \in Users, j \in DOMAIN jobs, a \in DOMAIN approvals : \A result :
             ExecuteJob(u, j, a, result) => Quiet
    BY CancelQuiet, RejectQuiet, ReviseQuiet, JobsQuiet
  <2> QED
    BY <1>4, <2>1, <2>2, <2>3, <2>4, <2>5, <2>6 DEF RunsNext
<1>5. CASE WorkerNext
  <2>1. ASSUME NEW w, NEW e
        PROVE  (Publish(e) \/ Lose(e) \/ Receive(w, e)) => Quiet
    BY <1>1 DEF Publish, Lose, Receive, Take, TakeRefused, Skip, runsVars
  <2>2. ASSUME NEW w \in Workers, NEW http \in BOOLEAN
        PROVE  /\ StepStopped(w) => Quiet
               /\ StepRetried(w) \/ StepFails(w, http) => Quiet
               /\ CommitFailed(w) \/ CommitDone(w) \/ Crash(w) => Quiet
    BY <1>1 DEF StepStopped, StepRetried, StepFails, CommitFailed, CommitDone, Crash, runsVars
  <2>3. \A w \in Workers : /\ StepNode(w) => Dispatches
                           /\ StepDeleted(w) \/ FailRun(w) => Quiet
    BY WorkerGood, WorkerQuiet
  <2> QED
    BY <1>5, <2>1, <2>2, <2>3 DEF WorkerNext, WorkerStep
<1> QED
  BY <1>3, <1>4, <1>5 DEF Next

LEMMA NextWarranted ==
  ASSUME Inv, Inv', RunsGood, RunsGood', Warranted, Kept, [Next]_vars
  PROVE  Warranted'
BY DispatchesOrQuiet, DispatchesWarranted, QuietWarranted

LEMMA WarrantedAlways == Spec => []Warranted
<1>1. Init => Warranted
  <2> SUFFICES ASSUME Init PROVE Warranted
    OBVIOUS
  <2>1. runs = <<>> /\ jobs = <<>> /\ workspace.applied = "none" /\ project.status = "draft"
    BY DEF Init, RunsInit
  <2>2. DOMAIN runs = {} /\ DOMAIN jobs = {}
    BY <2>1
  <2>3. CompletedReady
    BY <2>1 DEF CompletedReady
  <2>4. WorkspaceAsApproved
    BY <2>1, <2>2 DEF WorkspaceAsApproved
  <2> QED
    BY <2>2, <2>3, <2>4
       DEF Warranted, JobsOwned, ImportsApproved, ImportsCurrent, StillReady, ProposalsFit
<1>2. Inv /\ RunsGood /\ Inv' /\ RunsGood' /\ Warranted /\ [Next]_vars => Warranted'
  BY NextKeeps, NextWarranted
<1> QED
  BY <1>1, <1>2, GoodAlways, PTL DEF Spec

-----------------------------------------------------------------------------
(* The theorems about what takes effect *)

(* No import ran that nobody independent approved, neither by the workflow *)
(* (tools.execute_import) nor by a direct call of execute_import.          *)
THEOREM ImportsAreApproved == Spec => []ImportsApproved
BY WarrantedAlways, PTL DEF Warranted

(* A completed project has a run that went through every node and, where   *)
(* its documents ask for a migration, has its import in full: neither a    *)
(* revision of the materials nor a stale start or cancellation comes       *)
(* between the go-live checks and close_project, and executing the import  *)
(* again changes it only once a run that a stale start began has applied   *)
(* another configuration (execute_csv).                                    *)
THEOREM CompletedProjectsWereReady == Spec => []CompletedWasReady
<1>1. ASSUME Inv, Warranted PROVE CompletedWasReady
  <2> SUFFICES ASSUME project.status = "completed" PROVE CompletedWasReady
    BY DEF CompletedWasReady
  <2>1. PICK k \in DOMAIN runs :
          /\ Len(runs[k].steps) = CloseProject
          /\ project.migration => Imported(k, jobs, workspace.applied) \/ Reconfigured(k)
    BY <1>1 DEF Warranted, CompletedReady
  <2>2. Imported(k, jobs, workspace.applied) =>
          \E j \in DOMAIN jobs : jobs[j].run = k /\ jobs[j].result = "completed"
    BY DEF Imported
  <2>3. ASSUME Reconfigured(k)
        PROVE  \E i \in k + 1 .. Latest : Len(runs[i].steps) >= ApplyConfiguration
    <3>1. PICK i \in DOMAIN runs : i > k /\ Len(runs[i].steps) >= ApplyConfiguration
      BY <2>3 DEF Reconfigured
    <3>2. i \in k + 1 .. Latest
      BY <1>1, <2>1, <3>1, Rows DEF Latest
    <3> QED
      BY <3>1, <3>2
  <2> QED
    BY <2>1, <2>2, <2>3 DEF CompletedWasReady
<1> QED
  BY <1>1, GoodAlways, WarrantedAlways, PTL

(* The workspace holds what the last run to apply a configuration was last *)
(* granted: no proposal superseded during the approval, and none not       *)
(* approved yet, reaches it (decide, revise_configuration, require_receipt).*)
THEOREM WorkspaceHoldsWhatWasApproved == Spec => []WorkspaceAsApproved
BY WarrantedAlways, PTL DEF Warranted

(* What a run was let through for still stands when its tools ask for it:  *)
(* require_receipt and the check of apply_configuration against what the   *)
(* workspace holds never stop a run that came through its gates, whatever  *)
(* was revised, uploaded, cancelled or retried on the way.                 *)
THEOREM GrantsStand == Spec => []GrantsHold
<1>1. ASSUME Inv, RunsGood, Warranted PROVE GrantsHold
  <2> SUFFICES ASSUME NEW k \in DOMAIN runs, Going(k)
               PROVE  /\ \A g \in {ConfigurationApproval, ImportApproval} :
                           (g < Len(runs[k].steps)
                            \/ (g = Len(runs[k].steps) /\ runs[k].status # "waiting_approval")) =>
                             Receipt(k, g, runs[k].state, approvals)
                      /\ Len(runs[k].steps) \in {GenerateChanges, ConfigurationApproval} =>
                           workspace.applied = runs[k].state.base
                      /\ Len(runs[k].steps) >= ApplyConfiguration =>
                           workspace.applied = runs[k].state.config
    BY DEF GrantsHold
  <2>1. Active(runs[k])
    BY DEF Going, Active
  <2>2. ASSUME NEW g \in APPROVAL_NODES, Behind(g, runs[k])
        PROVE  Receipt(k, g, runs[k].state, approvals)
    <3>1. GrantsFit(k, runs[k], approvals)
      BY <1>1 DEF RunsGood, Good
    <3>2. PICK a \in DOMAIN approvals :
            Granted(k, g, approvals) = {a} /\ approvals[a].material = Material(g, runs[k].state)
      BY <2>1, <2>2, <3>1 DEF GrantsFit
    <3>3. a <= a
      BY <1>1, Rows
    <3> QED
      BY <3>2, <3>3 DEF Receipt
  <2>3. {ConfigurationApproval, ImportApproval} \subseteq APPROVAL_NODES
    BY DEF APPROVAL_NODES
  <2>4. ProposalFits(runs[k], workspace.applied)
    BY <1>1 DEF Warranted, ProposalsFit
  <2> QED
    BY <2>1, <2>2, <2>3, <2>4 DEF Behind, ProposalFits
<1> QED
  BY <1>1, GoodAlways, WarrantedAlways, PTL

(* A run that has ended records nothing more and is never taken up again:  *)
(* the late cancellation that may rename its end is all that can happen to *)
(* it (cancel_run, process_event).                                         *)
THEOREM EndedRunsStayEnded == Spec => EndedStaysEnded
<1>1. ASSUME Inv, RunsGood, [Next]_vars, NEW k \in DOMAIN runs, ~Going(k)
      PROVE  /\ runs'[k].status \in {runs[k].status, "cancelled"}
             /\ runs'[k].steps = runs[k].steps
  <2>1. ~Active(runs[k])
    BY <1>1 DEF Going, Active
  <2>2. CASE Quiet
    BY <2>1, <2>2 DEF Quiet
  <2>3. CASE Dispatches
    <3>1. PICK i, r, loaded, p, apps, jbs :
            Hand(i, r, loaded, p, apps, jbs) /\ HandedOn(i, r, loaded, p, apps, jbs)
      BY <2>3 DEF Dispatches
    <3>2. i # k
      BY <2>1, <3>1 DEF Hand
    <3>3. OnlyRun(i)
      BY <1>1, <3>1, Rows, HandedEffect DEF Effect
    <3> QED
      BY <3>2, <3>3 DEF OnlyRun
  <2> QED
    BY <1>1, <2>2, <2>3, DispatchesOrQuiet
<1>2. Inv /\ RunsGood /\ [Next]_vars =>
        [\A k \in DOMAIN runs : ~Going(k) =>
           /\ runs'[k].status \in {runs[k].status, "cancelled"}
           /\ runs'[k].steps = runs[k].steps]_runs
  BY <1>1
<1> QED
  BY <1>2, GoodAlways, PTL DEF Spec, EndedStaysEnded
=============================================================================
