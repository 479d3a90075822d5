---------------------------- MODULE WorkerProofs ----------------------------
(***************************************************************************)
(* Proofs about Worker for every value of its constants: the rows keep     *)
(* their types, and a project has one run under way at most.               *)
(*                                                                         *)
(* The two are proved together.  Only the latest run is ever resumed       *)
(* because only the latest can be going on, and a step that writes the     *)
(* latest run keeps the types because the rows it reads have theirs.       *)
(***************************************************************************)
EXTENDS Worker, TLAPS, SequenceTheorems

-----------------------------------------------------------------------------
(* Data *)

(* A message more or less leaves a bag of the same events.                 *)
LEMMA BagType ==
  ASSUME NEW D, NEW B, IsABag(B), BagToSet(B) \subseteq D, NEW e \in D
  PROVE  /\ IsABag(B (+) SetToBag({e})) /\ BagToSet(B (+) SetToBag({e})) \subseteq D
         /\ IsABag(B (-) SetToBag({e})) /\ BagToSet(B (-) SetToBag({e})) \subseteq D
BY DEF IsABag, BagToSet, SetToBag, (+), (-), BagIn

(* Updating an element keeps a sequence; updating none keeps it as it is.  *)
LEMMA UpdateType ==
  ASSUME NEW S, NEW s \in Seq(S), NEW i, NEW v, i \in DOMAIN s => v \in S
  PROVE  /\ [s EXCEPT ![i] = v] \in Seq(S)
         /\ Len([s EXCEPT ![i] = v]) = Len(s)
         /\ \A j \in DOMAIN s : [s EXCEPT ![i] = v][j] = IF j = i THEN v ELSE s[j]
<1>1. s \in [1 .. Len(s) -> S] /\ Len(s) \in Nat
  OBVIOUS
<1>2. [s EXCEPT ![i] = v] \in [1 .. Len(s) -> S]
  BY <1>1
<1> QED
  BY <1>1, <1>2, LenProperties

(* The nodes recorded by a segment are a sequence of nodes.                *)
LEMMA SegmentType ==
  ASSUME NEW first \in 1 .. 18, NEW recorded \in first - 1 .. 17
  PROVE  [i \in 1 .. (recorded + 1 - first) |-> first + i - 1] \in Seq(Nodes)
BY DEF Nodes

LEMMA MovedProjectType ==
  ASSUME NEW p \in Project, NEW s \in ProjectLifecycle
  PROVE  Moved(p, s) \in Project
<1>1. p.version + 1 \in Nat
  BY DEF Project
<1>2. [p EXCEPT !.status = s, !.version = p.version + 1] \in Project
  BY <1>1 DEF Project
<1> QED
  BY <1>2 DEF Moved

LEMMA MovedRunType ==
  ASSUME NEW r \in Run, NEW s \in RunLifecycle
  PROVE  /\ Moved(r, s) \in Run
         /\ Moved(r, s).status = s
         /\ Moved(r, s).state = r.state
         /\ Moved(r, s).steps = r.steps
<1>1. r.version + 1 \in Nat
  BY DEF Run
<1>2. [r EXCEPT !.status = s, !.version = r.version + 1] \in Run
  BY <1>1 DEF Run
<1>3. /\ [r EXCEPT !.status = s, !.version = r.version + 1].status = s
      /\ [r EXCEPT !.status = s, !.version = r.version + 1].state = r.state
      /\ [r EXCEPT !.status = s, !.version = r.version + 1].steps = r.steps
  BY DEF Run
<1> QED
  BY <1>2, <1>3 DEF Moved

LEMMA StartIndexType ==
  ASSUME NEW s \in RunState
  PROVE  StartIndex(s) \in 1 .. 18
BY DEF StartIndex, RunState, Nodes

LEMMA StateType ==
  ASSUME NEW s \in RunState, NEW last \in Nodes, NEW done \in 0 .. 17,
         NEW applied \in Proposals
  PROVE  StateThrough(s, last, done, applied) \in RunState
<1>1. StartIndex(s) \in 1 .. 18
  BY StartIndexType
<1>2. StartIndex(s) .. done \subseteq Nodes
  BY <1>1 DEF Nodes
<1> QED
  BY <1>1, <1>2 DEF StateThrough, RunState, Proposals

LEMMA MaterialType ==
  ASSUME NEW s \in RunState, NEW kind
  PROVE  Material(kind, s) \in MaterialRecord
BY DEF Material, MaterialRecord, RunState, Proposals

LEMMA OpenApprovalType ==
  ASSUME NEW k \in Nat, NEW kind \in APPROVAL_NODES, NEW u \in Users, NEW s \in RunState
  PROVE  /\ OpenApproval(k, kind, u, s) \in Approval
         /\ OpenApproval(k, kind, u, s).run = k
BY MaterialType DEF OpenApproval, Approval

(* An approval decided or taken back by someone.                           *)
LEMMA ApprovalWritten ==
  ASSUME NEW a \in Approval, NEW u \in Users \cup {NoUser},
         NEW status \in {"pending", "approved", "rejected", "cancelled"}
  PROVE  /\ [a EXCEPT !.status = status, !.version = a.version + 1, !.decidedBy = u] \in Approval
         /\ [a EXCEPT !.status = status, !.version = a.version + 1, !.decidedBy = u].run = a.run
<1>1. a.version + 1 \in Nat
  BY DEF Approval
<1> QED
  BY <1>1 DEF Approval

LEMMA RanType ==
  ASSUME NEW r \in Run, NEW last \in Nodes, NEW status \in RunLifecycle, NEW pending \in Nat,
         NEW recorded \in StartIndex(r.state) - 1 .. 17,
         NEW done \in 0 .. 17, workspace.applied \in Proposals
  PROVE  Ran(r, last, recorded, done, status, pending) \in Run
<1> DEFINE first == StartIndex(r.state)
           new   == [i \in 1 .. (recorded + 1 - first) |-> first + i - 1]
           s     == StateThrough(r.state, last, done, workspace.applied)
<1>1. r.state \in RunState /\ r.steps \in Seq(Nodes)
  BY DEF Run
<1>2. first \in 1 .. 18 /\ s \in RunState
  BY <1>1, StateType, StartIndexType
<1>3. new \in Seq(Nodes)
  BY <1>2, SegmentType
<1>4. r.steps \o new \in Seq(Nodes)
  BY <1>1, <1>3, ConcatProperties
<1>5. [s EXCEPT !.pending = pending] \in RunState
  BY <1>2 DEF RunState
<1>6. Moved(r, status) \in Run /\ Moved(r, status).steps = r.steps
  BY MovedRunType
<1> HIDE DEF first, new, s
<1>7. [Moved(r, status) EXCEPT !.node = last, !.steps = r.steps \o new,
                               !.state = [s EXCEPT !.pending = pending]] \in Run
  BY <1>4, <1>5, <1>6 DEF Run
<1> QED
  BY <1>6, <1>7 DEF Ran, first, new, s

-----------------------------------------------------------------------------
(* Writing back *)

(* A step that writes run k, old or new, and no other run.                 *)
OnlyRun(k) ==
  /\ runs' \in Seq(Run)
  /\ DOMAIN runs' = DOMAIN runs \cup {k}
  /\ \A i \in DOMAIN runs : i # k => runs'[i] = runs[i]

LEMMA WriteRunType ==
  ASSUME runs \in Seq(Run), NEW k \in 1 .. Len(runs) + 1, NEW r \in Run, WriteRun(k, r)
  PROVE  OnlyRun(k) /\ runs'[k] = r
<1>1. CASE k > Len(runs)
  BY <1>1, AppendProperties DEF WriteRun, OnlyRun
<1>2. CASE k <= Len(runs)
  BY <1>2, UpdateType, LenProperties DEF WriteRun, OnlyRun
<1> QED
  BY <1>1, <1>2

LEMMA WriteProjectType ==
  ASSUME project \in Project, NEW p \in Project, NEW loaded, WriteProject(loaded, p)
  PROVE  project' \in Project
BY DEF WriteProject, Project

(* A row added, of the run the step writes.                                *)
LEMMA AppendRow ==
  ASSUME NEW S, NEW table \in Seq(S), NEW row \in S, NEW ks, Refers(table, ks), row.run \in ks
  PROVE  /\ Append(table, row) \in Seq(S)
         /\ Refers(Append(table, row), ks)
         /\ Len(Append(table, row)) = Len(table) + 1
<1>1. /\ Append(table, row) \in Seq(S)
      /\ Len(Append(table, row)) = Len(table) + 1
      /\ \A i \in 1 .. Len(table) : Append(table, row)[i] = table[i]
      /\ Append(table, row)[Len(table) + 1] = row
  BY AppendProperties
<1>2. /\ DOMAIN Append(table, row) = 1 .. Len(table) + 1
      /\ DOMAIN table = 1 .. Len(table) /\ Len(table) \in Nat
  BY <1>1, LenProperties
<1> QED
  BY <1>1, <1>2 DEF Refers

LEMMA UpdateRow ==
  ASSUME NEW S, NEW table \in Seq(S), NEW i, NEW row, i \in DOMAIN table => row \in S,
         NEW ks, Refers(table, ks), i \in DOMAIN table => row.run \in ks
  PROVE  /\ [table EXCEPT ![i] = row] \in Seq(S)
         /\ Refers([table EXCEPT ![i] = row], ks)
         /\ Len([table EXCEPT ![i] = row]) = Len(table)
BY UpdateType DEF Refers

LEMMA ExecutedType ==
  ASSUME NEW j \in Job, NEW applied \in Proposals, NEW result \in {"completed", "partial_failed"}
  PROVE  Executed(j, applied, result) \in Job /\ Executed(j, applied, result).run = j.run
BY DEF Executed, Job

(* The imports of a segment execute at most one job.                       *)
LEMMA ExecutedRow ==
  ASSUME NEW jbs \in Seq(Job), NEW ks, Refers(jbs, ks), NEW i,
         NEW applied \in Proposals, NEW result \in {"completed", "partial_failed"},
         NEW jbs2, jbs2 = [jbs EXCEPT ![i] = Executed(jbs[i], applied, result)]
  PROVE  jbs2 \in Seq(Job) /\ Refers(jbs2, ks) /\ Len(jbs2) = Len(jbs)
<1> DEFINE row == Executed(jbs[i], applied, result)
<1>1. ASSUME i \in DOMAIN jbs PROVE row \in Job /\ row.run \in ks
  <2>1. jbs[i] \in Job /\ jbs[i].run \in ks
    BY <1>1 DEF Refers
  <2> QED
    BY <2>1, ExecutedType
<1>2. jbs2 = [jbs EXCEPT ![i] = row]
  OBVIOUS
<1> HIDE DEF row
<1>3. (i \in DOMAIN jbs => row \in Job) /\ (i \in DOMAIN jbs => row.run \in ks)
  BY <1>1
<1>4. /\ jbs2 \in Seq(Job) /\ Len(jbs2) = Len(jbs)
      /\ \A j \in DOMAIN jbs : jbs2[j] = IF j = i THEN row ELSE jbs[j]
  BY <1>2, <1>3, UpdateType
<1>5. DOMAIN jbs2 = DOMAIN jbs
  BY <1>2
<1> QED
  BY <1>3, <1>4, <1>5 DEF Refers

(* advance: whatever the segment, the transaction leaves typed rows behind *)
(* and writes no other run.                                                *)
LEMMA AdvanceType ==
  ASSUME RowsOK, NEW k \in 1 .. Len(runs) + 1, NEW r \in Run, NEW loaded, NEW p \in Project,
         NEW apps \in Seq(Approval), Refers(apps, DOMAIN runs \cup {k}),
         NEW jbs \in Seq(Job), Refers(jbs, DOMAIN runs \cup {k}),
         NEW oneNode \in BOOLEAN, Advance(k, r, loaded, p, apps, jbs, oneNode)
  PROVE  /\ r.status = "running"
         /\ project' \in Project /\ OnlyRun(k)
         /\ approvals' \in Seq(Approval) /\ Refers(approvals', DOMAIN runs \cup {k})
         /\ jobs' \in Seq(Job) /\ Refers(jobs', DOMAIN runs \cup {k}) /\ Len(jobs') = Len(jbs)
         /\ workspace' \in [applied : Proposals]
<1> DEFINE ks    == DOMAIN runs \cup {k}
           first == StartIndex(r.state)
<1>1. PICK last \in first .. CloseProject, ready \in BOOLEAN,
           result \in {"completed", "partial_failed"} :
        Segment(k, r, loaded, p, apps, jbs, oneNode, last, ready, result)
  BY DEF Advance
<1> DEFINE after == StateThrough(r.state, last, last, workspace.applied)
<1>2. r.status = "running"
  BY <1>1 DEF Segment
<1>3. /\ r.state \in RunState /\ r.state.pending \in Nat /\ r.startedBy \in Users
      /\ workspace.applied \in Proposals /\ r.state.config \in Proposals
  BY DEF Run, RunState, RowsOK
<1>4. first \in 1 .. 18
  BY <1>3, StartIndexType
<1> HIDE DEF first
<1>5. /\ last \in Nodes /\ last \in 0 .. 17 /\ last - 1 \in 0 .. 17
      /\ last \in first - 1 .. 17 /\ last - 1 \in first - 1 .. 17
  BY <1>4 DEF CloseProject, Nodes
<1>6. after \in RunState
  BY <1>3, <1>5, StateType
<1>7. \A status \in RunLifecycle, pending \in Nat :
        /\ Ran(r, last, last, last, status, pending) \in Run
        /\ Ran(r, last, last, last - 1, status, pending) \in Run
        /\ Ran(r, last, last - 1, last - 1, status, pending) \in Run
  BY <1>3, <1>5, RanType DEF first
<1>8. jobs' \in Seq(Job) /\ Refers(jobs', ks) /\ Len(jobs') = Len(jbs)
  <2> DEFINE applied == Applied(first .. last, r.state)
  <2>1. applied \in Proposals
    BY <1>3 DEF Applied
  <2>2. \/ jobs' = jbs
        \/ jobs' = [jbs EXCEPT ![r.state.job] = Executed(jbs[r.state.job], applied, result)]
    BY <1>1 DEF Segment, first
  <2> HIDE DEF applied, ks
  <2>3. Refers(jbs, ks)
    BY DEF ks
  <2> QED
    BY <2>1, <2>2, <2>3, ExecutedRow
<1>9. workspace' \in [applied : Proposals]
  BY <1>1, <1>3 DEF Segment, Applied
<1>10. /\ runs \in Seq(Run) /\ project \in Project
       /\ Len(apps) + 1 \in Nat
       /\ {"waiting_approval", "preparing_materials", "failed", "succeeded", "running"}
            \subseteq RunLifecycle
       /\ Moved(p, "blocked") \in Project /\ Moved(p, "completed") \in Project
  BY MovedProjectType, LenProperties DEF RowsOK, RunLifecycle, ProjectLifecycle
<1>11. last \in APPROVAL_NODES =>
         /\ Append(apps, OpenApproval(k, last, r.startedBy, after)) \in Seq(Approval)
         /\ Refers(Append(apps, OpenApproval(k, last, r.startedBy, after)), ks)
  BY <1>3, <1>6, OpenApprovalType, AppendRow
<1>12. approvals' \in Seq(Approval) /\ Refers(approvals', ks)
  BY <1>1, <1>11 DEF Segment
<1>13. OnlyRun(k)
  BY <1>1, <1>3, <1>7, <1>10, WriteRunType DEF Segment
<1>14. project' \in Project
  BY <1>1, <1>10, WriteProjectType DEF Segment
<1> QED
  BY <1>2, <1>8, <1>9, <1>12, <1>13, <1>14

(* dispatch: advance, or the row of the run with an event for it.          *)
LEMMA DispatchType ==
  ASSUME RowsOK, NEW k \in 1 .. Len(runs) + 1, NEW r \in Run, NEW loaded, NEW p \in Project,
         NEW apps \in Seq(Approval), Refers(apps, DOMAIN runs \cup {k}),
         NEW jbs \in Seq(Job), Refers(jbs, DOMAIN runs \cup {k}),
         Dispatch(k, r, loaded, p, apps, jbs)
  PROVE  RowsOK' /\ OnlyRun(k) /\ Len(jobs') = Len(jbs) /\ Len(outbox') >= Len(outbox)
<1>1. /\ runs \in Seq(Run) /\ project \in Project /\ Len(outbox) \in Nat
      /\ outbox \in Seq(Event) /\ Refers(outbox, DOMAIN runs \cup {k})
  BY LenProperties DEF RowsOK, Refers
<1>2. CASE Advance(k, r, loaded, p, apps, jbs, FALSE) /\ outbox' = outbox
  <2>1. /\ project' \in Project /\ OnlyRun(k)
        /\ approvals' \in Seq(Approval) /\ Refers(approvals', DOMAIN runs \cup {k})
        /\ jobs' \in Seq(Job) /\ Refers(jobs', DOMAIN runs \cup {k})
        /\ Len(jobs') = Len(jbs)
        /\ workspace' \in [applied : Proposals]
    BY <1>2, AdvanceType
  <2>2. Refers(outbox', DOMAIN runs \cup {k}) /\ outbox' \in Seq(Event)
    BY <1>1, <1>2
  <2> QED
    BY <1>1, <1>2, <2>1, <2>2 DEF RowsOK, OnlyRun
<1>3. CASE /\ outbox' = IF HasEvent(k, r.version) THEN outbox ELSE Append(outbox, NewEvent(k, r))
           /\ WriteRun(k, r) /\ WriteProject(loaded, p)
           /\ approvals' = apps /\ jobs' = jbs /\ workspace' = workspace
  <2>1. NewEvent(k, r) \in Event /\ NewEvent(k, r).run \in DOMAIN runs \cup {k}
    BY DEF NewEvent, Event, Run
  <2>2. /\ outbox' \in Seq(Event) /\ Refers(outbox', DOMAIN runs \cup {k})
        /\ Len(outbox') >= Len(outbox)
    BY <1>1, <1>3, <2>1, AppendRow
  <2>3. OnlyRun(k) /\ project' \in Project
    BY <1>1, <1>3, WriteRunType, WriteProjectType
  <2> QED
    BY <1>3, <2>2, <2>3 DEF RowsOK, OnlyRun
<1> QED
  BY <1>2, <1>3 DEF Dispatch

-----------------------------------------------------------------------------
(* The inductive invariant *)

Inv == TypeOK /\ OneActiveRun

(* A step ends a request or touches none.                                  *)
RequestsEnd == req' = req \/ \E c \in Clients : req' = [req EXCEPT ![c] = Idle]

(* A request ended, and rows only added.                                   *)
LEMMA ClientsKept ==
  ASSUME ClientsOK, DOMAIN runs \subseteq DOMAIN runs', DOMAIN jobs \subseteq DOMAIN jobs',
         UNCHANGED access,
         RequestsEnd
  PROVE  ClientsOK'
<1>1. CASE req' = req
  BY <1>1 DEF ClientsOK
<1>2. ASSUME NEW c \in Clients, req' = [req EXCEPT ![c] = Idle]
      PROVE  ClientsOK'
  <2>1. Idle \in Request /\ Idle.op = "idle"
    BY DEF Idle, Request
  <2> HIDE DEF Idle
  <2>2. \A d \in Clients : req'[d] = IF d = c THEN Idle ELSE req[d]
    BY <1>2 DEF ClientsOK
  <2>3. req' \in [Clients -> Request]
    BY <1>2, <2>1 DEF ClientsOK
  <2> QED
    BY <2>1, <2>2, <2>3 DEF ClientsOK
<1> QED
  BY <1>1, <1>2 DEF RequestsEnd

LEMMA WorkersKept ==
  ASSUME WorkersOK, DOMAIN outbox \subseteq DOMAIN outbox', UNCHANGED workerVars
  PROVE  WorkersOK'
BY DEF WorkersOK, workerVars, At

(* A step that starts, resumes or moves the only run under way.            *)
LEMMA OneRunWritten ==
  ASSUME runs \in Seq(Run), NEW k \in 1 .. Len(runs) + 1, OnlyRun(k), k >= Len(runs),
         \A i \in DOMAIN runs : Going(i) => i = k
  PROVE  OneActiveRun'
<1>1. DOMAIN runs' = 1 .. Len(runs') /\ DOMAIN runs = 1 .. Len(runs)
      /\ Len(runs) \in Nat /\ Len(runs') \in Nat
  BY LenProperties DEF OnlyRun
<1>2. Len(runs') = k
  BY <1>1 DEF OnlyRun
<1>3. \A i \in DOMAIN runs' : i # k => (i \in DOMAIN runs /\ runs'[i] = runs[i])
  BY DEF OnlyRun
<1> QED
  BY <1>2, <1>3 DEF OneActiveRun, Going, Latest

(* A step that brings no run to life.                                      *)
LEMMA NoneRevived ==
  ASSUME OneActiveRun, Len(runs') = Len(runs), DOMAIN runs' = DOMAIN runs,
         \A i \in DOMAIN runs : runs'[i].status \in ActiveStatuses => Going(i)
  PROVE  OneActiveRun'
BY DEF OneActiveRun, Going, Latest

LEMMA NewRunType ==
  ASSUME NEW u \in Users, NEW retryOf \in Nat, NEW job \in Nat
  PROVE  Launched(NewRun(u, retryOf, job)) \in Run
<1>1. InitialState(job) \in RunState
  BY DEF InitialState, RunState, Proposals, Nodes
<1>2. NewRun(u, retryOf, job) \in Run
  BY <1>1 DEF NewRun, Run, RunLifecycle, Nodes
<1>3. "running" \in RunLifecycle
  BY DEF RunLifecycle
<1> QED
  BY <1>2, <1>3, MovedRunType DEF Launched

(* What the rows say when a run is launched or resumed by dispatch.        *)
LEMMA DispatchInv ==
  ASSUME Inv, NEW k \in 1 .. Len(runs) + 1, NEW r \in Run, NEW loaded, NEW p \in Project,
         NEW apps \in Seq(Approval), Refers(apps, DOMAIN runs \cup {k}),
         NEW jbs \in Seq(Job), Refers(jbs, DOMAIN runs \cup {k}), Len(jbs) >= Len(jobs),
         k >= Len(runs), \A i \in DOMAIN runs : Going(i) => i = k,
         Dispatch(k, r, loaded, p, apps, jbs),
         UNCHANGED access, UNCHANGED workerVars,
         RequestsEnd
  PROVE  Inv'
<1>1. /\ RowsOK /\ RowsOK' /\ OnlyRun(k)
      /\ Len(jobs') >= Len(jobs) /\ Len(outbox') >= Len(outbox)
  BY DispatchType DEF Inv, TypeOK
<1>2. /\ DOMAIN runs \subseteq DOMAIN runs'
      /\ DOMAIN jobs \subseteq DOMAIN jobs'
      /\ DOMAIN outbox \subseteq DOMAIN outbox'
  BY <1>1, LenProperties DEF RowsOK, OnlyRun
<1>3. ClientsOK' /\ WorkersOK'
  BY <1>2, ClientsKept, WorkersKept DEF Inv, TypeOK
<1>5. OneActiveRun'
  BY <1>1, OneRunWritten DEF RowsOK
<1> QED
  BY <1>1, <1>3, <1>5 DEF Inv, TypeOK

-----------------------------------------------------------------------------
(* The API *)

(* A request begun: the rows stay, the snapshot is one of typed rows.      *)
LEMMA RequestBegun ==
  ASSUME Inv, NEW c \in Clients, NEW q \in Request, req' = [req EXCEPT ![c] = q],
         q.op = "cancel" => q.target \in DOMAIN runs,
         q.op = "retry" => q.target \in DOMAIN jobs,
         UNCHANGED <<dbVars, access>>, UNCHANGED workerVars
  PROVE  Inv'
<1>1. RowsOK' /\ OneActiveRun'
  BY DEF Inv, TypeOK, RowsOK, OneActiveRun, Going, Latest, dbVars
<1>2. \A d \in Clients : req'[d] = IF d = c THEN q ELSE req[d]
  BY DEF Inv, TypeOK, ClientsOK
<1>3. ClientsOK'
  BY <1>2 DEF Inv, TypeOK, ClientsOK, dbVars
<1>4. WorkersOK'
  BY WorkersKept DEF Inv, TypeOK, dbVars
<1> QED
  BY <1>1, <1>3, <1>4 DEF Inv, TypeOK

(* A step of the API that dispatches nothing and brings no run to life.    *)
LEMMA RowsWritten ==
  ASSUME Inv, RowsOK', DOMAIN runs' = DOMAIN runs, DOMAIN jobs \subseteq DOMAIN jobs',
         \A i \in DOMAIN runs : runs'[i].status \in ActiveStatuses => Going(i),
         UNCHANGED <<outbox, access>>, UNCHANGED workerVars,
         RequestsEnd
  PROVE  Inv'
<1>1. Len(runs') = Len(runs)
  BY LenProperties DEF Inv, TypeOK, RowsOK
<1>2. OneActiveRun'
  BY <1>1, NoneRevived DEF Inv
<1>3. ClientsOK' /\ WorkersOK'
  BY ClientsKept, WorkersKept DEF Inv, TypeOK
<1> QED
  BY <1>2, <1>3 DEF Inv, TypeOK

LEMMA BeginInv ==
  ASSUME Inv, UNCHANGED workerVars, NEW c \in Clients, NEW u \in Users
  PROVE  /\ BeginStart(c, u) => Inv'
         /\ \A k \in DOMAIN runs : BeginCancel(c, u, k) => Inv'
         /\ \A j \in DOMAIN jobs : BeginRetry(c, u, j) => Inv'
<1>1. project \in Project /\ runs \in Seq(Run) /\ jobs \in Seq(Job)
  BY DEF Inv, TypeOK, RowsOK
<1>2. ASSUME BeginStart(c, u) PROVE Inv'
  <2> DEFINE q == [op |-> "start", user |-> u, loaded |-> project]
  <2>1. q \in Request /\ q.op = "start"
    BY <1>1 DEF Request
  <2>2. req' = [req EXCEPT ![c] = q] /\ UNCHANGED <<dbVars, access>>
    BY <1>2 DEF BeginStart
  <2> HIDE DEF q
  <2> QED
    BY <2>1, <2>2, RequestBegun
<1>3. ASSUME NEW k \in DOMAIN runs, BeginCancel(c, u, k) PROVE Inv'
  <2> DEFINE l == [status |-> runs[k].status, version |-> runs[k].version,
                   state |-> runs[k].state]
             q == [op |-> "cancel", user |-> u, target |-> k, loaded |-> project,
                   loadedRun |-> l]
  <2>1. runs[k] \in Run /\ k \in Nat
    BY <1>1, LenProperties
  <2>2. l \in LoadedRun
    BY <2>1 DEF Run, LoadedRun
  <2>3. req' = [req EXCEPT ![c] = q] /\ UNCHANGED <<dbVars, access>>
    BY <1>3 DEF BeginCancel
  <2> HIDE DEF l
  <2>4. q \in Request /\ q.op = "cancel" /\ q.target = k
    BY <1>1, <2>1, <2>2 DEF Request
  <2> HIDE DEF q
  <2> QED
    BY <2>3, <2>4, RequestBegun
<1>4. ASSUME NEW j \in DOMAIN jobs, BeginRetry(c, u, j) PROVE Inv'
  <2> DEFINE t == jobs[j].result
             q == [op |-> "retry", user |-> u, target |-> j, result |-> t]
  <2>1. j \in Nat
    BY <1>1, LenProperties
  <2>2. t \in {"none", "completed", "partial_failed"}
    <3>1. jobs[j] \in Job
      BY <1>1
    <3> QED
      BY <3>1 DEF Job
  <2>3. req' = [req EXCEPT ![c] = q] /\ UNCHANGED <<dbVars, access>>
    BY <1>4 DEF BeginRetry
  <2> HIDE DEF t
  <2>4. q \in Request /\ q.op = "retry" /\ q.target = j
    BY <2>1, <2>2 DEF Request
  <2> HIDE DEF q
  <2> QED
    BY <2>3, <2>4, RequestBegun
<1> QED
  BY <1>2, <1>3, <1>4

LEMMA CommitStartInv ==
  ASSUME Inv, NEW c \in Clients, CommitStart(c), UNCHANGED workerVars
  PROVE  Inv'
<1> DEFINE p       == req[c].loaded
           k       == Latest + 1
           retryOf == IF Latest > 0 /\ runs[Latest].status \in {"failed", "cancelled"}
                      THEN Latest ELSE 0
           r       == Launched(NewRun(req[c].user, retryOf, 0))
<1>1. /\ runs \in Seq(Run) /\ DOMAIN runs = 1 .. Latest /\ Latest \in Nat
      /\ approvals \in Seq(Approval) /\ Refers(approvals, DOMAIN runs \cup {k})
      /\ jobs \in Seq(Job) /\ Refers(jobs, DOMAIN runs \cup {k}) /\ Len(jobs) \in Nat
  BY LenProperties DEF Inv, TypeOK, RowsOK, Refers, Latest
<1>2. req[c].user \in Users /\ p \in Project
  <2>1. req[c] \in Request /\ req[c].op = "start"
    BY DEF CommitStart, Inv, TypeOK, ClientsOK
  <2> QED
    BY <2>1 DEF Request
<1>3. r \in Run
  BY <1>1, <1>2, NewRunType
<1>4. Moved(p, "in_progress") \in Project
  BY <1>2, MovedProjectType DEF ProjectLifecycle
<1>5. \A i \in DOMAIN runs : ~Going(i)
  BY <1>1 DEF Inv, OneActiveRun, CommitStart, MayStart
<1>6. /\ Dispatch(k, r, p, Moved(p, "in_progress"), approvals, jobs)
      /\ RequestsEnd /\ UNCHANGED access
  BY DEF RequestsEnd, CommitStart
<1>7. k \in 1 .. Len(runs) + 1 /\ k = Len(runs) + 1 /\ Len(runs) \in Nat
  BY <1>1 DEF Latest
<1> HIDE DEF p, k, r
<1> QED
  BY <1>1, <1>3, <1>4, <1>5, <1>6, <1>7, DispatchInv

LEMMA CommitRetryInv ==
  ASSUME Inv, NEW c \in Clients, CommitRetry(c), UNCHANGED workerVars
  PROVE  Inv'
<1> DEFINE k   == Latest + 1
           jbs == Append(jobs, UploadedJob(k, TRUE))
           r   == Launched(NewRun(req[c].user, Latest, Len(jbs)))
<1>1. /\ runs \in Seq(Run) /\ DOMAIN runs = 1 .. Latest /\ Latest \in Nat
      /\ approvals \in Seq(Approval) /\ Refers(approvals, DOMAIN runs \cup {k})
      /\ jobs \in Seq(Job) /\ Refers(jobs, DOMAIN runs \cup {k}) /\ Len(jobs) \in Nat
      /\ project \in Project
  BY LenProperties DEF Inv, TypeOK, RowsOK, Refers, Latest
<1>2. req[c].user \in Users
  <2>1. req[c] \in Request /\ req[c].op = "retry"
    BY DEF CommitRetry, Inv, TypeOK, ClientsOK
  <2> QED
    BY <2>1 DEF Request
<1>3. UploadedJob(k, TRUE) \in Job /\ UploadedJob(k, TRUE).run = k
  BY <1>1 DEF UploadedJob, Job, Proposals
<1>4. /\ jbs \in Seq(Job) /\ Refers(jbs, DOMAIN runs \cup {k}) /\ Len(jbs) = Len(jobs) + 1
  BY <1>1, <1>3, AppendRow
<1>5. r \in Run
  <2>1. Len(jbs) \in Nat
    BY <1>1, <1>4
  <2> HIDE DEF jbs
  <2> QED
    BY <1>1, <1>2, <2>1, NewRunType
<1>6. Moved(project, "in_progress") \in Project
  BY <1>1, MovedProjectType DEF ProjectLifecycle
<1>7. \A i \in DOMAIN runs : ~Going(i)
  <2>1. ~Going(Latest)
    BY DEF CommitRetry, Going, ActiveStatuses
  <2> QED
    BY <1>1, <2>1 DEF Inv, OneActiveRun
<1>8. /\ Dispatch(k, r, project, Moved(project, "in_progress"), approvals, jbs)
      /\ RequestsEnd /\ UNCHANGED access
  BY DEF RequestsEnd, CommitRetry
<1>9. k \in 1 .. Len(runs) + 1 /\ k = Len(runs) + 1 /\ Len(runs) \in Nat
  BY <1>1 DEF Latest
<1>10. Len(jbs) >= Len(jobs)
  BY <1>1, <1>4
<1> HIDE DEF k, jbs, r
<1> QED
  BY <1>1, <1>4, <1>5, <1>6, <1>7, <1>8, <1>9, <1>10, DispatchInv

LEMMA CommitCancelInv ==
  ASSUME Inv, NEW c \in Clients, CommitCancel(c), UNCHANGED workerVars
  PROVE  Inv'
<1> DEFINE k    == req[c].target
           l    == req[c].loadedRun
           p    == req[c].loaded
           row  == [runs[k] EXCEPT !.status = "cancelled", !.version = l.version + 1,
                                   !.state = [l.state EXCEPT !.pending = 0]]
           moved == IF p.status = "in_progress" THEN Moved(p, "blocked") ELSE p
<1>1. /\ project \in Project /\ runs \in Seq(Run) /\ DOMAIN runs = 1 .. Len(runs)
      /\ approvals \in Seq(Approval) /\ Refers(approvals, DOMAIN runs)
  BY LenProperties DEF Inv, TypeOK, RowsOK
<1>2. k \in DOMAIN runs /\ req[c].user \in Users /\ p \in Project /\ l \in LoadedRun
  <2>1. req[c] \in Request /\ req[c].op = "cancel"
    BY DEF CommitCancel, Inv, TypeOK, ClientsOK
  <2>2. req[c].user \in Users /\ p \in Project /\ l \in LoadedRun
    BY <2>1 DEF Request
  <2> QED
    BY <2>1, <2>2 DEF Inv, TypeOK, ClientsOK
<1>3. row \in Run /\ row.status = "cancelled"
  <2>1. [l.state EXCEPT !.pending = 0] \in RunState /\ l.version + 1 \in Nat
    BY <1>2 DEF LoadedRun, RunState
  <2>2. runs[k] \in Run
    BY <1>1, <1>2
  <2> QED
    BY <2>1, <2>2 DEF Run, RunLifecycle
<1>4. runs' = [runs EXCEPT ![k] = row]
  BY DEF CommitCancel
<1>5. /\ runs' \in Seq(Run) /\ DOMAIN runs' = DOMAIN runs
      /\ \A i \in DOMAIN runs : runs'[i] = IF i = k THEN row ELSE runs[i]
  <2> HIDE DEF row, k
  <2> QED
    BY <1>1, <1>3, <1>4, UpdateType, LenProperties
<1>6. project' \in Project
  <2>1. moved \in Project
    BY <1>2, MovedProjectType DEF ProjectLifecycle
  <2>2. WriteProject(p, moved)
    BY DEF CommitCancel
  <2> QED
    BY <1>1, <2>1, <2>2, WriteProjectType
<1>7. approvals' \in Seq(Approval) /\ Refers(approvals', DOMAIN runs)
  <2> DEFINE closed(a) == [approvals[a] EXCEPT !.status = "cancelled", !.version = approvals[a].version + 1,
                                             !.decidedBy = req[c].user]
  <2>1. ASSUME NEW a \in DOMAIN approvals
        PROVE  closed(a) \in Approval /\ closed(a).run = approvals[a].run
    <3>1. approvals[a] \in Approval /\ req[c].user \in Users \cup {NoUser}
      BY <1>1, <1>2
    <3> QED
      BY <3>1, ApprovalWritten
  <2>2. approvals' = [a \in DOMAIN approvals |-> IF a \in Open(k) THEN closed(a) ELSE approvals[a]]
    BY DEF CommitCancel, Closed
  <2> HIDE DEF closed
  <2>3. /\ approvals' \in [1 .. Len(approvals) -> Approval] /\ Len(approvals) \in Nat
        /\ Refers(approvals', DOMAIN runs)
    BY <1>1, <2>1, <2>2, LenProperties DEF Refers
  <2> QED
    BY <2>3
<1>8. RowsOK'
  BY <1>5, <1>6, <1>7 DEF RowsOK, Inv, TypeOK, CommitCancel
<1>9. \A i \in DOMAIN runs : runs'[i].status \in ActiveStatuses => Going(i)
  BY <1>3, <1>5 DEF Going, ActiveStatuses
<1>10. UNCHANGED <<outbox, access, jobs>> /\ RequestsEnd
  BY DEF CommitCancel, RequestsEnd
<1> QED
  BY <1>5, <1>8, <1>9, <1>10, RowsWritten

(* The decision written into the row of the approval.                      *)
LEMMA DecidedType ==
  ASSUME RowsOK, NEW u \in Users, NEW a \in DOMAIN approvals,
         NEW decision \in {"approved", "rejected"}
  PROVE  /\ Decided(a, u, decision) \in Seq(Approval)
         /\ Refers(Decided(a, u, decision), DOMAIN runs)
<1> DEFINE row == [approvals[a] EXCEPT !.status = decision, !.version = approvals[a].version + 1,
                                       !.decidedBy = u]
<1>1. approvals \in Seq(Approval) /\ approvals[a] \in Approval
  BY DEF RowsOK
<1>2. row \in Approval /\ row.run = approvals[a].run
  BY <1>1, ApprovalWritten
<1>3. Decided(a, u, decision) = [approvals EXCEPT ![a] = row]
  BY DEF Decided
<1>4. row.run \in DOMAIN runs /\ Refers(approvals, DOMAIN runs)
  BY <1>2 DEF RowsOK, Refers
<1> HIDE DEF row
<1>5. /\ [approvals EXCEPT ![a] = row] \in Seq(Approval)
      /\ Refers([approvals EXCEPT ![a] = row], DOMAIN runs)
  BY <1>1, <1>2, <1>4, UpdateRow
<1> QED
  BY <1>3, <1>5

LEMMA ApproveInv ==
  ASSUME Inv, NEW u \in Users, NEW a \in DOMAIN approvals, Approve(u, a), UNCHANGED workerVars
  PROVE  Inv'
<1> DEFINE k == approvals[a].run
           r == [Moved(runs[k], "running") EXCEPT !.state.pending = 0]
<1>1. /\ RowsOK /\ project \in Project /\ runs \in Seq(Run) /\ jobs \in Seq(Job)
      /\ DOMAIN runs = 1 .. Len(runs) /\ Len(runs) \in Nat /\ Len(jobs) \in Nat
      /\ Refers(jobs, DOMAIN runs)
  BY LenProperties DEF Inv, TypeOK, RowsOK
<1>2. k \in DOMAIN runs /\ k \in 1 .. Len(runs) + 1
  BY <1>1 DEF RowsOK, Refers
<1>3. DOMAIN runs \cup {k} = DOMAIN runs
  BY <1>2
<1>4. r \in Run
  <2>1. runs[k] \in Run /\ "running" \in RunLifecycle
    BY <1>1, <1>2 DEF RunLifecycle
  <2>2. Moved(runs[k], "running") \in Run
    BY <2>1, MovedRunType
  <2> QED
    BY <2>2 DEF Run, RunState
<1>5. Going(k)
  BY DEF Approve, Decidable, Going, ActiveStatuses
<1>6. k = Len(runs) /\ \A i \in DOMAIN runs : Going(i) => i = k
  BY <1>2, <1>5 DEF Inv, OneActiveRun, Latest
<1>7. /\ Decided(a, u, "approved") \in Seq(Approval)
      /\ Refers(Decided(a, u, "approved"), DOMAIN runs)
  BY <1>1, DecidedType
<1>8. /\ Dispatch(k, r, project, project, Decided(a, u, "approved"), jobs)
      /\ RequestsEnd /\ UNCHANGED access
  BY DEF Approve, RequestsEnd
<1> HIDE DEF k, r
<1> QED
  BY <1>1, <1>2, <1>3, <1>4, <1>6, <1>7, <1>8, DispatchInv

LEMMA RejectInv ==
  ASSUME Inv, NEW u \in Users, NEW a \in DOMAIN approvals, Reject(u, a), UNCHANGED workerVars
  PROVE  Inv'
<1> DEFINE k == approvals[a].run
           r == [Moved(runs[k], "failed") EXCEPT !.state.pending = 0]
<1>1. /\ RowsOK /\ project \in Project /\ runs \in Seq(Run)
      /\ DOMAIN runs = 1 .. Len(runs) /\ Len(runs) \in Nat
  BY LenProperties DEF Inv, TypeOK, RowsOK
<1>2. k \in DOMAIN runs /\ k \in 1 .. Len(runs) + 1
  BY <1>1 DEF RowsOK, Refers
<1>3. r \in Run /\ r.status = "failed"
  <2>1. runs[k] \in Run /\ "failed" \in RunLifecycle
    BY <1>1, <1>2 DEF RunLifecycle
  <2>2. Moved(runs[k], "failed") \in Run /\ Moved(runs[k], "failed").status = "failed"
    BY <2>1, MovedRunType
  <2> QED
    BY <2>2 DEF Run, RunState
<1>4. OnlyRun(k) /\ runs'[k] = r
  <2>1. WriteRun(k, r)
    BY DEF Reject
  <2> HIDE DEF k, r
  <2> QED
    BY <1>1, <1>2, <1>3, <2>1, WriteRunType
<1>5. DOMAIN runs' = DOMAIN runs
  BY <1>2, <1>4 DEF OnlyRun
<1>6. project' \in Project
  <2>1. Moved(project, "blocked") \in Project
    BY <1>1, MovedProjectType DEF ProjectLifecycle
  <2> QED
    BY <1>1, <2>1, WriteProjectType DEF Reject
<1>7. approvals' \in Seq(Approval) /\ Refers(approvals', DOMAIN runs)
  BY <1>1, DecidedType DEF Reject
<1>8. RowsOK'
  BY <1>1, <1>4, <1>5, <1>6, <1>7 DEF RowsOK, OnlyRun, Reject
<1>9. \A i \in DOMAIN runs : runs'[i].status \in ActiveStatuses => Going(i)
  BY <1>3, <1>4 DEF OnlyRun, Going, ActiveStatuses
<1>10. UNCHANGED <<outbox, access, jobs>> /\ RequestsEnd
  BY DEF Reject, RequestsEnd
<1> QED
  BY <1>5, <1>8, <1>9, <1>10, RowsWritten

LEMMA ReviseConfigurationInv ==
  ASSUME Inv, NEW u \in Users, NEW k \in DOMAIN runs, NEW proposal \in Revisions,
         ReviseConfiguration(u, k, proposal), UNCHANGED workerVars
  PROVE  Inv'
<1> DEFINE old == runs[k].state.pending
           s   == [runs[k].state EXCEPT !.config = proposal, !.base = workspace.applied,
                                        !.pending = Len(approvals) + 1]
           row == [approvals[old] EXCEPT !.status = "cancelled",
                                         !.version = approvals[old].version + 1]
           new == OpenApproval(k, ConfigurationApproval, u, s)
           run == [runs[k] EXCEPT !.state = s, !.version = runs[k].version + 1]
<1>1. /\ runs \in Seq(Run) /\ DOMAIN runs = 1 .. Len(runs)
      /\ runs[k] \in Run /\ k \in Nat /\ Len(approvals) \in Nat
      /\ approvals \in Seq(Approval) /\ Refers(approvals, DOMAIN runs)
      /\ workspace.applied \in Proposals
  BY LenProperties DEF Inv, TypeOK, RowsOK
<1>2. s \in RunState
  <2>1. runs[k].state \in RunState /\ Len(approvals) + 1 \in Nat /\ proposal \in Proposals
    BY <1>1 DEF Run, Proposals
  <2> QED
    BY <1>1, <2>1 DEF RunState
<1>3. run \in Run /\ run.status = runs[k].status
  <2>1. runs[k].version + 1 \in Nat
    BY <1>1 DEF Run
  <2> HIDE DEF s
  <2> QED
    BY <1>1, <1>2, <2>1 DEF Run
<1>4. runs' = [runs EXCEPT ![k] = run]
  BY DEF ReviseConfiguration
<1>5. /\ runs' \in Seq(Run) /\ DOMAIN runs' = DOMAIN runs
      /\ \A i \in DOMAIN runs : runs'[i] = IF i = k THEN run ELSE runs[i]
  <2> HIDE DEF run
  <2> QED
    BY <1>1, <1>3, <1>4, UpdateType, LenProperties
<1>6. old \in DOMAIN approvals /\ approvals' = Append([approvals EXCEPT ![old] = row], new)
  BY DEF ReviseConfiguration
<1>7. row \in Approval /\ row.run = approvals[old].run /\ row.run \in DOMAIN runs
  <2>1. approvals[old] \in Approval
    BY <1>1, <1>6
  <2>2. approvals[old].version + 1 \in Nat
    BY <2>1 DEF Approval
  <2>3. row \in Approval /\ row.run = approvals[old].run
    BY <2>1, <2>2 DEF Approval
  <2> QED
    BY <1>1, <1>6, <2>3 DEF Refers
<1>8. new \in Approval /\ new.run = k
  <2>1. ConfigurationApproval \in APPROVAL_NODES
    BY DEF APPROVAL_NODES
  <2> HIDE DEF s
  <2> QED
    BY <1>1, <1>2, <2>1, OpenApprovalType
<1>9. approvals' \in Seq(Approval) /\ Refers(approvals', DOMAIN runs)
  <2> HIDE DEF old, row, new
  <2>1. /\ [approvals EXCEPT ![old] = row] \in Seq(Approval)
        /\ Refers([approvals EXCEPT ![old] = row], DOMAIN runs)
    BY <1>1, <1>7, UpdateRow
  <2> QED
    BY <1>6, <1>8, <2>1, AppendRow
<1>10. RowsOK'
  BY <1>5, <1>9 DEF RowsOK, Inv, TypeOK, ReviseConfiguration
<1>11. \A i \in DOMAIN runs : runs'[i].status \in ActiveStatuses => Going(i)
  BY <1>3, <1>5 DEF Going, ActiveStatuses
<1>12. UNCHANGED <<outbox, access, jobs>> /\ RequestsEnd
  BY DEF ReviseConfiguration, RequestsEnd
<1> QED
  BY <1>5, <1>10, <1>11, <1>12, RowsWritten

LEMMA ValidateImportInv ==
  ASSUME Inv, NEW u \in Users, NEW k \in DOMAIN runs, NEW valid \in BOOLEAN,
         ValidateImport(u, k, valid), UNCHANGED workerVars
  PROVE  Inv'
<1> DEFINE jbs == Append(jobs, UploadedJob(k, valid))
           r   == [Moved(runs[k], "running") EXCEPT !.state.job = Len(jbs)]
<1>1. /\ runs \in Seq(Run) /\ DOMAIN runs = 1 .. Len(runs) /\ Len(runs) \in Nat
      /\ runs[k] \in Run /\ k \in Nat /\ k \in 1 .. Len(runs) + 1
      /\ jobs \in Seq(Job) /\ Refers(jobs, DOMAIN runs) /\ Len(jobs) \in Nat
      /\ approvals \in Seq(Approval) /\ Refers(approvals, DOMAIN runs)
      /\ project \in Project
  BY LenProperties DEF Inv, TypeOK, RowsOK
<1>2. UploadedJob(k, valid) \in Job /\ UploadedJob(k, valid).run \in DOMAIN runs
  BY <1>1 DEF UploadedJob, Job, Proposals
<1>3. jbs \in Seq(Job) /\ Refers(jbs, DOMAIN runs) /\ Len(jbs) = Len(jobs) + 1
  BY <1>1, <1>2, AppendRow
<1>4. CASE ~valid
  <2>1. jobs' = jbs /\ UNCHANGED <<project, runs, approvals, workspace, outbox, access, req>>
    BY <1>4 DEF ValidateImport
  <2>2. RowsOK'
    BY <1>3, <2>1 DEF RowsOK, Inv, TypeOK
  <2>3. DOMAIN jobs \subseteq DOMAIN jobs'
    BY <1>1, <1>3, <2>1, LenProperties
  <2> QED
    BY <2>1, <2>2, <2>3, RowsWritten DEF RequestsEnd, Going
<1>5. CASE valid
  <2>1. r \in Run
    <3>1. Moved(runs[k], "running") \in Run
      BY <1>1, MovedRunType DEF RunLifecycle
    <3>2. Len(jbs) \in Nat
      BY <1>1, <1>3
    <3> HIDE DEF jbs
    <3> QED
      BY <3>1, <3>2 DEF Run, RunState
  <2>2. Going(k)
    BY DEF ValidateImport, Going, ActiveStatuses
  <2>3. k = Len(runs) /\ \A i \in DOMAIN runs : Going(i) => i = k
    BY <2>2 DEF Inv, OneActiveRun, Latest
  <2>4. /\ Dispatch(k, r, project, project, approvals, jbs)
        /\ RequestsEnd /\ UNCHANGED access
    BY <1>5 DEF ValidateImport, RequestsEnd
  <2>5. DOMAIN runs \cup {k} = DOMAIN runs /\ Len(jbs) >= Len(jobs)
    BY <1>1, <1>3
  <2> HIDE DEF jbs, r
  <2> QED
    BY <1>1, <1>3, <2>1, <2>3, <2>4, <2>5, DispatchInv
<1> QED
  BY <1>4, <1>5

LEMMA ExecuteJobInv ==
  ASSUME Inv, NEW u \in Users, NEW j \in DOMAIN jobs, NEW a \in DOMAIN approvals,
         NEW result \in {"completed", "partial_failed"},
         ExecuteJob(u, j, a, result), UNCHANGED workerVars
  PROVE  Inv'
<1>1. jobs \in Seq(Job) /\ Refers(jobs, DOMAIN runs)
  BY DEF Inv, TypeOK, RowsOK
<1>2. /\ jobs' = [jobs EXCEPT ![j] = Executed(@, workspace.applied, result)]
      /\ UNCHANGED <<project, runs, approvals, workspace, outbox, access, req>>
  BY DEF ExecuteJob
<1>3. jobs' \in Seq(Job) /\ Refers(jobs', DOMAIN runs) /\ Len(jobs') = Len(jobs)
  <2> DEFINE applied == workspace.applied
             ks      == DOMAIN runs
  <2>1. applied \in Proposals
    BY DEF Inv, TypeOK, RowsOK
  <2>2. jobs' = [jobs EXCEPT ![j] = Executed(jobs[j], applied, result)]
    BY <1>2
  <2> HIDE DEF applied, ks
  <2>3. Refers(jobs, ks)
    BY <1>1 DEF ks
  <2> DEFINE jbs2 == [jobs EXCEPT ![j] = Executed(jobs[j], applied, result)]
  <2>4. jbs2 \in Seq(Job) /\ Refers(jbs2, ks) /\ Len(jbs2) = Len(jobs)
    BY <1>1, <2>1, <2>3, ExecutedRow
  <2> HIDE DEF jbs2
  <2>5. jobs' = jbs2
    BY <2>2 DEF jbs2
  <2> QED
    BY <2>4, <2>5 DEF ks
<1>4. RowsOK' /\ DOMAIN jobs \subseteq DOMAIN jobs'
  BY <1>1, <1>2, <1>3, LenProperties DEF RowsOK, Inv, TypeOK
<1> QED
  BY <1>2, <1>4, RowsWritten DEF RequestsEnd, Going

(* The steps that only touch the project, the access or a request.         *)
LEMMA HousekeepingInv ==
  ASSUME Inv, UNCHANGED workerVars
  PROVE  /\ \A u \in Users, m \in Migrations : ReviseMaterials(u, m) => Inv'
         /\ \A u \in Users : DeleteProject(u) => Inv'
         /\ \A u \in Users : RestoreProject(u) => Inv'
         /\ \A u \in Users, level \in AccessLevels : ChangeAccess(u, level) => Inv'
         /\ \A c \in Clients : Abandon(c) => Inv'
<1>1. project \in Project /\ project.version + 1 \in Nat
  BY DEF Inv, TypeOK, RowsOK, Project
<1>2. ASSUME project' \in Project,
             UNCHANGED <<runs, approvals, jobs, workspace, outbox, access, req>>
      PROVE  Inv'
  <2>1. RowsOK'
    BY <1>2 DEF RowsOK, Inv, TypeOK
  <2> QED
    BY <1>2, <2>1, RowsWritten DEF RequestsEnd, Going
<1>3. ASSUME NEW u \in Users, NEW m \in Migrations, ReviseMaterials(u, m)
      PROVE  Inv'
  <2>1. m \in BOOLEAN
    BY RunsAssumption
  <2>2. project' \in Project
    BY <1>1, <1>3, <2>1 DEF ReviseMaterials, Project
  <2> QED
    BY <1>2, <1>3, <2>2 DEF ReviseMaterials
<1>4. ASSUME NEW u \in Users, DeleteProject(u) PROVE Inv'
  BY <1>1, <1>2, <1>4 DEF DeleteProject, Project
<1>5. ASSUME NEW u \in Users, RestoreProject(u) PROVE Inv'
  BY <1>1, <1>2, <1>5 DEF RestoreProject, Project
<1>6. ASSUME NEW u \in Users, NEW level \in AccessLevels, ChangeAccess(u, level)
      PROVE  Inv'
  <2>1. level \in {"full", "no_start", "none"}
    BY RunsAssumption
  <2>2. UNCHANGED <<project, runs, approvals, jobs, workspace, outbox, req>>
    BY <1>6 DEF ChangeAccess, dbVars
  <2>3. ClientsOK'
    BY <1>6, <2>1, <2>2 DEF ChangeAccess, ClientsOK, Inv, TypeOK
  <2>4. WorkersOK'
    BY <2>2, WorkersKept DEF Inv, TypeOK
  <2> QED
    BY <2>2, <2>3, <2>4 DEF Inv, TypeOK, RowsOK, OneActiveRun, Going, Latest
<1>7. ASSUME NEW c \in Clients, Abandon(c) PROVE Inv'
  <2>1. RowsOK' /\ UNCHANGED <<project, runs, approvals, jobs, workspace, outbox, access>>
    BY <1>7 DEF Abandon, dbVars, Inv, TypeOK, RowsOK
  <2> QED
    BY <1>7, <2>1, RowsWritten DEF Abandon, RequestsEnd, Going
<1> QED
  BY <1>3, <1>4, <1>5, <1>6, <1>7

LEMMA ApiInv ==
  ASSUME Inv, RunsNext, UNCHANGED workerVars
  PROVE  Inv'
BY BeginInv, CommitStartInv, CommitRetryInv, CommitCancelInv, ApproveInv, RejectInv,
   ReviseConfigurationInv, ValidateImportInv, ExecuteJobInv, HousekeepingInv DEF RunsNext

-----------------------------------------------------------------------------
(* The worker's steps *)

(* A worker that takes an event, goes on with it or lets it go.            *)
LEMMA WorkerMoved ==
  ASSUME WorkersOK, NEW w \in Workers, NEW s \in WorkerState,
         s.pc # "idle" => s.event \in DOMAIN outbox,
         worker' = [worker EXCEPT ![w] = s],
         IsABag(broker'), BagToSet(broker') \subseteq DOMAIN outbox,
         DOMAIN outbox \subseteq DOMAIN outbox', faults' \in 0 .. MaxFaults
  PROVE  WorkersOK'
<1>1. \A v \in Workers : worker'[v] = IF v = w THEN s ELSE worker[v]
  BY DEF WorkersOK
<1>2. worker' \in [Workers -> WorkerState]
  BY DEF WorkersOK
<1>3. \A v \in Workers : worker'[v].pc # "idle" => worker'[v].event \in DOMAIN outbox'
  BY <1>1 DEF WorkersOK, At
<1> QED
  BY <1>2, <1>3 DEF WorkersOK, At

LEMMA WorkerGoes ==
  ASSUME WorkersOK, NEW w \in Workers, ~At(w, "idle"),
         NEW pc \in {"step", "done", "failing", "failed"}, Goto(w, pc),
         UNCHANGED <<broker, faults>>, DOMAIN outbox \subseteq DOMAIN outbox'
  PROVE  WorkersOK'
<1> DEFINE s == [worker[w] EXCEPT !.pc = pc]
<1>1. s \in WorkerState /\ s.event \in DOMAIN outbox
  BY DEF WorkersOK, WorkerState, At
<1>2. worker' = [worker EXCEPT ![w] = s]
  BY DEF Goto
<1>3. IsABag(broker') /\ BagToSet(broker') \subseteq DOMAIN outbox /\ faults' \in 0 .. MaxFaults
  BY DEF WorkersOK
<1> HIDE DEF s
<1> QED
  BY <1>1, <1>2, <1>3, WorkerMoved

LEMMA WorkerReleased ==
  ASSUME WorkersOK, NEW w \in Workers, Release(w),
         IsABag(broker'), BagToSet(broker') \subseteq DOMAIN outbox,
         DOMAIN outbox \subseteq DOMAIN outbox', faults' \in 0 .. MaxFaults
  PROVE  WorkersOK'
BY WorkerMoved DEF Release, IdleWorker, WorkerState

(* A fault more stays within the bound.                                    *)
LEMMA FaultType ==
  ASSUME WorkersOK, faults < MaxFaults
  PROVE  faults + 1 \in 0 .. MaxFaults
BY WorkerAssumption DEF WorkersOK

(* The steps of the broker and of a worker that leave the rows alone.      *)
LEMMA RowsUntouched ==
  ASSUME Inv, UNCHANGED runsVars, WorkersOK'
  PROVE  Inv'
BY DEF Inv, TypeOK, RowsOK, ClientsOK, OneActiveRun, Going, Latest, runsVars, Refers

LEMMA MessageInv ==
  ASSUME Inv, NEW e \in DOMAIN outbox
  PROVE  /\ Publish(e) => Inv'
         /\ Lose(e) => Inv'
         /\ \A w \in Workers : Receive(w, e) => Inv'
<1>1. WorkersOK /\ IsABag(broker) /\ BagToSet(broker) \subseteq DOMAIN outbox /\ e \in Nat
  BY LenProperties DEF Inv, TypeOK, WorkersOK, RowsOK
<1>2. /\ IsABag(broker (+) SetToBag({e})) /\ BagToSet(broker (+) SetToBag({e})) \subseteq DOMAIN outbox
      /\ IsABag(broker (-) SetToBag({e})) /\ BagToSet(broker (-) SetToBag({e})) \subseteq DOMAIN outbox
  BY <1>1, BagType
<1>3. ASSUME Publish(e) PROVE Inv'
  BY <1>1, <1>2, <1>3, RowsUntouched DEF Publish, WorkersOK, At, runsVars
<1>4. ASSUME Lose(e) PROVE Inv'
  BY <1>1, <1>2, <1>4, FaultType, RowsUntouched DEF Lose, WorkersOK, At, runsVars
<1>5. ASSUME NEW w \in Workers, Receive(w, e) PROVE Inv'
  <2>1. UNCHANGED runsVars /\ UNCHANGED outbox /\ faults' \in 0 .. MaxFaults
    BY <1>1, <1>5 DEF Receive, Take, TakeRefused, Skip, runsVars, WorkersOK
  <2>2. CASE Skip(w, e)
    BY <1>1, <1>2, <2>1, <2>2, RowsUntouched DEF Skip, WorkersOK, At
  <2>3. ASSUME NEW pc \in {"step", "done", "failing"},
               worker' = [worker EXCEPT ![w] = [pc |-> pc, event |-> e]],
               broker' = broker (-) SetToBag({e})
        PROVE  Inv'
    <3>1. [pc |-> pc, event |-> e] \in WorkerState
      BY <1>1, <2>3 DEF WorkerState
    <3>2. WorkersOK'
      BY <1>1, <1>2, <2>1, <2>3, <3>1, WorkerMoved
    <3> QED
      BY <2>1, <3>2, RowsUntouched
  <2>4. CASE Take(w, e)
    BY <2>3, <2>4 DEF Take
  <2>5. CASE TakeRefused(w, e)
    BY <2>3, <2>5 DEF TakeRefused
  <2> QED
    BY <1>5, <2>2, <2>4, <2>5 DEF Receive
<1> QED
  BY <1>3, <1>4, <1>5

(* The event a busy worker holds is one of a run there is; if that run is  *)
(* to execute, it is the latest.                                           *)
LEMMA HeldRun ==
  ASSUME Inv, NEW w \in Workers, ~At(w, "idle")
  PROVE  /\ worker[w].event \in DOMAIN outbox
         /\ EventOf(w) \in Event
         /\ EventOf(w).run \in DOMAIN runs
         /\ EventOf(w).run \in 1 .. Len(runs) + 1
         /\ runs[EventOf(w).run] \in Run
         /\ Executing(EventOf(w).run) =>
              /\ EventOf(w).run = Len(runs)
              /\ \A i \in DOMAIN runs : Going(i) => i = EventOf(w).run
<1>1. /\ runs \in Seq(Run) /\ outbox \in Seq(Event) /\ Refers(outbox, DOMAIN runs)
      /\ DOMAIN runs = 1 .. Len(runs) /\ Len(runs) \in Nat
  BY LenProperties DEF Inv, TypeOK, RowsOK
<1>2. worker[w].event \in DOMAIN outbox
  BY DEF Inv, TypeOK, WorkersOK
<1>3. EventOf(w) \in Event /\ EventOf(w).run \in DOMAIN runs
  BY <1>1, <1>2 DEF EventOf, Refers
<1>4. Executing(EventOf(w).run) => Going(EventOf(w).run)
  BY DEF Executing, Going, ActiveStatuses
<1> QED
  BY <1>1, <1>2, <1>3, <1>4 DEF Inv, OneActiveRun, Latest

LEMMA BegunType ==
  ASSUME NEW r \in Run
  PROVE  Begun(r) \in Run
BY MovedRunType DEF Begun, RunLifecycle

LEMMA StepNodeInv ==
  ASSUME Inv, NEW w \in Workers, StepNode(w)
  PROVE  Inv'
<1> DEFINE k == EventOf(w).run
<1>1. ~At(w, "idle") /\ Executing(k)
  BY DEF StepNode, At
<1>2. /\ k \in DOMAIN runs /\ k \in 1 .. Len(runs) + 1 /\ runs[k] \in Run
      /\ k = Len(runs) /\ \A i \in DOMAIN runs : Going(i) => i = k
  BY <1>1, HeldRun
<1>3. Begun(runs[k]) \in Run
  BY <1>2, BegunType
<1>4. /\ RowsOK /\ runs \in Seq(Run) /\ project \in Project
      /\ approvals \in Seq(Approval) /\ Refers(approvals, DOMAIN runs)
      /\ jobs \in Seq(Job) /\ Refers(jobs, DOMAIN runs)
      /\ outbox \in Seq(Event) /\ Refers(outbox, DOMAIN runs)
  BY DEF Inv, TypeOK, RowsOK
<1>5. /\ Advance(k, Begun(runs[k]), project, project, approvals, jobs, TRUE)
      /\ UNCHANGED <<outbox, access, req, broker, faults>>
      /\ Goto(w, "step") \/ Goto(w, "done")
  BY DEF StepNode
<1>6. DOMAIN runs \cup {k} = DOMAIN runs
  BY <1>2
<1> HIDE DEF k
<1>7. /\ project' \in Project /\ OnlyRun(k)
      /\ approvals' \in Seq(Approval) /\ Refers(approvals', DOMAIN runs \cup {k})
      /\ jobs' \in Seq(Job) /\ Refers(jobs', DOMAIN runs \cup {k}) /\ Len(jobs') = Len(jobs)
      /\ workspace' \in [applied : Proposals]
  BY <1>2, <1>3, <1>4, <1>5, <1>6, AdvanceType
<1>8. RowsOK' /\ DOMAIN runs' = DOMAIN runs
  BY <1>4, <1>5, <1>6, <1>7 DEF RowsOK, OnlyRun
<1>9. ClientsOK'
  <2>1. DOMAIN jobs' = DOMAIN jobs
    BY <1>4, <1>7, LenProperties
  <2> QED
    BY <1>5, <1>8, <2>1, ClientsKept DEF RequestsEnd, Inv, TypeOK
<1>10. WorkersOK'
  BY <1>1, <1>5, WorkerGoes DEF Inv, TypeOK
<1>11. OneActiveRun'
  BY <1>2, <1>4, <1>7, OneRunWritten
<1> QED
  BY <1>8, <1>9, <1>10, <1>11 DEF Inv, TypeOK

(* A worker that ends the run of its event, or the project with it.        *)
LEMMA RunEnded ==
  ASSUME Inv, NEW k \in DOMAIN runs, NEW status \in {"failed", "cancelled"},
         runs' = [runs EXCEPT ![k] = Moved(Begun(@), status)],
         project' \in Project,
         UNCHANGED <<approvals, jobs, workspace, outbox, access, req>>
  PROVE  RowsOK' /\ ClientsOK' /\ OneActiveRun'
<1> DEFINE row == Moved(Begun(runs[k]), status)
<1>1. runs \in Seq(Run) /\ runs[k] \in Run /\ status \in RunLifecycle
  BY DEF Inv, TypeOK, RowsOK, RunLifecycle
<1>2. row \in Run /\ row.status = status
  BY <1>1, BegunType, MovedRunType
<1>3. runs' = [runs EXCEPT ![k] = row]
  OBVIOUS
<1> HIDE DEF row
<1>4. /\ runs' \in Seq(Run) /\ DOMAIN runs' = DOMAIN runs /\ Len(runs') = Len(runs)
      /\ \A i \in DOMAIN runs : runs'[i] = IF i = k THEN row ELSE runs[i]
  BY <1>1, <1>2, <1>3, UpdateType, LenProperties
<1>5. RowsOK'
  BY <1>4 DEF RowsOK, Inv, TypeOK
<1>6. ClientsOK'
  BY <1>4, ClientsKept DEF RequestsEnd, Inv, TypeOK
<1>7. \A i \in DOMAIN runs : runs'[i].status \in ActiveStatuses => Going(i)
  BY <1>2, <1>4 DEF Going, ActiveStatuses
<1> QED
  BY <1>4, <1>5, <1>6, <1>7, NoneRevived DEF Inv

(* The event a worker leaves keeps its run.                                *)
LEMMA EventWritten ==
  ASSUME Inv, NEW e \in DOMAIN outbox, NEW row \in Event, row.run = outbox[e].run,
         outbox' = [outbox EXCEPT ![e] = row],
         UNCHANGED <<project, runs, approvals, jobs, workspace, access, req>>
  PROVE  RowsOK' /\ ClientsOK' /\ OneActiveRun' /\ DOMAIN outbox' = DOMAIN outbox
<1>1. outbox \in Seq(Event) /\ Refers(outbox, DOMAIN runs)
  BY DEF Inv, TypeOK, RowsOK
<1>2. outbox' \in Seq(Event) /\ Refers(outbox', DOMAIN runs)
  <2>1. row.run \in DOMAIN runs
    BY <1>1 DEF Refers
  <2> QED
    BY <1>1, <2>1, UpdateRow
<1> QED
  BY <1>2 DEF Inv, TypeOK, RowsOK, ClientsOK, OneActiveRun, Going, Latest

LEMMA StepOtherInv ==
  ASSUME Inv, NEW w \in Workers
  PROVE  /\ StepStopped(w) => Inv'
         /\ StepDeleted(w) => Inv'
         /\ \A http \in BOOLEAN : StepFails(w, http) => Inv'
         /\ FailRun(w) => Inv'
<1>1. WorkersOK
  BY DEF Inv, TypeOK
<1>2. ASSUME StepStopped(w) PROVE Inv'
  <2>1. WorkersOK'
    BY <1>1, <1>2, WorkerGoes DEF StepStopped, At, runsVars
  <2> QED
    BY <1>2, <2>1, RowsUntouched DEF StepStopped
<1>3. ASSUME NEW http \in BOOLEAN, StepFails(w, http) PROVE Inv'
  <2>1. WorkersOK'
    BY <1>1, <1>3, WorkerGoes DEF StepFails, At, runsVars
  <2> QED
    BY <1>3, <2>1, RowsUntouched DEF StepFails
<1>4. ASSUME StepDeleted(w) PROVE Inv'
  <2>1. ~At(w, "idle") /\ project \in Project
    BY <1>4 DEF StepDeleted, At, Inv, TypeOK, RowsOK
  <2>2. WorkersOK'
    BY <1>1, <1>4, <2>1, WorkerGoes DEF StepDeleted
  <2>3. EventOf(w).run \in DOMAIN runs
    BY <2>1, HeldRun
  <2>4. RowsOK' /\ ClientsOK' /\ OneActiveRun'
    BY <1>4, <2>1, <2>3, RunEnded DEF StepDeleted
  <2> QED
    BY <2>2, <2>4 DEF Inv, TypeOK
<1>5. ASSUME FailRun(w) PROVE Inv'
  <2>1. ~At(w, "idle") /\ project \in Project
    BY <1>5 DEF FailRun, At, Inv, TypeOK, RowsOK
  <2>2. WorkersOK'
    BY <1>1, <1>5, <2>1, WorkerGoes DEF FailRun
  <2>3. EventOf(w).run \in DOMAIN runs
    BY <2>1, HeldRun
  <2>4. CASE UNCHANGED <<runs, project>>
    <3>1. UNCHANGED runsVars
      BY <1>5, <2>4 DEF FailRun, runsVars
    <3> QED
      BY <2>2, <3>1, RowsUntouched
  <2>5. CASE /\ runs' = [runs EXCEPT ![EventOf(w).run] = Moved(Begun(@), "failed")]
             /\ project' = IF project.status = "in_progress" THEN Moved(project, "blocked")
                           ELSE project
    <3>1. project' \in Project
      BY <2>1, <2>5, MovedProjectType DEF ProjectLifecycle
    <3>2. RowsOK' /\ ClientsOK' /\ OneActiveRun'
      BY <1>5, <2>3, <2>5, <3>1, RunEnded DEF FailRun
    <3> QED
      BY <2>2, <3>2 DEF Inv, TypeOK
  <2> QED
    BY <1>5, <2>4, <2>5 DEF FailRun
<1> QED
  BY <1>2, <1>3, <1>4, <1>5

(* The steps that leave the event: retried, failed, processed, or lost     *)
(* with the worker.                                                        *)
LEMMA EventLeftInv ==
  ASSUME Inv, NEW w \in Workers
  PROVE  /\ StepRetried(w) => Inv'
         /\ CommitFailed(w) => Inv'
         /\ CommitDone(w) => Inv'
         /\ Crash(w) => Inv'
<1> DEFINE e == worker[w].event
<1>1. /\ WorkersOK /\ IsABag(broker) /\ BagToSet(broker) \subseteq DOMAIN outbox
      /\ faults \in 0 .. MaxFaults
  BY DEF Inv, TypeOK, WorkersOK
<1>2. ~At(w, "idle") => /\ e \in DOMAIN outbox /\ outbox[e] \in Event
                        /\ outbox[e].attempts + 1 \in Nat
  BY HeldRun DEF EventOf, Event
<1> HIDE DEF e
<1>3. ASSUME StepRetried(w) PROVE Inv'
  <2> DEFINE row == [outbox[e] EXCEPT !.attempts = outbox[e].attempts + 1, !.error = TRUE]
  <2>0. outbox[e] \in Event /\ outbox[e].attempts + 1 \in Nat
    BY <1>2, <1>3 DEF StepRetried, At
  <2>1. /\ e \in DOMAIN outbox
        /\ outbox' = [outbox EXCEPT ![e].attempts = @ + 1, ![e].error = TRUE]
        /\ UNCHANGED <<project, runs, approvals, jobs, workspace, access, req>>
    BY <1>2, <1>3 DEF StepRetried, At, e
  <2>2. row \in Event /\ row.run = outbox[e].run
    BY <2>0 DEF Event
  <2>3. outbox' = [outbox EXCEPT ![e] = row]
    BY <2>1
  <2> HIDE DEF row
  <2>4. RowsOK' /\ ClientsOK' /\ OneActiveRun' /\ DOMAIN outbox' = DOMAIN outbox
    BY <2>1, <2>2, <2>3, EventWritten
  <2>5. WorkersOK'
    BY <1>1, <1>3, <2>4, FaultType, WorkerReleased DEF StepRetried
  <2> QED
    BY <2>4, <2>5 DEF Inv, TypeOK
<1>4. ASSUME CommitFailed(w) PROVE Inv'
  <2> DEFINE row == [outbox[e] EXCEPT !.attempts = outbox[e].attempts + 1, !.error = TRUE, !.processed = TRUE]
  <2>0. outbox[e] \in Event /\ outbox[e].attempts + 1 \in Nat
    BY <1>2, <1>4 DEF CommitFailed, At
  <2>1. /\ e \in DOMAIN outbox
        /\ outbox' = [outbox EXCEPT ![e].attempts = @ + 1, ![e].error = TRUE, ![e].processed = TRUE]
        /\ UNCHANGED <<project, runs, approvals, jobs, workspace, access, req>>
    BY <1>2, <1>4 DEF CommitFailed, At, e
  <2>2. row \in Event /\ row.run = outbox[e].run
    BY <2>0 DEF Event
  <2>3. outbox' = [outbox EXCEPT ![e] = row]
    BY <2>1
  <2> HIDE DEF row
  <2>4. RowsOK' /\ ClientsOK' /\ OneActiveRun' /\ DOMAIN outbox' = DOMAIN outbox
    BY <2>1, <2>2, <2>3, EventWritten
  <2>5. WorkersOK'
    BY <1>1, <1>4, <2>4, WorkerReleased DEF CommitFailed
  <2> QED
    BY <2>4, <2>5 DEF Inv, TypeOK
<1>5. ASSUME CommitDone(w) PROVE Inv'
  <2> DEFINE row == [outbox[e] EXCEPT !.error = FALSE, !.processed = TRUE]
  <2>0. outbox[e] \in Event /\ outbox[e].attempts + 1 \in Nat
    BY <1>2, <1>5 DEF CommitDone, At
  <2>1. /\ e \in DOMAIN outbox
        /\ outbox' = [outbox EXCEPT ![e].error = FALSE, ![e].processed = TRUE]
        /\ UNCHANGED <<project, runs, approvals, jobs, workspace, access, req>>
    BY <1>2, <1>5 DEF CommitDone, At, e
  <2>2. row \in Event /\ row.run = outbox[e].run
    BY <2>0 DEF Event
  <2>3. outbox' = [outbox EXCEPT ![e] = row]
    BY <2>1
  <2> HIDE DEF row
  <2>4. RowsOK' /\ ClientsOK' /\ OneActiveRun' /\ DOMAIN outbox' = DOMAIN outbox
    BY <2>1, <2>2, <2>3, EventWritten
  <2>5. WorkersOK'
    BY <1>1, <1>5, <2>4, WorkerReleased DEF CommitDone
  <2> QED
    BY <2>4, <2>5 DEF Inv, TypeOK
<1>6. ASSUME Crash(w) PROVE Inv'
  <2>1. e \in DOMAIN outbox /\ broker' = broker (+) SetToBag({e})
    BY <1>2, <1>6 DEF Crash, e
  <2>2. IsABag(broker') /\ BagToSet(broker') \subseteq DOMAIN outbox
    BY <1>1, <2>1, BagType
  <2>3. WorkersOK'
    BY <1>1, <1>6, <2>2, FaultType, WorkerReleased DEF Crash, runsVars
  <2> QED
    BY <1>6, <2>3, RowsUntouched DEF Crash
<1> QED
  BY <1>3, <1>4, <1>5, <1>6

-----------------------------------------------------------------------------
(* The theorems *)

LEMMA InitInv == Init => Inv
<1> SUFFICES ASSUME Init PROVE Inv
  OBVIOUS
<1>1. RowsOK
  <2>1. project \in Project
    <3>1. Migrations \subseteq BOOLEAN
      BY RunsAssumption
    <3>2. project \in [status : {"draft"}, version : {1}, deleted : {FALSE}, migration : Migrations]
      BY DEF Init, RunsInit
    <3>3. /\ project = [status |-> project.status, version |-> project.version,
                         deleted |-> project.deleted, migration |-> project.migration]
          /\ project.status = "draft" /\ project.version = 1 /\ project.deleted = FALSE
          /\ project.migration \in Migrations
      BY <3>2
    <3>4. project.status \in ProjectLifecycle
      BY <3>3 DEF ProjectLifecycle
    <3>5. project.migration \in BOOLEAN /\ project.deleted \in BOOLEAN
      BY <3>1, <3>3
    <3>6. project.version \in Nat
      BY <3>3
    <3>7. project = [status |-> project.status, version |-> project.version,
                     deleted |-> project.deleted, migration |-> project.migration]
      BY <3>3
    <3> QED
      BY <3>4, <3>5, <3>6, <3>7 DEF Project
  <2>2. /\ runs = <<>> /\ approvals = <<>> /\ jobs = <<>> /\ outbox = <<>>
        /\ workspace \in [applied : Proposals]
    BY DEF Init, RunsInit, Proposals
  <2>3. \A S : <<>> \in Seq(S)
    OBVIOUS
  <2>4. \A ks : Refers(<<>>, ks)
    BY DEF Refers
  <2>5. /\ runs \in Seq(Run) /\ approvals \in Seq(Approval) /\ jobs \in Seq(Job)
        /\ outbox \in Seq(Event)
    BY <2>2, <2>3
  <2>6. /\ Refers(approvals, DOMAIN runs) /\ Refers(jobs, DOMAIN runs)
        /\ Refers(outbox, DOMAIN runs)
    BY <2>2, <2>4
  <2> QED
    BY <2>1, <2>2, <2>5, <2>6 DEF RowsOK
<1>2. ClientsOK
  BY DEF Init, RunsInit, ClientsOK, Request, Idle
<1>3. WorkersOK
  BY WorkerAssumption
     DEF Init, WorkersOK, EmptyBag, SetToBag, IsABag, BagToSet, WorkerState, IdleWorker, At
<1>4. OneActiveRun
  BY DEF Init, RunsInit, OneActiveRun
<1> QED
  BY <1>1, <1>2, <1>3, <1>4 DEF Inv, TypeOK

LEMMA NextInv == Inv /\ [Next]_vars => Inv'
<1> SUFFICES ASSUME Inv, [Next]_vars PROVE Inv'
  OBVIOUS
<1>1. CASE UNCHANGED vars
  BY <1>1, RowsUntouched DEF vars, runsVars, Inv, TypeOK, WorkersOK, At
<1>2. CASE RunsNext /\ UNCHANGED workerVars
  BY <1>2, ApiInv
<1>3. CASE WorkerNext
  BY <1>3, MessageInv, StepNodeInv, StepOtherInv, EventLeftInv DEF WorkerNext, WorkerStep
<1> QED
  BY <1>1, <1>2, <1>3 DEF Next

(* A transaction that advances a run, or leaves an event for it, writes no *)
(* approval but the one it opens.                                          *)
LEMMA DispatchKeeps ==
  ASSUME NEW k, NEW r, NEW loaded, NEW p, NEW apps \in Seq(Approval), NEW jbs
  PROVE  /\ \A oneNode \in BOOLEAN : Advance(k, r, loaded, p, apps, jbs, oneNode) =>
              \A a \in DOMAIN apps : approvals'[a] = apps[a]
         /\ Dispatch(k, r, loaded, p, apps, jbs) => \A a \in DOMAIN apps : approvals'[a] = apps[a]
<1>1. \A row : \A a \in DOMAIN apps : Append(apps, row)[a] = apps[a]
  <2>1. DOMAIN apps = 1 .. Len(apps)
    BY LenProperties
  <2> QED
    BY <2>1, AppendProperties
<1>2. ASSUME NEW oneNode \in BOOLEAN, Advance(k, r, loaded, p, apps, jbs, oneNode)
      PROVE  \A a \in DOMAIN apps : approvals'[a] = apps[a]
  <2>1. PICK last \in StartIndex(r.state) .. CloseProject, ready \in BOOLEAN,
             result \in {"completed", "partial_failed"} :
          Segment(k, r, loaded, p, apps, jbs, oneNode, last, ready, result)
    BY <1>2 DEF Advance
  <2>2. approvals' = apps \/ \E row : approvals' = Append(apps, row)
    BY <2>1 DEF Segment
  <2> QED
    BY <1>1, <2>2
<1> QED
  BY <1>2 DEF Dispatch

(* The decisions a step leaves as they are. *)
Kept == \A a \in DOMAIN approvals : approvals[a].status # "pending" => approvals'[a] = approvals[a]

LEMMA NextKeeps ==
  ASSUME Inv, [Next]_vars
  PROVE  Kept
<1>1. approvals \in Seq(Approval) /\ DOMAIN approvals = 1 .. Len(approvals)
  BY LenProperties DEF Inv, TypeOK, RowsOK
<1>2. CASE UNCHANGED approvals
  BY <1>2 DEF Kept
<1>3. ASSUME NEW c \in Clients, CommitStart(c) \/ CommitRetry(c) PROVE Kept
  <2>1. \E k, r, loaded, p, jbs : Dispatch(k, r, loaded, p, approvals, jbs)
    BY <1>3 DEF CommitStart, CommitRetry
  <2>2. \A a \in DOMAIN approvals : approvals'[a] = approvals[a]
    BY <1>1, <2>1, DispatchKeeps
  <2> QED
    BY <2>2 DEF Kept
<1>4. ASSUME NEW c \in Clients, CommitCancel(c) PROVE Kept
  BY <1>4 DEF CommitCancel, Closed, Open, Kept
<1>5. ASSUME NEW u \in Users, NEW a \in DOMAIN approvals, Approve(u, a) \/ Reject(u, a)
      PROVE  Kept
  <2>1. approvals[a].status = "pending"
    BY <1>5 DEF Approve, Reject, Decidable
  <2>2. Decided(a, u, "approved") \in Seq(Approval)
    BY DecidedType DEF Inv, TypeOK
  <2>3. \A b \in DOMAIN approvals : b # a =>
          /\ Decided(a, u, "approved")[b] = approvals[b]
          /\ Decided(a, u, "rejected")[b] = approvals[b]
    BY <1>1 DEF Decided
  <2>4. DOMAIN Decided(a, u, "approved") = DOMAIN approvals
    BY <1>1 DEF Decided
  <2>5. CASE Approve(u, a)
    <3>1. \A b \in DOMAIN approvals : approvals'[b] = Decided(a, u, "approved")[b]
      BY <2>2, <2>4, <2>5, DispatchKeeps DEF Approve
    <3> QED
      BY <2>1, <2>3, <3>1 DEF Kept
  <2>6. CASE Reject(u, a)
    BY <2>1, <2>3, <2>6 DEF Reject, Kept
  <2> QED
    BY <1>5, <2>5, <2>6
<1>6. ASSUME NEW u \in Users, NEW k \in DOMAIN runs, NEW proposal \in Revisions,
             ReviseConfiguration(u, k, proposal)
      PROVE  Kept
  <2> DEFINE old == runs[k].state.pending
             row == [approvals[old] EXCEPT !.status = "cancelled",
                                           !.version = approvals[old].version + 1]
             closed == [approvals EXCEPT ![old] = row]
  <2>1. /\ old \in DOMAIN approvals /\ approvals[old].status = "pending"
        /\ \E new : approvals' = Append(closed, new)
    BY <1>6 DEF ReviseConfiguration
  <2>2. closed \in Seq(Approval) /\ DOMAIN closed = DOMAIN approvals
    <3>1. row \in Approval
      <4> HIDE DEF old, closed
      <4>1. approvals[old] \in Approval
        BY <1>1, <2>1
      <4>2. approvals[old].version + 1 \in Nat
        BY <4>1 DEF Approval
      <4> QED
        BY <4>1, <4>2 DEF Approval
    <3> HIDE DEF row, old
    <3> QED
      BY <1>1, <2>1, <3>1, UpdateType
  <2>3. \A b \in DOMAIN approvals : b # old => closed[b] = approvals[b]
    BY <1>1
  <2> HIDE DEF closed, old
  <2>4. \A b \in DOMAIN approvals : approvals'[b] = closed[b]
    <3>1. DOMAIN closed = 1 .. Len(closed)
      BY <2>2, LenProperties
    <3> QED
      BY <2>1, <2>2, <3>1, AppendProperties
  <2> QED
    BY <2>1, <2>3, <2>4 DEF Kept
<1>7. ASSUME NEW u \in Users, NEW k \in DOMAIN runs, NEW valid \in BOOLEAN,
             ValidateImport(u, k, valid)
      PROVE  Kept
  BY <1>1, <1>2, <1>7, DispatchKeeps DEF ValidateImport, Kept
<1>8. ASSUME NEW w \in Workers, StepNode(w) PROVE Kept
  BY <1>1, <1>8, DispatchKeeps DEF StepNode, Kept
<1>9. CASE RunsNext
  <2>1. ASSUME NEW c \in Clients, NEW u \in Users PROVE BeginStart(c, u) => UNCHANGED approvals
    BY DEF BeginStart, dbVars
  <2>2. ASSUME NEW c \in Clients, NEW u \in Users, NEW k PROVE BeginCancel(c, u, k) => UNCHANGED approvals
    BY DEF BeginCancel, dbVars
  <2>3. ASSUME NEW c \in Clients, NEW u \in Users, NEW j PROVE BeginRetry(c, u, j) => UNCHANGED approvals
    BY DEF BeginRetry, dbVars
  <2>4. ASSUME NEW u \in Users, NEW j, NEW a, NEW result PROVE ExecuteJob(u, j, a, result) => UNCHANGED approvals
    BY DEF ExecuteJob
  <2>5. ASSUME NEW u \in Users, NEW m
        PROVE  /\ ReviseMaterials(u, m) => UNCHANGED approvals
               /\ DeleteProject(u) => UNCHANGED approvals
               /\ RestoreProject(u) => UNCHANGED approvals
               /\ ChangeAccess(u, m) => UNCHANGED approvals
    BY DEF ReviseMaterials, DeleteProject, RestoreProject, ChangeAccess, dbVars
  <2>6. ASSUME NEW c \in Clients PROVE Abandon(c) => UNCHANGED approvals
    BY DEF Abandon, dbVars
  <2> QED
    BY <1>2, <1>3, <1>4, <1>5, <1>6, <1>7, <1>9, <2>1, <2>2, <2>3, <2>4, <2>5, <2>6 DEF RunsNext
<1>10. CASE WorkerNext
  <2>1. ASSUME NEW w, NEW e
        PROVE  /\ Publish(e) \/ Lose(e) => UNCHANGED approvals
               /\ Receive(w, e) => UNCHANGED approvals
    BY DEF Publish, Lose, Receive, Take, TakeRefused, Skip, runsVars
  <2>2. ASSUME NEW w \in Workers, NEW http \in BOOLEAN
        PROVE  /\ StepStopped(w) \/ StepDeleted(w) => UNCHANGED approvals
               /\ StepRetried(w) \/ StepFails(w, http) => UNCHANGED approvals
               /\ FailRun(w) \/ CommitFailed(w) \/ CommitDone(w) \/ Crash(w) => UNCHANGED approvals
    BY DEF StepStopped, StepDeleted, StepRetried, StepFails, FailRun, CommitFailed, CommitDone,
           Crash, runsVars
  <2> QED
    BY <1>2, <1>8, <1>10, <2>1, <2>2 DEF WorkerNext, WorkerStep
<1> QED
  BY <1>2, <1>9, <1>10 DEF Next, vars

(* Type correctness for any number of users, clients, workers, runs, jobs  *)
(* and faults and in either mode of execution: the rows have their types,  *)
(* no row, request, message or busy worker points at a row there is not.   *)
THEOREM TypeCorrect == Spec => []TypeOK
<1>1. Inv => TypeOK
  BY DEF Inv
<1> QED
  BY <1>1, InitInv, NextInv, PTL DEF Spec

(* However starts, retries, decisions, uploads, cancellations and workers  *)
(* interleave, a project never has two runs under way (start_run and       *)
(* retry_failed_rows under the lock of the project; decide, upload and     *)
(* worker resume only a run that still is the one going on).               *)
THEOREM OneRunAtATime == Spec => []OneActiveRun
<1>1. Inv => OneActiveRun
  BY DEF Inv
<1> QED
  BY <1>1, InitInv, NextInv, PTL DEF Spec

(* A decision once taken stands: no cancellation, revision, resumption or  *)
(* redelivery rewrites an approval that is no longer pending.              *)
THEOREM DecisionsAreFinal == Spec => DecisionsStand
<1>1. Inv /\ [Next]_vars => [Kept]_approvals
  BY NextKeeps
<1> QED
  BY <1>1, InitInv, NextInv, PTL DEF Spec, DecisionsStand, Kept
=============================================================================
