-------------------------------- MODULE Runs --------------------------------
(***************************************************************************)
(* One implementation project of the platform and its Agent runs: the rows *)
(* the API transactions of backend/main.py and backend/delivery_routes.py  *)
(* read and write, with the workflow advanced in the same transaction      *)
(* ("inline" execution) or handed to a worker through the outbox           *)
(* ("worker" execution).                                                   *)
(*                                                                         *)
(* A handler that reads rows before it locks any is two actions: Begin     *)
(* takes the snapshot the session keeps in its identity map, Commit is the *)
(* rest of the transaction.  Locking a row again does not refresh what the *)
(* session holds of it, so Commit acts on the snapshot wherever the code   *)
(* does not reload.  A handler that locks first is one action.             *)
(***************************************************************************)
EXTENDS Workflow

CONSTANTS
  Users,              \* the people who act on the project
  NoUser,             \* nobody: the decision of an open approval
  PersonalOwner,      \* the owner of a personal space, NoUser in a company
  Partners,           \* those who act on it as members of a collaborating company
  Clients,            \* API requests that may be under way at once
  AccessLevels,       \* the levels of access people may have, see access
  Migrations,         \* whether the documents of the project may ask for a migration
  Deletions,          \* whether the project may be deleted
  ExecutionMode,      \* "inline" or "worker" (settings.execution_mode)
  MaxRuns,            \* bound: runs of the project
  MaxJobs,            \* bound: import jobs of the project
  MaxApprovals,       \* bound: approvals open when a proposal is revised
  MaxProjectVersion,  \* bound: version of the project when materials are revised
  MaxRaced            \* bound: runs there are when a second request begins

ASSUME RunsAssumption ==
  /\ Users # {} /\ NoUser \notin Users /\ PersonalOwner \in Users \cup {NoUser}
  /\ Partners \subseteq Users \ {PersonalOwner}
  /\ {"full"} \subseteq AccessLevels /\ AccessLevels \subseteq {"full", "no_start", "none"}
  /\ ExecutionMode \in {"inline", "worker"}
  /\ MaxRuns \in Nat /\ MaxJobs \in Nat /\ MaxApprovals \in Nat
  /\ Migrations \subseteq BOOLEAN /\ Deletions \subseteq BOOLEAN
  /\ MaxProjectVersion \in Nat /\ MaxRaced \in Nat

VARIABLES
  project,     \* the project row, with whether its documents ask for a migration
  runs,        \* its AgentRun rows by run_number; steps are the run's AgentStep rows
  approvals,   \* Approval rows in the order of creation
  jobs,        \* ImportJob rows in the order of creation
  workspace,   \* the proposal last applied to the SaaS workspace
  outbox,      \* WorkflowOutbox rows in the order of creation
  access,      \* user -> "full", "no_start" (lacks run.start), "none" (no membership)
  req          \* client -> the request it has begun

dbVars == <<project, runs, approvals, jobs, workspace, outbox>>
runsVars == <<project, runs, approvals, jobs, workspace, outbox, access, req>>

-----------------------------------------------------------------------------
(* Rows *)

RunState == [node : Nodes, completed : SUBSET Nodes, config : Proposals,
             base : Proposals, job : Nat, pending : Nat]
Run == [status : RunLifecycle, version : Nat, node : Nodes, startedBy : Users,
        retryOf : Nat, steps : Seq(Nodes), state : RunState]
LoadedRun == [status : RunLifecycle, version : Nat, state : RunState]
Project == [status : ProjectLifecycle, version : Nat, deleted : BOOLEAN, migration : BOOLEAN]
MaterialRecord == [config : Proposals, base : Proposals, job : Nat]
Approval == [run : Nat, kind : APPROVAL_NODES,
             status : {"pending", "approved", "rejected", "cancelled"}, version : Nat,
             requestedBy : Users, decidedBy : Users \cup {NoUser}, material : MaterialRecord]
(* under: the proposal in the workspace when the job was last executed. *)
Job == [run : Nat, valid : BOOLEAN, result : {"none", "completed", "partial_failed"},
        under : Proposals]
Event == [run : Nat, version : Nat, actor : Users, processed : BOOLEAN,
          attempts : Nat, error : BOOLEAN]

NewRun(u, retryOf, job) ==
  [status |-> "pending", version |-> 1, node |-> 1, startedBy |-> u,
   retryOf |-> retryOf, steps |-> <<>>, state |-> InitialState(job)]

(* What a client has begun, with the rows its session has loaded. *)
Idle == [op |-> "idle"]
Request == [op : {"idle"}]
           \cup [op : {"start"}, user : Users, loaded : Project]
           \cup [op : {"cancel"}, user : Users, target : Nat, loaded : Project,
                 loadedRun : LoadedRun]
           \cup [op : {"retry"}, user : Users, target : Nat,
                 result : {"none", "completed", "partial_failed"}]

Latest == Len(runs)
Going(k) == runs[k].status \in ActiveStatuses
Open(k) == {a \in DOMAIN approvals : approvals[a].run = k /\ approvals[a].status = "pending"}
CanAct(u) == access[u] # "none" /\ ~project.deleted

-----------------------------------------------------------------------------
(* Writing back.  The session updates the columns it changed: a project    *)
(* row whose status the handler left alone keeps what the database holds.  *)

WriteProject(loaded, p) ==
  project' = IF p = loaded THEN project
             ELSE [project EXCEPT !.status = p.status, !.version = p.version]

WriteRun(k, r) ==
  runs' = IF k > Len(runs) THEN Append(runs, r) ELSE [runs EXCEPT ![k] = r]

OpenApproval(k, kind, u, s) ==
  [run |-> k, kind |-> kind, status |-> "pending", version |-> 1,
   requestedBy |-> u, decidedBy |-> NoUser, material |-> Material(kind, s)]

(* The latest approval granted to run k for a kind. *)
Granted(k, kind, apps) ==
  {a \in DOMAIN apps : apps[a].run = k /\ apps[a].kind = kind /\ apps[a].status = "approved"}

(* require_receipt: the latest grant is for exactly the current material. *)
Receipt(k, kind, s, apps) ==
  \E a \in Granted(k, kind, apps) :
    /\ \A b \in Granted(k, kind, apps) : b <= a
    /\ apps[a].material = Material(kind, s)

-----------------------------------------------------------------------------
(* advance: the nodes of a segment, up to the one the transaction stops at *)

NeedsMaterials(s, jbs) ==
  project.migration /\ ~(s.job # 0 /\ jbs[s.job].valid)

(* What the tool of a node demands before it acts; without it, it raises.  *)
MayRun(k, n, r, p, apps) ==
  /\ n = ApplyConfiguration =>
       /\ Receipt(k, ConfigurationApproval, r.state, apps)
       /\ workspace.applied \in {r.state.base, r.state.config}
  /\ n = ExecuteImport /\ r.state.job # 0 => Receipt(k, ImportApproval, r.state, apps)
  /\ n = CloseProject =>
       /\ Receipt(k, AcceptanceApproval, r.state, apps)
       /\ CanMoveProject(p, "completed")

ReadyBeforeImport(k, s, apps, jbs, applied) ==
  /\ Granted(k, PlanApproval, apps) # {}
  /\ applied = s.config
  /\ GenerateTraining \in s.completed

(* The go-live checks that follow from the rows modelled here.             *)
CanBeReady(k, s, apps, jbs, applied) ==
  /\ Granted(k, PlanApproval, apps) # {}
  /\ applied = s.config
  /\ project.migration => s.job # 0 /\ jbs[s.job].result = "completed"
  /\ GenerateTraining \in s.completed

AppliedEarly(segment, s) ==
  IF GenerateChanges \in segment THEN "standard"
  ELSE IF ApplyConfiguration \in segment THEN s.config ELSE workspace.applied

(* The proposal in the workspace after a segment. *)
Applied(segment, s) ==
  IF ApplyConfiguration \in segment THEN s.config ELSE workspace.applied

(* Each execution of a job writes its outcome anew.  Under the proposal it *)
(* was last executed under it comes to the same: members are only added,   *)
(* so a row that is in the workspace stays there, and one that failed for  *)
(* its department or for another member fails again.                       *)
Executed(job, applied, result) ==
  IF job.result # "none" /\ job.under = applied THEN job
  ELSE [job EXCEPT !.result = result, !.under = applied]

(* The run as it leaves the segment that ends at node last, with the nodes *)
(* up to recorded in its steps and those up to done completed.             *)
Ran(r, last, recorded, done, status, pending) ==
  LET first == StartIndex(r.state)
  IN  [Moved(r, status) EXCEPT
         !.node  = last,
         !.steps = @ \o [i \in 1 .. (recorded + 1 - first) |-> first + i - 1],
         !.state = [StateThrough(r.state, last, done, workspace.applied)
                      EXCEPT !.pending = pending]]

(* The segment that ends at node last.  r, p, apps and jbs are the rows as *)
(* the transaction has changed them so far, loaded the project as it       *)
(* loaded it; ready is the outcome of the go-live checks and result that   *)
(* of an import.                                                           *)
Segment(k, r, loaded, p, apps, jbs, oneNode, last, ready, result) ==
  LET first   == StartIndex(r.state)
      segment == first .. last
      after   == StateThrough(r.state, last, last, workspace.applied)
      imports == ExecuteImport \in segment /\ r.state.job # 0
      applied == Applied(segment, r.state)
      jbs2    == IF imports
                 THEN [jbs EXCEPT ![r.state.job] = Executed(@, applied, result)] ELSE jbs
      waits   == last = ValidateImportFiles /\ NeedsMaterials(r.state, jbs)
      closes  == last = CloseProject
      gate    == last \in APPROVAL_NODES
      halts   == last = RunGoLiveChecks /\ ~ready
  IN
  /\ r.status = "running"
  /\ \A n \in first .. last - 1 :
       /\ ~oneNode
       /\ n \notin APPROVAL_NODES
       /\ n = ValidateImportFiles => ~NeedsMaterials(r.state, jbs)
       /\ n = RunGoLiveChecks => ready
  /\ \A n \in segment : MayRun(k, n, r, p, apps)
  /\ (RunGoLiveChecks \in segment /\ ready) =>
       CanBeReady(k, after, apps, jbs2, applied)
  /\ jobs' = jbs2
  /\ workspace' = [applied |-> applied]
  /\ \/ /\ gate
        /\ approvals' = Append(apps, OpenApproval(k, last, r.startedBy, after))
        /\ WriteRun(k, Ran(r, last, last, last, "waiting_approval", Len(apps) + 1))
        /\ WriteProject(loaded, p)
     \/ /\ waits
        /\ approvals' = apps
        /\ WriteRun(k, Ran(r, last, last - 1, last - 1, "preparing_materials", r.state.pending))
        /\ WriteProject(loaded, p)
     \/ /\ halts
        /\ CanMoveProject(p, "blocked")
        /\ approvals' = apps
        /\ WriteRun(k, Ran(r, last, last, last - 1, "failed", r.state.pending))
        /\ WriteProject(loaded, Moved(p, "blocked"))
     \/ /\ closes
        /\ approvals' = apps
        /\ WriteRun(k, Ran(r, last, last, last, "succeeded", r.state.pending))
        /\ WriteProject(loaded, Moved(p, "completed"))
     \/ /\ oneNode
        /\ ~gate /\ ~waits /\ ~halts /\ ~closes
        /\ approvals' = apps
        /\ WriteRun(k, Ran(r, last, last, last, "running", r.state.pending))
        /\ WriteProject(loaded, p)

Advance(k, r, loaded, p, apps, jbs, oneNode) ==
  \E last \in StartIndex(r.state) .. CloseProject, ready \in BOOLEAN,
     result \in {"completed", "partial_failed"} :
    Segment(k, r, loaded, p, apps, jbs, oneNode, last, ready, result)

(* dispatch: advance now, or leave an event, once per version of the run.  *)
HasEventOfRun(k, version) == \E e \in DOMAIN outbox : outbox[e].run = k

HasEvent(k, version) ==
  \E e \in DOMAIN outbox : outbox[e].run = k /\ outbox[e].version = version

NewEventOfNobody(k, r) ==
  [run |-> k, version |-> r.version, actor |-> NoUser, processed |-> FALSE,
   attempts |-> 0, error |-> FALSE]

NewEvent(k, r) ==
  [run |-> k, version |-> r.version, actor |-> r.startedBy, processed |-> FALSE,
   attempts |-> 0, error |-> FALSE]

Dispatch(k, r, loaded, p, apps, jbs) ==
  \/ /\ ExecutionMode = "inline"
     /\ Advance(k, r, loaded, p, apps, jbs, FALSE)
     /\ UNCHANGED outbox
  \/ /\ ExecutionMode = "worker"
     /\ outbox' = IF HasEvent(k, r.version) THEN outbox ELSE Append(outbox, NewEvent(k, r))
     /\ WriteRun(k, r)
     /\ WriteProject(loaded, p)
     /\ approvals' = apps
     /\ jobs' = jbs
     /\ UNCHANGED workspace

(* A new run is "pending" for a worker and "running" at once inline.       *)
Launched(r) == IF ExecutionMode = "inline" THEN Moved(r, "running") ELSE r

-----------------------------------------------------------------------------
(* start_run *)

MayBegin(c) ==
  /\ req[c].op = "idle"
  /\ Latest <= MaxRaced \/ \A d \in Clients : req[d].op = "idle"

BeginStart(c, u) ==
  /\ MayBegin(c)
  /\ CanAct(u)
  /\ project.status = "blocked" \/ access[u] = "full"   \* run.retry or run.start
  /\ req' = [req EXCEPT ![c] = [op |-> "start", user |-> u, loaded |-> project]]
  /\ UNCHANGED <<dbVars, access>>

MayStartAnyway(p) == p.status \notin {"completed", "cancelled", "archived"}

MayStart(p) ==
  /\ p.status \notin {"completed", "cancelled", "archived"}
  /\ Latest > 0 => ~Going(Latest)

(* The row lock selects the project's id alone; the project checked and    *)
(* moved is the one loaded before the lock.  The latest run is read anew.  *)
CommitStart(c) ==
  LET p == req[c].loaded IN
  /\ req[c].op = "start"
  /\ Latest < MaxRuns
  /\ MayStart(p)
  /\ CanMoveProject(p, "in_progress")
  /\ LET retryOf == IF Latest > 0 /\ runs[Latest].status \in {"failed", "cancelled"}
                     THEN Latest ELSE 0
     IN  Dispatch(Latest + 1, Launched(NewRun(req[c].user, retryOf, 0)),
                  p, Moved(p, "in_progress"), approvals, jobs)
  /\ req' = [req EXCEPT ![c] = Idle]
  /\ UNCHANGED access

-----------------------------------------------------------------------------
(* cancel_run *)

BeginCancel(c, u, k) ==
  /\ MayBegin(c)
  /\ CanAct(u)
  /\ req' = [req EXCEPT ![c] =
       [op |-> "cancel", user |-> u, target |-> k, loaded |-> project,
        loadedRun |-> [status |-> runs[k].status, version |-> runs[k].version,
                       state |-> runs[k].state]]]
  /\ UNCHANGED <<dbVars, access>>

NothingClosed(k, u) == approvals
AllClosed(k, u) ==
  [a \in DOMAIN approvals |->
     IF approvals[a].run = k THEN [approvals[a] EXCEPT !.status = "cancelled"] ELSE approvals[a]]

(* The approval the run waits for, if any, goes with the run. *)
Closed(k, u) ==
  [a \in DOMAIN approvals |->
     IF a \in Open(k)
     THEN [approvals[a] EXCEPT !.status = "cancelled", !.version = @ + 1, !.decidedBy = u]
     ELSE approvals[a]]

(* The locked row is the run already in the session, with the attributes   *)
(* it had when it was loaded; the pending approval is read under the lock. *)
CommitCancel(c) ==
  LET k == req[c].target
      r == req[c].loadedRun
      p == req[c].loaded
  IN
  /\ req[c].op = "cancel"
  /\ r.status \in ActiveStatuses
  /\ approvals' = Closed(k, req[c].user)
  /\ runs' = [runs EXCEPT ![k].status = "cancelled", ![k].version = r.version + 1,
                          ![k].state = [r.state EXCEPT !.pending = 0]]
  /\ WriteProject(p, IF p.status = "in_progress" THEN Moved(p, "blocked") ELSE p)
  /\ req' = [req EXCEPT ![c] = Idle]
  /\ UNCHANGED <<jobs, workspace, outbox, access>>

-----------------------------------------------------------------------------
(* decide: the approval is locked, then the rest is read.  A request with  *)
(* another version than the row's is refused and has no effect.            *)

Personal(u) == u = PersonalOwner

MayDecideOthers(u, a) ==
  Personal(u) \/ runs[approvals[a].run].startedBy # u

(* Separation of duties: neither who started the run nor who asked for the *)
(* approval decides it, except the owner of a personal space.              *)
MayDecide(u, a) ==
  \/ Personal(u)
  \/ runs[approvals[a].run].startedBy # u /\ approvals[a].requestedBy # u

Decided(a, u, decision) ==
  [approvals EXCEPT ![a].status = decision, ![a].version = @ + 1, ![a].decidedBy = u]

Decidable(u, a) ==
  /\ CanAct(u)
  /\ approvals[a].status = "pending"
  /\ MayDecide(u, a)
  /\ runs[approvals[a].run].status = "waiting_approval"

Approve(u, a) ==
  LET k == approvals[a].run
      r == runs[k]
  IN
  /\ Decidable(u, a)
  /\ approvals[a].material = Material(approvals[a].kind, r.state)
  /\ Dispatch(k, [Moved(r, "running") EXCEPT !.state.pending = 0], project, project,
              Decided(a, u, "approved"), jobs)
  /\ UNCHANGED <<access, req>>

Reject(u, a) ==
  LET k == approvals[a].run
      r == runs[k]
  IN
  /\ Decidable(u, a)
  /\ CanMoveProject(project, "blocked")
  /\ approvals' = Decided(a, u, "rejected")
  /\ WriteRun(k, [Moved(r, "failed") EXCEPT !.state.pending = 0])
  /\ WriteProject(project, Moved(project, "blocked"))
  /\ UNCHANGED <<jobs, workspace, outbox, access, req>>

-----------------------------------------------------------------------------
(* revise_configuration: a consultant replaces the proposal under approval *)

ReviseConfiguration(u, k, proposal) ==
  LET old == runs[k].state.pending
      s   == [runs[k].state EXCEPT !.config = proposal, !.base = workspace.applied,
                                   !.pending = Len(approvals) + 1]
  IN
  /\ CanAct(u)
  /\ Len(approvals) < MaxApprovals
  /\ runs[k].status = "waiting_approval"
  /\ runs[k].node = ConfigurationApproval
  /\ old \in DOMAIN approvals /\ approvals[old].status = "pending"
  /\ approvals' = Append([approvals EXCEPT ![old].status = "cancelled", ![old].version = @ + 1],
                         OpenApproval(k, ConfigurationApproval, u, s))
  /\ runs' = [runs EXCEPT ![k].state = s, ![k].version = @ + 1]
  /\ UNCHANGED <<project, jobs, workspace, outbox, access, req>>

-----------------------------------------------------------------------------
(* validate_import, execute_import and retry_failed_rows                   *)

UploadedJob(k, valid) == [run |-> k, valid |-> valid, result |-> "none", under |-> "none"]

ValidateImport(u, k, valid) ==
  LET jbs == Append(jobs, UploadedJob(k, valid)) IN
  /\ CanAct(u)
  /\ Len(jobs) < MaxJobs
  /\ runs[k].status = "preparing_materials"
  /\ \/ /\ valid
        /\ Dispatch(k, [Moved(runs[k], "running") EXCEPT !.state.job = Len(jbs)],
                    project, project, approvals, jbs)
     \/ /\ ~valid
        /\ jobs' = jbs
        /\ UNCHANGED <<project, runs, approvals, workspace, outbox>>
  /\ UNCHANGED <<access, req>>

AnyGrantFits(a, k) == approvals[a].run = k /\ approvals[a].status = "approved"

(* The approval is named by the request; it must be an import approval of  *)
(* the run, granted for the job the run has now.                           *)
GrantFits(a, k) ==
  /\ a \in Granted(k, ImportApproval, approvals)
  /\ approvals[a].material = Material(ImportApproval, runs[k].state)

ExecuteJob(u, j, a, result) ==
  LET r == runs[jobs[j].run] IN
  /\ CanAct(u)
  /\ r.status \notin {"failed", "cancelled"}
  /\ r.state.job = j
  /\ GrantFits(a, jobs[j].run)
  /\ jobs[j].valid
  /\ jobs' = [jobs EXCEPT ![j] = Executed(@, workspace.applied, result)]
  /\ UNCHANGED <<project, runs, approvals, workspace, outbox, access, req>>

BeginRetry(c, u, j) ==
  /\ MayBegin(c)
  /\ CanAct(u)
  /\ req' = [req EXCEPT ![c] = [op |-> "retry", user |-> u, target |-> j, result |-> jobs[j].result]]
  /\ UNCHANGED <<dbVars, access>>

(* The project is locked and reloaded, the job is not; the rows that had   *)
(* failed when it was loaded become a job of a new run.                    *)
CommitRetry(c) ==
  LET jbs == Append(jobs, UploadedJob(Latest + 1, TRUE)) IN
  /\ req[c].op = "retry"
  /\ Latest < MaxRuns /\ Len(jobs) < MaxJobs
  /\ project.status = "blocked"
  /\ Latest > 0 /\ runs[Latest].status \in {"failed", "cancelled"}
  /\ req[c].result = "partial_failed"
  /\ Dispatch(Latest + 1, Launched(NewRun(req[c].user, Latest, Len(jbs))),
              project, Moved(project, "in_progress"), approvals, jbs)
  /\ req' = [req EXCEPT ![c] = Idle]
  /\ UNCHANGED access

-----------------------------------------------------------------------------
(* revise_materials, delete_project, restore_project and changes of access *)

ReviseMaterials(u, migration) ==
  /\ CanAct(u)
  /\ project.status \in {"draft", "ready", "blocked"}
  /\ project.version < MaxProjectVersion
  /\ project' = [project EXCEPT !.version = @ + 1, !.migration = migration]
  /\ UNCHANGED <<runs, approvals, jobs, workspace, outbox, access, req>>

DeleteProject(u) ==
  /\ CanAct(u) /\ u \notin Partners
  /\ TRUE \in Deletions
  /\ project' = [project EXCEPT !.deleted = TRUE]
  /\ UNCHANGED <<runs, approvals, jobs, workspace, outbox, access, req>>

RestoreProject(u) ==
  /\ access[u] # "none" /\ u \notin Partners
  /\ project.deleted
  /\ project' = [project EXCEPT !.deleted = FALSE]
  /\ UNCHANGED <<runs, approvals, jobs, workspace, outbox, access, req>>

(* Memberships, project roles and capability grants change at any time.    *)
ChangeAccess(u, level) ==
  /\ level # access[u]
  /\ access' = [access EXCEPT ![u] = level]
  /\ UNCHANGED <<dbVars, req>>

(* A request that is refused or fails after it began leaves no trace.      *)
Abandon(c) ==
  /\ req[c].op # "idle"
  /\ req' = [req EXCEPT ![c] = Idle]
  /\ UNCHANGED <<dbVars, access>>

-----------------------------------------------------------------------------

RunsInit ==
  /\ project \in [status : {"draft"}, version : {1}, deleted : {FALSE}, migration : Migrations]
  /\ runs = <<>>
  /\ approvals = <<>>
  /\ jobs = <<>>
  /\ workspace = [applied |-> "none"]
  /\ outbox = <<>>
  /\ access = [u \in Users |-> "full"]
  /\ req = [c \in Clients |-> Idle]

RunsNext ==
  \/ \E c \in Clients, u \in Users : BeginStart(c, u)
  \/ \E c \in Clients : CommitStart(c)
  \/ \E c \in Clients, u \in Users, k \in DOMAIN runs : BeginCancel(c, u, k)
  \/ \E c \in Clients : CommitCancel(c)
  \/ \E u \in Users, a \in DOMAIN approvals : Approve(u, a)
  \/ \E u \in Users, a \in DOMAIN approvals : Reject(u, a)
  \/ \E u \in Users, k \in DOMAIN runs, p \in Revisions : ReviseConfiguration(u, k, p)
  \/ \E u \in Users, k \in DOMAIN runs, valid \in BOOLEAN : ValidateImport(u, k, valid)
  \/ \E u \in Users, j \in DOMAIN jobs, a \in DOMAIN approvals,
        result \in {"completed", "partial_failed"} : ExecuteJob(u, j, a, result)
  \/ \E c \in Clients, u \in Users, j \in DOMAIN jobs : BeginRetry(c, u, j)
  \/ \E c \in Clients : CommitRetry(c)
  \/ \E u \in Users, m \in Migrations : ReviseMaterials(u, m)
  \/ \E u \in Users : DeleteProject(u)
  \/ \E u \in Users : RestoreProject(u)
  \/ \E u \in Users, level \in AccessLevels : ChangeAccess(u, level)
  \/ \E c \in Clients : Abandon(c)

-----------------------------------------------------------------------------
(* Properties of the runs *)

(* Every row of a table belongs to one of the runs.                        *)
Refers(table, ks) == \A i \in DOMAIN table : table[i].run \in ks

RowsOK ==
  /\ project \in Project
  /\ runs \in Seq(Run)
  /\ approvals \in Seq(Approval) /\ Refers(approvals, DOMAIN runs)
  /\ jobs \in Seq(Job) /\ Refers(jobs, DOMAIN runs)
  /\ workspace \in [applied : Proposals]
  /\ outbox \in Seq(Event) /\ Refers(outbox, DOMAIN runs)

ClientsOK ==
  /\ access \in [Users -> {"full", "no_start", "none"}]
  /\ req \in [Clients -> Request]
  /\ \A c \in Clients :
       /\ req[c].op = "cancel" => req[c].target \in DOMAIN runs
       /\ req[c].op = "retry" => req[c].target \in DOMAIN jobs

(* A project has at most one Agent run under way, and it is the latest:    *)
(* start_run and retry_failed_rows check it under the lock of the project, *)
(* and no later step brings an older run back to life.                     *)
OneActiveRun == \A k \in DOMAIN runs : Going(k) => k = Latest

(* A run waits for an approval exactly while one approval of the run is    *)
(* open; it is the one its state names, for the node the run stands at and *)
(* about the material the run has now.  A cancelled, superseded or failed  *)
(* run leaves nothing behind for an approver to decide (cancel_run,        *)
(* revise_configuration, decide).                                          *)
OpenApprovalIffWaiting ==
  \A k \in DOMAIN runs :
    LET r == runs[k] IN
    IF r.status = "waiting_approval"
    THEN /\ Open(k) = {r.state.pending}
         /\ approvals[r.state.pending].kind = r.node
         /\ approvals[r.state.pending].material = Material(r.node, r.state)
    ELSE Open(k) = {}

(* Whatever is redelivered, retried or resumed, a run records every node   *)
(* once and in the order of the workflow (_record, next_node).             *)
NodesOnceInOrder ==
  \A k \in DOMAIN runs : \A i \in DOMAIN runs[k].steps : runs[k].steps[i] = i

Independent(a) ==
  LET u == approvals[a].decidedBy IN
  Personal(u) \/ (u # runs[approvals[a].run].startedBy /\ u # approvals[a].requestedBy)

(* No run gets past an approval node unless an approval of that kind was   *)
(* granted to this very run by someone who neither started the run nor     *)
(* asked for the approval, the owner of a personal space apart (decide).   *)
GatesIndependent ==
  \A k \in DOMAIN runs, g \in APPROVAL_NODES :
    g < Len(runs[k].steps) => \E a \in Granted(k, g, approvals) : Independent(a)

(* The workspace holds what the last run to apply a configuration was last *)
(* granted, and nothing before any run has applied one: neither a proposal *)
(* superseded during the approval nor one not approved yet reaches it.     *)
WorkspaceAsApproved ==
  LET appliers == {k \in DOMAIN runs : Len(runs[k].steps) >= ApplyConfiguration} IN
  IF appliers = {} THEN workspace.applied = "none"
  ELSE \E k \in appliers :
         /\ \A i \in appliers : i <= k
         /\ \E a \in Granted(k, ConfigurationApproval, approvals) :
              /\ \A b \in Granted(k, ConfigurationApproval, approvals) : b <= a
              /\ approvals[a].material.config = workspace.applied

(* No import ran that nobody independent approved: neither by the workflow *)
(* nor by a direct call of execute_import with an approval of its choice.  *)
ImportsApproved ==
  \A j \in DOMAIN jobs : jobs[j].result # "none" =>
    \E a \in Granted(jobs[j].run, ImportApproval, approvals) :
      approvals[a].material.job = j /\ Independent(a)

(* What a run was let through for still stands when its tools ask for it:  *)
(* the latest grant of its configuration and import gates, once behind it, *)
(* is for the material the run has now, and the workspace holds what the   *)
(* proposal is to replace, or once applied the proposal itself.  So        *)
(* neither require_receipt nor the check of apply_configuration that the   *)
(* configuration is still the one approved against stops a run half way,   *)
(* whatever was revised, uploaded, cancelled or retried before.            *)
GrantsHold ==
  \A k \in DOMAIN runs : Going(k) =>
    LET r == runs[k]
        passed == Len(r.steps)
    IN
    /\ \A g \in {ConfigurationApproval, ImportApproval} :
         (g < passed \/ (g = passed /\ r.status # "waiting_approval")) =>
           Receipt(k, g, r.state, approvals)
    /\ passed \in {GenerateChanges, ConfigurationApproval} => workspace.applied = r.state.base
    /\ passed >= ApplyConfiguration => workspace.applied = r.state.config

(* A completed project has a run that went through every node, and where   *)
(* its documents ask for a migration, an import of that run in full.  It   *)
(* stays in full however often execute_import repeats it, until a later    *)
(* run, which only a stale start (CompletedNeverRestarts) can begin, has   *)
(* changed the configuration the rows are checked against.                 *)
CompletedWasReady ==
  project.status = "completed" =>
    \E k \in DOMAIN runs :
      /\ Len(runs[k].steps) = CloseProject
      /\ project.migration =>
           \/ \E j \in DOMAIN jobs : jobs[j].run = k /\ jobs[j].result = "completed"
           \/ \E i \in k + 1 .. Latest : Len(runs[i].steps) >= ApplyConfiguration

(* A decision once taken stands: no later cancellation, revision or        *)
(* redelivery rewrites an approval that is no longer pending.              *)
DecisionsStand ==
  [][\A a \in DOMAIN approvals :
       approvals[a].status # "pending" => approvals'[a] = approvals[a]]_approvals

(* main.py refuses to start a completed project again (start_run; the test *)
(* test_completed_project_cannot_start_again).                             *)
CompletedNeverRestarts ==
  [][project.status = "completed" => Len(runs') = Len(runs)]_<<project, runs>>

(* A run that has ended records nothing more and is never taken up again:  *)
(* a late cancellation can rename the end (TerminalRunsStay), but neither  *)
(* it nor a worker failing late undoes it (cancel_run, process_event).     *)
EndedStaysEnded ==
  [][\A k \in DOMAIN runs : ~Going(k) =>
       /\ runs'[k].status \in {runs[k].status, "cancelled"}
       /\ runs'[k].steps = runs[k].steps]_runs

(* The run table has no move out of succeeded, failed and cancelled.       *)
TerminalRunsStay ==
  [][\A k \in DOMAIN runs :
       RUN_TRANSITIONS[runs[k].status] = {} => runs'[k].status = runs[k].status]_runs
=============================================================================
