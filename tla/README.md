# Formal model of the implementation-delivery platform

TLA+ modules, model-checking runs and proofs for the backend under `src/backend/`:
a multi-tenant service in which a company takes an *implementation project*
through an *Agent run* of seventeen nodes, four of which stop for a human
approval. The API is FastAPI over SQLAlchemy and PostgreSQL at READ COMMITTED;
runs are advanced inside the API transaction (`execution_mode = inline`) or by
Celery workers fed by an outbox table (`execution_mode = worker`).

## 1. Inventory

| Component | State | Operations | What is hard | What makes it correct |
|---|---|---|---|---|
| Lifecycle state machines (`state_machine.py`) | status and version of projects and runs | `transition_project`, `transition_run` | callers act on stale rows | terminal states stay terminal |
| Workflow (`workflow.py`) | `run.state`, `AgentStep` | `advance`, `resume_after_approval` | resumption after a gate, a rejection, a crash | nodes once and in order, no gate passed without a grant |
| Run API (`main.py`) | `AgentRun`, `Approval`, `IdempotencyRecord` | `create_project`, `start_run`, `cancel_run`, `decide`, `validate_import`, `execute_import`, `delete_project` | rows read before a lock and used after it; lock orders | one active run; decisions stand; separation of duties |
| Delivery (`delivery.py`, `delivery_routes.py`) | `SaaSWorkspace`, `ImportJob`, artifacts, remediation | receipts, apply, import, go-live checks, `retry_failed_rows`, `revise_materials`, `revise_configuration` | approvals of superseded material; partial imports | the workspace and the members are what was approved |
| Outbox (`execution.py`) | `WorkflowOutbox` | `dispatch` | one event per version of a run | no lost wake-up |
| Worker (`worker.py`) | event row lock, attempts | `publish`, `process_event` | loss, duplicates, redelivery, crashes, revoked actors | events drain, runs settle, third failure is final |
| Approval row locks (`main.py`, `delivery_routes.py`) | row locks, sessions, idempotency records | the statements of `decide`, `cancel_run`, `revise_configuration` | opposite lock orders, repeated requests | each acts as one step, once |
| Project access (`permissions.py`, `project_access_routes.py`, `support_routes.py`, row level security) | memberships, grants, collaborations, support grants | add, update, remove, invite, decide, revoke | read-check-write without a lock; three places that decide | the places agree; what was revoked stays revoked |
| Accounts (`security.py`, `auth_routes.py`, `onboarding.py`, `platform_routes.py`) | users, sessions, mailed links | login, logout, register, verify, bind, reset, disable, invite staff | links used twice, sessions opened while they are ended | a verification link acts once; ended sessions stay ended; an address is one account's |
| Companies (`admin_routes.py`, `auth_routes.py`, `onboarding.py`, `platform_routes.py`) | companies, memberships, invitations | invite, resend, revoke, delete, accept, found, transfer | invitations resent or revoked while accepted | one company per person; a dead link stays dead |
| Member import (`member_import_routes.py`, `imports.py`) | batches, directory entries | preview, commit | a directory that changes in between | all or nothing, once |
| Mail and rate limits (`mailer.py`, `rate_limit.py`) | mail queue; Redis counters | `flush_mail`, `enforce_rate_limit` | a crash between send and commit; two calls for one counter | three attempts at most |
| Knowledge base (`knowledge_routes.py`, `rag.py`) | documents by title and version | upload, deactivate, retrieve | concurrent publication | versions increase |
| Trash (`admin_routes.py`, `cleanup.py`) | deleted projects | restore, purge, daily clean-up | partial deletion | all rows of a project or none |
| Intelligence, evaluation, configuration, observability, audit, web client, migrations | - | - | - | not modelled, see section 7 |

How they interact. An API handler runs one transaction. `start_run`, `decide`,
`validate_import` and `retry_failed_rows` end in `dispatch`, which either calls
`advance` in the same transaction or inserts an outbox event. Every two seconds
the beat task publishes due events to the broker; a worker takes a message, locks
the event row for as long as it works on it, and runs each node in a transaction
of its own under the lock of the run, until the run is no longer `running`.
`cancel_run`, `delete_project` and changes of access interfere through the shared
rows at any time.

The hazards of the code, each at its line and with the properties aimed at it, are
listed in `PROJECT.json`.

## 2. Modules

| Module | Models | Depends on |
|---|---|---|
| `StateMachine` | the two transition tables and a move along them | - |
| `Workflow` | nodes, gates, resumption, the state of a run, the material of an approval | `StateMachine` |
| `Runs` | the rows of one project and every handler that changes them, both execution modes | `Workflow` |
| `Worker` | publisher, broker and workers over the rows of `Runs`; `Spec`, `FairSpec` | `Runs` |
| `Gatekeeper` | abstract: what the platform promises of the runs of a project | - |
| `ApprovalLocks` | three handlers about one waiting run, a statement at a time, with row locks | - |
| `Decisions` | abstract: a decision, cancellation or revision as one step | - |
| `ProjectAccess` | members, collaborations, capabilities and support grants of one project | - |
| `Companies` | companies, memberships, invitations, the directory and its imports | - |
| `Accounts` | accounts, addresses, sessions and mailed links | - |
| `MC...` | instances: values, symmetries, state constraints | the module of that name |
| `WorkerProofs`, `RunProofs`, `EventProofs`, `GateProofs` | theorems about `Worker`, and so about `Runs` in both modes | `Worker`, each other |
| `LocksProofs`, `AccessProofs`, `CompaniesProofs`, `AccountsProofs` | theorems and proofs | the module they are about |

How the modules fit together. `Worker` composes the broker with the handlers of
`Runs`, which follow `Workflow` and `StateMachine`. `ApprovalLocks` opens three
handlers that `Runs` takes for single steps. `Runs` keeps of the rest of the platform
one level of access per person, which changes at any time; `ProjectAccess` is
what stands behind that level, and itself takes memberships of companies as rows
that change at any time. `Companies` is what changes those, and takes for granted
that a person has an account. `Accounts` is about how a person comes to have an
account and a session. No module relies on more of another than is shown there.

### Workflow, runs and worker

*Rows.* `project`, `runs`, `approvals`, `jobs`, `outbox` are the tables, ordered
by creation, for one project; `runs[k].steps` are the `AgentStep` rows of run `k`,
`workspace` the configuration of the `SaaSWorkspace`. A node is its position in
`NODES`. A configuration proposal is a name: `"standard"` for what the workflow
generates, the members of `Revisions` for what a consultant puts in its place,
`"none"` for nothing proposed or applied. The material of an approval is what can
differ between two materials of the same kind: the proposal and the values it
replaces, or the import job.

*Transactions.* A handler that locks the rows it depends on before it reads them,
or whose conflicts with others serialise it on the rows it writes, is one action:
`Approve`, `Reject`, `ReviseConfiguration`, `ValidateImport`, `ExecuteJob`,
`ReviseMaterials`, `DeleteProject`, `RestoreProject`. A handler that reads first
and locks later is two: `BeginStart`/`CommitStart`, `BeginCancel`/`CommitCancel`,
`BeginRetry`/`CommitRetry`. The `Begin` action stores in `req` the rows the
session's identity map then holds. `SELECT ... FOR UPDATE` without
`populate_existing` does not refresh an object the session holds, so the `Commit`
action decides and writes on the snapshot, except where the code refreshes
(`retry_failed_rows` refreshes the project, `start_run` queries the latest run
anew). Writing back changes the columns the handler assigned (`WriteProject`).

*decide* locks the approval and writes the run; `cancel_run` and
`revise_configuration` lock the run and write the approval. `Runs` takes each as one
step at its commit. That this is right is what `ApprovalLocks` shows, below.

*Workflow.* `Segment` is one call of `advance`: the nodes from where the run
resumes to the node it stops at (`Segment`'s `last`): a gate, missing materials,
failed go-live checks or the end; in worker mode a single node. A tool that raises
(`MayRun`) undoes the whole transaction, so no such step exists. The outcome of
the go-live checks is free except where it follows from rows of the model
(`CanBeReady`).

*Worker.* `Take` is the row lock of the event and the entry of the graph,
`StepNode` one node, `StepFails` and `StepRetried` an exception rolled back,
`FailRun` the separate transaction that fails the run, `CommitDone` and
`CommitFailed` the commit of the event. `Crash` drops the transaction and the lock
and redelivers the message (`task_acks_late`). `Lose` stands for any message that
never arrives, among them one whose consumer finds the row still locked by the
publisher and drops it (`skip_locked`).

*Access.* `access[u]` is what the permission checks of a run see of a person:
`"full"`, `"no_start"` (everything but `run.start`), `"none"`. Other permissions
are over-approximated: whoever may act at all may call every handler. `Partners`
are people who act as members of a collaborating company: they may do everything
but delete and restore the project, and have no membership in the company that
owns it.

### Row locks: `ApprovalLocks`

A transaction of `Tx` carries out one copy of a request; `tx[t].pc` is the
statement it is at. `decide` looks up its key, locks the approval (`LockApproval`),
loads the run without a lock (`ReadRun`) and writes it (`LockRun`, which waits for
its lock); `cancel_run` loads the run, then locks it, then finds and locks the open
approval; `revise_configuration` starts with the lock of the run. What a session
has loaded (`seen`) is not loaded again. A lock that is held is waited for;
`Abort` is the database breaking a cycle of waits, `Duplicate` its unique key on
idempotency records. Requests are sent again at any moment, also while an earlier
copy is at work. The run stands at its configuration approval, where all three
handlers apply; an approval resumes it, as with a worker, in one statement.

`Decisions` is the abstract specification: a run waits with one open approval, and is
approved, rejected, revised or cancelled as a whole. `ActsAsOneStep` is the
refinement, under which `run` is the status of the run and every statement but the
commit is a stutter. `Cancel` of `Decisions` has no guard: a cancellation that has
loaded the run before it ended writes over it, which is finding 2.

### Access to a project: `ProjectAccess`

`Listed` is `accessible_project_filter`, `Permissions` the result of
`project_access`, `RLSScope` and `RLSRead` the policies of the migrations. The rows
are those of one project. A handler is `Begin...` (permission checks and loading) and
`Commit...` (writing the changed columns over the row as it is by then, `Changed`);
between them lies whatever other requests commit. A unique constraint that refuses
a commit is `Conflict`. Capability grants are single steps, because a partial unique
index serialises them. Expiry is a step of its own. `Permissions` uses the codes the
properties tell apart. `ended`, `removed` and `withdrawn` are history variables: a
company or a member is in the first two from the commit that ends its access, unless
another request to the contrary was already under way, until someone asks to let it in
again; a request for support is in `withdrawn` once a withdrawal of it has been
committed, whatever a decision that read it before writes over its status.

### Companies and members: `Companies`

An invitation is a row with its company, person, role and status; `"expired"` is a
pending row past its time, `"deleted"` no row. Handlers that read an invitation and
write it later are pairs. `accept_invitation` takes the row by a conditional update
and holds it to its commit (`Accept`, `CommitAccept`); revocation and deletion write
the row, which waits for such a holder (`Write`), and then free the place in the
directory (`Release`). Creating an invitation holds the row of the company, and so
excludes an import. `Joinable` is the partial unique index on active memberships,
`RenewFails` the one on open invitations. `orphan` is a history variable: the places a
transfer leaves in the directory.

### Accounts: `Accounts`

Sessions that ended are dropped, since nothing revives one. `cleared` is a history
variable: the users all of whose sessions a handler says it ends (reset, disabling,
transfer, revocation: `Ended`), until a login or an invitation admits them again
(`Admitted`). It is written beside the sessions and not computed from them, so a handler
that left some alive would show. A user for whom a request is about to open a session at
that moment (`Opening`) does not enter it: the code does not look again before it
inserts the session, and no document promises more. A link is a verification, a reset
token or a platform invitation, and `uses` counts what it did; a verification is taken
by a conditional update and holds its row (`Locked`), the other two are read without a
lock, so two requests may have one, which is finding 5. `Fail` stands for any refusal after a request was admitted. `Holder` is the unique
constraint on addresses.

## 3. Runs

Bounds are constants of the modules (`Max...`, the sizes of the sets), each used in a
guard or in a type. Symmetry is used only over values the instance does not tell
apart, and never in a run with liveness.

| Run | Instance | Question |
|---|---|---|
| `inline_safety` | inline; 2 people of a company, 2 runs, 2 jobs, one alternative proposal, revision while at most 3 approvals exist, documents with and without migration; 2 requests in two transactions at once, the second begun while there is at most one run (`MaxRaced`), 1 such request later, beside all atomic ones | do start, cancel and retry keep one active run and the pairing of runs and approvals when they race; are the gates, the workspace, the imports and completion sound over repeated runs, and do grants hold as long as they are relied on? |
| `worker_races` | worker; 2 workers, 2 people, 1 run, 2 messages waiting, among them copies of one event, beside those at work, 3 faults, deletion, explored up to the second gate | at-least-once delivery, crashes, runs that have ended, refinement of `Gatekeeper` |
| `worker_liveness` | worker; `FairSpec`; 1 worker, 1 person, the owner of a personal space, whose access changes, 1 copy of an event waiting, 1 fault | does the outbox drain and every run settle? |
| `approval_locks` | 3 requests of any kind, one of them sent twice, so 4 transactions; 2 approvals | does each request act as one step, once, is every wait a short one, and every request answered? |
| `project_access` | the owner and a partner, an administrator of each, a member who moves between them, 1 supporter, 2 roles, 1 capability, 2 requests at once | do the three places that decide agree; do removals and revocations stand? |
| `companies` | 2 companies, an administrator and a person, 2 invitations, 2 requests at once | one company per person; the directory; links that ended |
| `accounts` | 2 customers, 1 member of staff, 2 addresses, 2 live sessions, 2 links, 2 requests at once | sessions that ended; verification links that act once; addresses |
| `completed_project` | inline; expected violation | the finding on `start_run` |
| `stale_cancel` | inline; expected violation | the finding on `cancel_run` |
| `partner_run` | worker; expected violation | the finding on collaborating companies |
| `revoked_company` | `project_access` without support; expected violation | the finding on revoked collaborations |
| `used_link` | `accounts` without staff; expected violation | the finding on one-time links |

Why the bounds are enough. Two runs let a run meet its predecessor: the retry
chain, an old approval or job used for a new run, a late cancellation of the
old one. Two people are the least with which separation of duties can hold or fail,
and a third adds nobody new to a rule that compares pairs. Two requests cover every
race of two handlers. In `inline_safety` a second request begins only while there is at
most one run: the races that count are over who begins the next run and over how the
first one ends, and what they leave behind is then explored through the whole second run
(`RacesUnrevised` in `MCWorker` keeps them to documents with a migration, apart from
revised proposals, and to two requests of one person: a handler compares who sent a
request with the people of later decisions, never with the sender of another request). Two copies
of an event waiting let both workers find it in the same moment, one drop it because
the other holds it (`Skip`), and a copy arrive after the event has been processed;
`worker_liveness` has one copy, since a further one is dropped or does what the first
would have done. Two workers let a duplicate meet a redelivery after a crash;
three faults let a loss, a crash and a retry combine, and would let an event be
retried a third time if the code allowed it. The second gate is enough in
`worker_races` since a run that resumes after the first gate goes through every
way of taking, failing and repeating a node; the later gates are all reached in
the inline runs and in `worker_liveness`. Four transactions let two deadlock while
a third waits and a copy of one is replayed. Two companies, addresses or
links are the least with which something can be in the wrong one of two.

State constraints. `RacesUnrevised` and `UpToSecondGate` in `MCWorker`, `Apart` in
`MCProjectAccess` and `MCAccounts` and `Bounded` in `MCCompanies` cut combinations of unrelated things, to keep the runs short: two
requests under way that are about rows the other neither reads nor writes, or beside a
revised proposal; what follows the second gate; requests that are bound to be refused by
what they have loaded (`MayCommit`), which change nothing; staff
together with customers; support grants together with members; a second
administrator who demotes the first. What they leave out is not left open: the
properties of these runs are proved in section 6 without any constraint.

What each property says is in the comment above it. In brief: `OneActiveRun`,
`OpenApprovalIffWaiting`, `DecisionsStand` - the rows of runs and approvals never
disagree; `GatesIndependent`, `WorkspaceAsApproved`, `ImportsApproved`,
`CompletedWasReady` - nothing takes effect that nobody independent approved;
`GrantsHold` - what a run was let through for still stands when its tools ask for it;
`NodesOnceInOrder`, `ActiveRunHasEvent`, `GivenUpAtThird`, `GatesKept`,
`EndedStaysEnded` - delivery at least once has effects once, no wake-up is lost, and
a run that has ended is not taken up again; `EventsProcessed`,
`RunsSettle` - the worker side makes progress; `OpenWhileWaiting`, `DoneOnce`,
`ActsAsOneStep`, `WaitsAreShort`, `AllAnswered` - the lock orders are harmless; `ListedIffOpens`,
`AppWithinRLS`, `RevocationHolds`, `RemovalStands`, `SupportEnds` - access is the same
wherever it is decided, and ends when it is ended; `OneCompany`, `PlacesUsed`,
`BatchOnce`, `DeadLinksStayDead` - who belongs where; `SessionsEnd`, `OneTimeLinks`,
`OneAddress`, `AddressStays` - who is who. `PROJECT.json` holds for every
property a mutation of the code's model under which its run fails.

### Fairness

`FairSpec` of `Worker` assumes of the code only what its schedule does: weak fairness of
`Publish(e)` for each event (the beat task runs every two seconds and takes every
due event), of the steps of each worker, and of each worker taking or dropping
some waiting message. The events are those up to `MaxEvents`, which leaves none out
(`FairnessCoversEveryEvent`, section 6). Clients owe nothing: no property waits for a person to
decide, and `RunsSettle` ends at a gate. Losses, crashes and retried failures are
finitely many (`MaxFaults`): a message may be lost any number of times in a row,
but not for ever. A processed event that failed for good counts as settled, since that
is what the code leaves for its operators to see.

`LocksSpec` assumes that each transaction that has begun goes on when it can
(`WF` of its statements, among them the abort of a deadlock, which the database
detects by a timer). A lock is passed on when its holder ends, which needs no
strong fairness here: every holder ends after finitely many statements
(`StatementsRunOut`), whoever waits is at most two waits behind someone who goes on
(`WaitsAreShort`), and the requests are finitely many. Nobody has to send a request.

## 4. Refinement

`Gatekeeper` knows runs only as a count of nodes done, a set of gates granted and
whether they are live. A run starts when none is live, moves past gates only when they
have been granted, and is granted the gate it stands at. `Worker` implements it
(`GatesKept`) under the mapping at its end: done is the number of `AgentStep` rows,
granted the gates with an approval decided by someone independent, live the runs
`cancel_run` would cancel. A restart of a node, a lost grant, a second live run or
a node done by a run that is over would each be a step `Gatekeeper` does not allow.

`ApprovalLocks` implements `Decisions` (section 2). Both refinements are proved
(`ImplementsGatekeeper`, `ImplementsDecisions`).

## 5. Findings

1. `start_run` (`main.py:305-317`) checks the project it loaded before the lock. A
   start that waits while the acceptance approval completes the project starts a
   new run on it (`completed_project`).
2. `cancel_run` (`main.py:354-361`) does the same with the run: a run that has
   ended meanwhile becomes `cancelled` (`stale_cancel`).
3. `actor_context` (`worker.py:34`) looks for the actor's membership in the company
   of the project. A member of a collaborating company may start a run through
   the API, but the worker refuses the event for good and the run stays
   `pending` until someone cancels it (`partner_run`). Inline execution has no
   such check.
4. `_decide_collaboration` (`project_access_routes.py:384-389`) reads the invitation
   as pending without a lock. When the owner revokes it in between, the acceptance
   makes the revoked collaboration active (`revoked_company`), against README.md:230.
5. `reset_password` (`auth_routes.py:384-398`) and `accept_platform_invitation`
   (`auth_routes.py:305-339`) read their link as unused without a lock and mark it
   at the commit. Two requests with one link both act (`used_link`), though README.md:214
   and the mail itself (`mailer.py:37`) call it a one-time link.

The invariants that pass hold with these in place. The first two lead neither to two
active runs nor to an approval that does not fit its run. The first does reach into a
completed project: the run begun by the stale start may apply another configuration, and
an import executed once more is judged by it and may then be there in part only, which
`CompletedWasReady` says. `RevocationHolds` names the race of the fourth as its proviso,
and `OneTimeLinks` is about verification links, which are taken by a conditional update.

## 6. Proofs

All theorems hold for every value of the constants that satisfies the assumptions
named in the modules. Each module of proofs has one inductive invariant, an
`Init` lemma, a lemma per action or group of actions, and theorems whose only temporal
step is the last. TLC has checked each inductive invariant on the small instance.

`WorkerProofs` (`RunsAssumption`, `WorkerAssumption`, `NodePositions`,
`RevisionsAreProposals`):

- `TypeCorrect`: `Spec => []TypeOK`. `TypeOK` includes the references between
  tables, without which the types of the rows are not preserved.
- `OneRunAtATime`: `Spec => []OneActiveRun`, with
  `Inv == TypeOK /\ OneActiveRun`. Only `CommitStart` and
  `CommitRetry` add a run, and both read the latest run under the lock, which by
  the induction hypothesis is the only one that may be active; every other step
  either leaves the status of a run, or moves a run that is active already. For
  `CommitCancel`, which acts on a stale run, it is enough that its result is
  terminal.
- `DecisionsAreFinal`: `Spec => DecisionsStand`. Every handler either appends
  approvals or rewrites those that are pending; from the type invariant alone.

`RunProofs`, about what takes effect, with two invariants on top of `Inv`:

- `RunsGood`: `Good(k, r, apps)` of every run. It is a predicate of a row and of the
  approvals, not of the state, so that it can be said of the row a transaction has in
  hand before it writes it (`Hand`). Its parts need each other: nodes are in order only if
  a run resumes right after its last one (`InOrder`), which for a run at a gate depends on
  the approval it waits for being the one its state names (`Awaits`), and that a run is past a
  gate only with a grant (`GatesPassed`) must be known of the gate it has just been let
  through as well (`Behind`). `NodesRunOnceInOrder`, `WaitsForOneApproval` and
  `GatesArePassedIndependently` follow from it.
- `Warranted`: `ImportsApproved`, `CompletedWasReady` and `WorkspaceAsApproved`,
  strengthened by `JobsOwned` (the job of a run under way is its own) and `StillReady`
  (a run past its go-live checks has its import in full, judged by the configuration in
  the workspace, unless its project has been blocked since) and `CompletedReady` (so has
  the run that completed the project, until a later run applies a configuration). Every step is one of two kinds
  (`DispatchesOrQuiet`): it hands a good run to `advance` (`Hand`, with `Done` for what
  comes of it), or it does nothing of consequence (`Quiet`). `ImportsAreApproved`,
  `CompletedProjectsWereReady` and `WorkspaceHoldsWhatWasApproved` follow.
- `GrantsStand` takes a part of each: in `Good`, a gate a run is behind has exactly one
  grant, and it is for the material the run has now (`GrantsFit`); in `Warranted`, the
  workspace is what the proposal was made against until it is applied, and then the
  proposal (`ProposalsFit`). Only the latest run is under way, so nobody else applies a
  configuration meanwhile; a revision is taken only at the configuration gate and
  closes the old approval with it; a cancelled run may be overwritten but is not under way.
  `GrantsHold` speaks of the configuration and import gates. The material of the plan
  gate does not change in the code, and that of the acceptance gate is a report the
  model leaves out.

`EndedRunsStayEnded` (`Spec => EndedStaysEnded`) follows from the two kinds of steps: the run
that is handed on is under way, and a quiet step leaves the others. It says how far finding
2 goes: a stale cancellation renames the end of a run, but neither it nor a late
failure of a worker takes the run up again or records a node of it.

`EventProofs`, about the outbox: `EventsAreGivenUp`, `NoWakeUpIsLost`. `EventsGood` says in
worker mode that an unprocessed event is held by one worker at most (`HeldByOne`), that
attempts are counted (`Counted`), that no run under way is behind its events
(`Keyed`, without which a dispatch could find its idempotency key taken and make no
event), and that a run that is to execute has an event which will do so (`Awake`). The last
needs the place of the worker that holds the event: one about to process it
has left the run at a gate or ended it. In inline mode the outbox is empty.

Of the liveness of the workers `EventProofs` proves what it rests on short of fairness.
`EveryStepAdvances`: a transaction that runs a node takes the run one node further, or
lets it wait for materials. `EveryHoldEnds`: the worker that holds an event has at most
twenty steps to go (`Effort`, a variant over the place of the worker and the nodes left);
each of its own takes one off or ends the hold, with the event processed or one failure
nearer to the third, and no step of a client, of the broker or of another worker adds
any. `FairnessCoversEveryEvent`: a run leaves six events at most, so `MaxEvents` is no
bound of the instance but a fact about the code. `FewEvents` counts them: a launch, the gates
the run is behind, the upload it waited for. `JobsFit` is what makes it one upload: a run
waits for materials only while it has no job, and the job it is given is a valid one.

`GateProofs`: `ImplementsGatekeeper`, that is `Spec => GatesKept`. A step that dispatches
is `Start` or `Work` of `Gatekeeper`, for which `Done` tells the nodes and grants before and
after; a quiet step is a stutter or ends the run. That `live` is empty when a run starts is
`OneActiveRun`; that any grant counts as an independent one is `RunsGood`.

`WaitingRunsAreDecidedAtomically` joins `Runs` and `ApprovalLocks`. With workers, every
step of `Worker` on a latest run that waits is a step of `Decisions` about its open approval,
or a stutter. The handlers `Runs` takes for single steps are thus held to the
specification that `ApprovalLocks`, a statement at a time, is proved to implement. In
inline mode the approval and the nodes after it are one transaction, which may end at
the next gate, so there the statement would be false and is not made.

`LocksProofs` (`LocksAssumption`): `WaitsForOpenApproval`, `EffectsOnce`,
`ImplementsDecisions`, `NobodyWaitsInVain`, `StatementsRunOut`. `LInv` says of each transaction what it holds and what it knows:
whoever is past the lock of the run holds it (`RunHeld`), a decision past the lock of
its approval holds that and finds it open (`ApprovalHeld`), and what a cancellation
or revision found under the lock of the run is still so (`Found`). All commits hold the lock of the
run, so two of them cannot both rely on the same open approval. A statement that
writes no row disturbs nobody (`QuietStep`), so only `Commit` needs an argument. The
step of the refinement follows from `Found` and `ApprovalHeld`: the row that is closed
is the only open one.

`NobodyWaitsInVain` (`LocksSpec => []WaitsAreShort`) is about who waits for whom: locks of
rows and of keys are held only by transactions at work, and whoever waits is at most two
waits behind one that goes on, or in a circle of two that the database breaks. `CanGoOn`
spells out when a statement can be carried out; TLC has found it to be the same as
`ENABLED Statements(t)` in every state of the instance. `StatementsRunOut` gives
the variant: each statement takes one off what `Remaining` counts, and nobody adds to
it. Together they are the argument for `AllAnswered`, but for fairness. The keys are
assumed finite, as requests are.

`AccessProofs` (`AccessAssumption`): `ListsAgree`, `PoliciesAgree` need
types only: a role or a support grant that gives anything gives `project.view`, and a
row of a member has the company they joined for. `SupportIsLimited` needs
`WithdrawalInv`: a request whose withdrawal was committed is marked as revoked, and no
later decision, which writes the status alone, takes the mark off. `RevocationsHold` and `RemovalsStand` need
`RevocationInv` and `RemovalInv`: of a company in `ended` every request under way
writes `revoked`, and of a member in `removed` none would activate them.

`CompaniesProofs` (`CompaniesAssumption`): `NobodyInTwoCompanies`, `DirectoryInUse`,
`ImportedOnce`, `LinksStayDead`. `CompaniesInv` adds that there is one open invitation
per person and company, that an acceptance under way has a pending row nobody else
holds (`Requests`, `Exclusive`), and that a revocation which keeps the place has seen
another use for it. That use may end later only by a request that looks itself.

`AccountsProofs` (`AccountsAssumption`): `SessionsStayEnded`, `LinksActOnce`,
`AddressesDistinct`, `AddressesStay`. `AInv` has four parts: the types of
sessions; addresses are distinct and an absent account has none; a link that has acted
and is with a request, or with two of them, is no verification; a user in `cleared` has an account and no
session, and no request is about to open one (`ClearedInv`), which a change of space or a
verification keeps because it needs a session, a new account because it was absent.

Every invariant, action property and refinement that a passing run checks is proved,
so that bounds and state constraints matter to none of them. Model-checked only is
liveness (`EventsProcessed`, `RunsSettle`, `AllAnswered`), which is out of the
prover's reach, as is `ENABLED`; the variants and the absence of endless waits it rests
on are proved. TLC has also checked, on the same instances, each of the theorems that
state no property of a run. The findings are counterexamples of TLC.

## 7. What is abstracted or left out

- Time: an event is due at any moment, so the back-off of retries and the sixty
  seconds before a republication are covered by every delay. Links, grants and
  sessions expire at any moment.
- In `Runs` a repeated request that hits its idempotency record returns early and
  changes nothing, and one with an outdated `expected_version` is refused; neither has an
  action. The races of the look-up are in `ApprovalLocks`.
- `run.state.status` repeats the status of the run and is dropped.
- The rows of an import: its outcome is free when it is executed first and whenever
  another configuration has been applied since, and the same when it is repeated under the same
  one, as rows are only added and are checked against the configuration.
- A material that changed under an open approval makes the decision a 409; the
  project then waits for a cancellation. The model refuses the step in the same way.
- Texts, prompts, retrieval ranking, artifacts, remediation items, feedback and the
  audit log: no other state depends on them.
- The engine that sequences nodes inside a worker (LangGraph), Celery and Redis are
  external: modelled from how `worker.py` uses them.
- Departments, quotas, employee numbers, names, listings and the parsing of an import
  file: records nothing modelled depends on.
- The number of administrators of a company. Two transfers at once can leave a company
  without one, but so can its last administrator, who may give up the role alone: the
  code promises no more.

Components without a module:

- Mail queue: a table drained by one task. No other state depends on what is sent;
  a crash between send and commit sends mail twice, which nothing forbids.
- Rate limiter: counters in Redis that refuse a request before it begins. The handlers
  of the models are those it lets through.
- Knowledge base: uploads take their version under the lock of the company, one
  transaction each; retrieval is text scoring.
- Clean-up and purge of deleted projects: one transaction each that deletes rows of a
  project nobody can open any more. A purge fails for a project whose runs have outbox
  events or artifacts, by the foreign keys; that is a matter of one step.
- Intelligence and evaluation (calls of a language model), configuration, database
  set-up, observability, the web client, and migrations other than the policies
  `ProjectAccess` takes from them: no protocol of their own.
