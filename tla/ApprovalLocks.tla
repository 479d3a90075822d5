---------------------------- MODULE ApprovalLocks ----------------------------
(***************************************************************************)
(* The requests about a run that waits at its configuration approval, one  *)
(* SQL statement at a time: decide and cancel_run of backend/main.py and   *)
(* revise_configuration of backend/delivery_routes.py, the row locks they  *)
(* take in different orders, the database that aborts one of a deadlock,   *)
(* and the idempotency record that a repeated request finds.               *)
(*                                                                         *)
(* A client asks once and may send the request again, also while an        *)
(* earlier copy is still at work.  Keys are unique to a request, as the    *)
(* API demands of its clients.                                             *)
(***************************************************************************)
EXTENDS Naturals, Sequences, FiniteSets

CONSTANTS
  Keys,           \* requests, by their Idempotency-Key
  Tx,             \* bound: the transactions that carry out copies of the requests
  Key,            \* transaction -> the key of its request
  Nobody,         \* the holder of a row nobody has locked
  MaxApprovals    \* bound: approvals open when a proposal is revised

ASSUME LocksAssumption ==
  /\ IsFiniteSet(Keys) /\ Key \in [Tx -> Keys]
  /\ Nobody \notin Tx /\ MaxApprovals \in Nat \ {0}

VARIABLES
  run,          \* the run: status and version
  approvals,    \* statuses of its approvals in the order of creation
  asked,        \* key -> what the client asks
  lock,         \* row -> the transaction that has locked it
  tx,           \* transaction -> the statement it is at and what it has loaded
  records,      \* keys with a committed IdempotencyRecord
  answer,       \* transaction -> the answer of the API
  effects       \* history: key -> how often it has taken effect

lockVars == <<run, approvals, asked, lock, tx, records, answer, effects>>

RunRow == 0
Rows == 0 .. MaxApprovals
RunStatus == {"waiting_approval", "running", "failed", "cancelled"}
Operation == {"approved", "rejected", "cancel", "revise"}
Decision == {"approved", "rejected"}
Statement == {"idle", "lookup", "readRun", "lockRun", "find", "lockApproval", "commit", "over"}
NotAsked == [op |-> "none"]
Asked == [op : Operation, of : 1 .. MaxApprovals, version : Nat]

Op(t) == asked[Key[t]].op
At(t, pc) == tx[t].pc = pc
Goto(t, pc) == tx' = [tx EXCEPT ![t].pc = pc]
Latest == Len(approvals)

(* The row a transaction asks the lock of, and whether it must wait.       *)
Wanted(t) == IF At(t, "lockRun") THEN RunRow ELSE tx[t].row
Waits(t) == tx[t].pc \in {"lockRun", "lockApproval"} /\ lock[Wanted(t)] \notin {Nobody, t}
AcquireWithoutWaiting(t) == lock' = [lock EXCEPT ![Wanted(t)] = t]
Acquire(t) == lock[Wanted(t)] \in {Nobody, t} /\ lock' = [lock EXCEPT ![Wanted(t)] = t]

EndHoldingLocks(t, outcome) ==
  /\ tx' = [tx EXCEPT ![t] = [pc |-> "over", row |-> 0, seen |-> "none"]]
  /\ answer' = [answer EXCEPT ![t] = outcome]
  /\ UNCHANGED lock

(* The transaction ends: its locks go with it.                             *)
End(t, outcome) ==
  /\ lock' = [r \in Rows |-> IF lock[r] = t THEN Nobody ELSE lock[r]]
  /\ tx' = [tx EXCEPT ![t] = [pc |-> "over", row |-> 0, seen |-> "none"]]
  /\ answer' = [answer EXCEPT ![t] = outcome]
RollBack(t, outcome) ==
  End(t, outcome) /\ UNCHANGED <<run, approvals, asked, records, effects>>

-----------------------------------------------------------------------------
(* The client *)

Ask(k, op, a) ==
  /\ asked[k] = NotAsked
  /\ a \in DOMAIN approvals
  /\ op = "revise" => Latest + Cardinality({j \in Keys : asked[j].op = "revise"}) < MaxApprovals
  /\ asked' = [asked EXCEPT ![k] = [op |-> op, of |-> a, version |-> run.version]]
  /\ UNCHANGED <<run, approvals, lock, tx, records, answer, effects>>

(* revise_configuration takes no key and starts with the lock of the run.  *)
Send(t) ==
  /\ asked[Key[t]] # NotAsked /\ At(t, "idle")
  /\ tx' = [tx EXCEPT ![t] = [pc |-> IF Op(t) = "revise" THEN "lockRun" ELSE "lookup",
                              row |-> asked[Key[t]].of, seen |-> "none"]]
  /\ UNCHANGED <<run, approvals, asked, lock, records, answer, effects>>

-----------------------------------------------------------------------------
(* Statements *)

(* idempotent(): a request that has been carried out gets its answer again.*)
Replay(t) == At(t, "lookup") /\ Key[t] \in records /\ RollBack(t, "done")

LookUp(t) ==
  /\ At(t, "lookup") /\ Key[t] \notin records
  /\ Goto(t, IF Op(t) = "cancel" THEN "readRun" ELSE "lockApproval")
  /\ UNCHANGED <<run, approvals, asked, lock, records, answer, effects>>

(* The run is loaded without a lock: by cancel_run before it locks the run *)
(* (which does not load it again), by decide under the approval's lock.    *)
ReadRun(t) ==
  /\ At(t, "readRun")
  /\ tx' = [tx EXCEPT ![t].pc = "lockRun", ![t].seen = run.status]
  /\ UNCHANGED <<run, approvals, asked, lock, records, answer, effects>>

(* decide writes the run, cancel_run and revise_configuration select it    *)
(* for update; revise_configuration loads it here for the first time.      *)
RunFits(t) ==
  CASE Op(t) \in Decision -> tx[t].seen = "waiting_approval"
    [] Op(t) = "cancel" -> tx[t].seen \in {"waiting_approval", "running"}
    [] Op(t) = "revise" -> run.status = "waiting_approval" /\ run.version = asked[Key[t]].version

LockRun(t) ==
  /\ At(t, "lockRun") /\ RunFits(t)
  /\ Acquire(t)
  /\ Goto(t, IF Op(t) \in Decision THEN "commit" ELSE "find")
  /\ UNCHANGED <<run, approvals, asked, records, answer, effects>>

RunRefused(t) ==
  /\ At(t, "lockRun") /\ ~RunFits(t)
  /\ Op(t) \in Decision \/ ~Waits(t)
  /\ RollBack(t, "conflict")

(* The pending approval of the run, as the statement finds it.             *)
Find(t) ==
  /\ At(t, "find")
  /\ tx' = IF approvals[Latest] = "pending"
           THEN [tx EXCEPT ![t].pc = "lockApproval", ![t].row = Latest]
           ELSE [tx EXCEPT ![t].pc = "commit", ![t].row = 0]
  /\ Op(t) = "revise" => approvals[Latest] = "pending"
  /\ UNCHANGED <<run, approvals, asked, lock, records, answer, effects>>

LockApprovalAsItIs(t) ==
  /\ At(t, "lockApproval")
  /\ Acquire(t)
  /\ Goto(t, IF Op(t) \in Decision THEN "readRun" ELSE "commit")
  /\ UNCHANGED <<run, approvals, asked, records, answer, effects>>

(* decide selects the approval by its id, sees its latest state once it    *)
(* has the lock, and refuses one that is not pending.  cancel_run selects  *)
(* a pending one: if it is none any more the row drops out of the result.  *)
(* revise_configuration updates the row whatever it has become.            *)
LockApproval(t) ==
  /\ At(t, "lockApproval")
  /\ Op(t) \in Decision => approvals[tx[t].row] = "pending"
  /\ Acquire(t)
  /\ tx' = IF Op(t) = "cancel" /\ approvals[tx[t].row] # "pending"
           THEN [tx EXCEPT ![t].pc = "commit", ![t].row = 0]
           ELSE [tx EXCEPT ![t].pc = IF Op(t) \in Decision THEN "readRun" ELSE "commit"]
  /\ UNCHANGED <<run, approvals, asked, records, answer, effects>>

ApprovalRefused(t) ==
  /\ At(t, "lockApproval") /\ ~Waits(t)
  /\ Op(t) \in Decision /\ approvals[tx[t].row] # "pending"
  /\ RollBack(t, "conflict")

(* The unique constraint on the keys refuses what has been done already.   *)
Duplicate(t) == At(t, "commit") /\ Key[t] \in records /\ RollBack(t, "conflict")

OutcomeResumed(op) ==
  CASE op = "approved" -> "resumed" [] op = "rejected" -> "failed"
    [] op = "cancel" -> "cancelled" [] op = "revise" -> "waiting_approval"

Outcome(op) ==
  CASE op = "approved" -> "running" [] op = "rejected" -> "failed"
    [] op = "cancel" -> "cancelled" [] op = "revise" -> "waiting_approval"

Written(t) ==
  LET closed == IF tx[t].row = 0 THEN approvals
                ELSE [approvals EXCEPT ![tx[t].row] = IF Op(t) \in Decision THEN Op(t) ELSE "cancelled"]
  IN  IF Op(t) = "revise" THEN Append(closed, "pending") ELSE closed

CommitAgain(t) ==
  /\ At(t, "commit")
  /\ Op(t) = "revise" => Latest < MaxApprovals
  /\ run' = [status |-> Outcome(Op(t)), version |-> run.version + 1]
  /\ approvals' = Written(t)
  /\ records' = IF Op(t) = "revise" THEN records ELSE records \cup {Key[t]}
  /\ effects' = [effects EXCEPT ![Key[t]] = @ + 1]
  /\ End(t, "done")
  /\ UNCHANGED asked

Commit(t) ==
  /\ At(t, "commit") /\ Key[t] \notin records
  /\ Op(t) = "revise" => Latest < MaxApprovals    \* never waits: see Ask
  /\ run' = [status |-> Outcome(Op(t)), version |-> run.version + 1]
  /\ approvals' = Written(t)
  /\ records' = IF Op(t) = "revise" THEN records ELSE records \cup {Key[t]}
  /\ effects' = [effects EXCEPT ![Key[t]] = @ + 1]
  /\ End(t, "done")
  /\ UNCHANGED asked

(* The database aborts one of a set of transactions that wait for each     *)
(* other, and the API answers with an error of the server.                 *)
Deadlocked(t) ==
  \E S \in SUBSET {s \in Tx : Waits(s)} : t \in S /\ \A s \in S : lock[Wanted(s)] \in S
Abort(t) == Waits(t) /\ Deadlocked(t) /\ RollBack(t, "aborted")

Statements(t) ==
  \/ Replay(t) \/ LookUp(t) \/ ReadRun(t) \/ LockRun(t) \/ RunRefused(t) \/ Find(t)
  \/ LockApproval(t) \/ ApprovalRefused(t) \/ Duplicate(t) \/ Commit(t) \/ Abort(t)

LocksInit ==
  /\ run = [status |-> "waiting_approval", version |-> 1]
  /\ approvals = <<"pending">>
  /\ asked = [k \in Keys |-> NotAsked]
  /\ lock = [r \in Rows |-> Nobody]
  /\ tx = [t \in Tx |-> [pc |-> "idle", row |-> 0, seen |-> "none"]]
  /\ records = {}
  /\ answer = [t \in Tx |-> "none"]
  /\ effects = [k \in Keys |-> 0]

LocksNext ==
  \/ \E k \in Keys, op \in Operation, a \in 1 .. MaxApprovals : Ask(k, op, a)
  \/ \E t \in Tx : Send(t) \/ Statements(t)

LocksSpec == LocksInit /\ [][LocksNext]_lockVars /\ \A t \in Tx : WF_lockVars(Statements(t))

-----------------------------------------------------------------------------
(* Properties *)

(* Rows, locks and transactions are well formed.                           *)
LocksTypeOK ==
  /\ run \in [status : RunStatus, version : Nat]
  /\ approvals \in Seq(Decision \cup {"pending", "cancelled"})
  /\ asked \in [Keys -> Asked \cup {NotAsked}]
  /\ lock \in [Rows -> Tx \cup {Nobody}]
  /\ tx \in [Tx -> [pc : Statement, row : Rows, seen : RunStatus \cup {"none"}]]
  /\ records \subseteq Keys
  /\ answer \in [Tx -> {"none", "done", "conflict", "aborted"}]
  /\ effects \in [Keys -> Nat]

(* A run waits for an approval exactly while its latest one is open, and   *)
(* no earlier one is ever left open, although each handler locks one of    *)
(* the two rows first and loads the other without a lock.                  *)
OpenWhileWaiting ==
  \A a \in DOMAIN approvals :
    approvals[a] = "pending" <=> a = Latest /\ run.status = "waiting_approval"

(* A request takes effect at most once, however often it is sent, and a    *)
(* client that is told it is done is told the truth.                       *)
DoneOnce ==
  /\ \A k \in Keys : effects[k] <= 1
  /\ \A t \in Tx : answer[t] = "done" => effects[Key[t]] = 1

(* Whatever the order of the statements, the handlers act as if each were  *)
(* one step: the decision of Decisions, or nothing.                        *)
D == INSTANCE Decisions WITH run <- run.status
ActsAsOneStep == D!Spec

(* A transaction whose next statement is carried out now: it waits for no  *)
(* lock, or the database finds it in a deadlock and aborts it.             *)
CanGoOn(t) ==
  \/ tx[t].pc \in {"lookup", "readRun"}
  \/ At(t, "find") /\ (Op(t) = "revise" => approvals[Latest] = "pending")
  \/ At(t, "commit") /\ (Op(t) = "revise" => Latest < MaxApprovals)
  \/ At(t, "lockRun") /\ Op(t) \in Decision /\ ~RunFits(t)
  \/ tx[t].pc \in {"lockRun", "lockApproval"} /\ (~Waits(t) \/ Deadlocked(t))

WaitsFor(t, h) == Waits(t) /\ lock[Wanted(t)] = h

(* No handler of a request waits in vain: it goes on, or waits for one     *)
(* that goes on, or for one that waits for one that goes on.  In           *)
(* particular rows are never locked by a request that has ended, and the   *)
(* two orders in which main.py and delivery_routes.py lock the run and its *)
(* approval make no wait the database cannot end.                          *)
WaitsAreShort ==
  \A t \in Tx : ~At(t, "idle") /\ ~At(t, "over") =>
    \/ CanGoOn(t)
    \/ \E h \in Tx : WaitsFor(t, h) /\ (CanGoOn(h) \/ \E g \in Tx : WaitsFor(h, g) /\ CanGoOn(g))

(* Every request that is sent is answered: no waiting for locks is for     *)
(* ever, also when decide and cancel_run wait for each other.              *)
AllAnswered == \A t \in Tx : ~At(t, "idle") ~> At(t, "over")
=============================================================================
