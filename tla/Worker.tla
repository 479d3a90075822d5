------------------------------- MODULE Worker -------------------------------
(***************************************************************************)
(* The execution side of backend/worker.py over the rows of Runs: the beat *)
(* task publishes outbox events to the broker, workers take the messages   *)
(* and run the workflow one node per transaction.  A message may be lost,  *)
(* duplicated and redelivered; a worker may crash between any two          *)
(* transactions.  The row lock on the event is held by one worker from     *)
(* Take to the end and is lost with it.                                    *)
(*                                                                         *)
(* In inline execution there are no events and this side never acts: Spec  *)
(* is the specification of both modes.                                     *)
(***************************************************************************)
EXTENDS Runs, Bags

CONSTANTS
  Workers,      \* worker processes
  MaxCopies,    \* bound: messages of one event waiting in the broker
  MaxFaults     \* bound: crashes, lost messages and failures retried, together

ASSUME WorkerAssumption == MaxCopies \in Nat /\ MaxFaults \in Nat

VARIABLES
  broker,       \* bag of the events in the messages waiting
  worker,       \* worker -> what it is doing, for which event
  faults        \* crashes, losses and retried failures so far

workerVars == <<broker, worker, faults>>
vars == <<project, runs, approvals, jobs, workspace, outbox, access, req,
          broker, worker, faults>>

MaxAttempts == 3
MaxEvents == 6 * MaxRuns     \* a start, four approvals and a validated import a run
ExecutingUnlessFailed(k) == runs[k].status # "failed"
Executing(k) == runs[k].status \in {"pending", "running"}

(* Where a worker is: "step" before a node, "done" and "failed" before the *)
(* last commit of the event, "failing" before the run is marked failed.    *)
WorkerState == [pc : {"idle", "step", "done", "failing", "failed"}, event : Nat]
IdleWorker == [pc |-> "idle", event |-> 0]
Holds(w, e) == worker[w].pc # "idle" /\ worker[w].event = e
Locked(e) == \E w \in Workers : Holds(w, e)
At(w, pc) == worker[w].pc = pc
Goto(w, pc) == worker' = [worker EXCEPT ![w].pc = pc]
Release(w) == worker' = [worker EXCEPT ![w] = IdleWorker]

Copies(e) == IF BagIn(e, broker) THEN broker[e] ELSE 0
EventOf(w) == outbox[worker[w].event]

(* actor_context: the actor is a member of the company the project is of.  *)
ActorActive(e) == access[e.actor] # "none" /\ e.actor \notin Partners

-----------------------------------------------------------------------------
DueOnce(e) == ~outbox[e].processed /\ outbox[e].attempts = 0
Due(e) == ~outbox[e].processed

(* publish: unprocessed and due.  Time is not modelled: an event is due    *)
(* whenever the beat task finds it.                                        *)
Publish(e) ==
  /\ Due(e)
  /\ ~Locked(e)
  /\ Copies(e) < MaxCopies
  /\ broker' = broker (+) SetToBag({e})
  /\ UNCHANGED <<runsVars, worker, faults>>

(* A message the broker loses, or whose consumer finds the row locked by   *)
(* the publisher that has not committed yet.                               *)
Lose(e) ==
  /\ BagIn(e, broker)
  /\ faults < MaxFaults
  /\ broker' = broker (-) SetToBag({e})
  /\ faults' = faults + 1
  /\ UNCHANGED <<runsVars, worker>>

(* A duplicate: the event is another worker's or done with.                *)
Skip(w, e) ==
  /\ At(w, "idle") /\ BagIn(e, broker)
  /\ Locked(e) \/ outbox[e].processed
  /\ broker' = broker (-) SetToBag({e})
  /\ UNCHANGED <<runsVars, worker, faults>>

(* The event is locked and the graph entered at next_node of the run.      *)
Take(w, e) ==
  /\ At(w, "idle") /\ BagIn(e, broker)
  /\ ~Locked(e) /\ ~outbox[e].processed
  /\ ActorActive(outbox[e])
  /\ broker' = broker (-) SetToBag({e})
  /\ worker' = [worker EXCEPT ![w] =
       [pc |-> IF Executing(outbox[e].run) THEN "step" ELSE "done", event |-> e]]
  /\ UNCHANGED <<runsVars, faults>>

(* The same, but the actor has lost the company membership: a 403.         *)
TakeRefused(w, e) ==
  /\ At(w, "idle") /\ BagIn(e, broker)
  /\ ~Locked(e) /\ ~outbox[e].processed
  /\ ~ActorActive(outbox[e])
  /\ broker' = broker (-) SetToBag({e})
  /\ worker' = [worker EXCEPT ![w] = [pc |-> "failing", event |-> e]]
  /\ UNCHANGED <<runsVars, faults>>

-----------------------------------------------------------------------------
(* step: one transaction, under the lock of the run                        *)

Begun(r) == IF r.status = "pending" THEN Moved(r, "running") ELSE r

StepNode(w) ==
  LET k == EventOf(w).run IN
  /\ At(w, "step")
  /\ ActorActive(EventOf(w))
  /\ Executing(k)
  /\ ~project.deleted
  /\ access[EventOf(w).actor] = "full"            \* run.start
  /\ Advance(k, Begun(runs[k]), project, project, approvals, jobs, TRUE)
  /\ Goto(w, IF runs'[k].status = "running" THEN "step" ELSE "done")
  /\ UNCHANGED <<outbox, access, req, broker, faults>>

(* Someone else stopped the run meanwhile.                                 *)
StepStopped(w) ==
  /\ At(w, "step")
  /\ ActorActive(EventOf(w))
  /\ ~Executing(EventOf(w).run)
  /\ Goto(w, "done")
  /\ UNCHANGED <<runsVars, broker, faults>>

StepDeleted(w) ==
  LET k == EventOf(w).run IN
  /\ At(w, "step")
  /\ ActorActive(EventOf(w))
  /\ Executing(k)
  /\ project.deleted
  /\ runs' = [runs EXCEPT ![k] = Moved(Begun(@), "cancelled")]
  /\ Goto(w, "done")
  /\ UNCHANGED <<project, approvals, jobs, workspace, outbox, access, req, broker, faults>>

-----------------------------------------------------------------------------
(* Failure of a step: its transaction is rolled back, the event keeps the  *)
(* count.  An HTTPException is final, anything else at the third attempt.  *)

FinalLate(e, http) == http \/ e.attempts >= MaxAttempts

Final(e, http) == http \/ e.attempts + 1 >= MaxAttempts

StepFails(w, http) ==
  /\ At(w, "step")
  /\ Final(EventOf(w), http)
  /\ Goto(w, "failing")
  /\ UNCHANGED <<runsVars, broker, faults>>

StepRetried(w) ==
  /\ At(w, "step")
  /\ ~Final(EventOf(w), FALSE)
  /\ faults < MaxFaults
  /\ faults' = faults + 1
  /\ outbox' = [outbox EXCEPT ![worker[w].event].attempts = @ + 1,
                              ![worker[w].event].error = TRUE]
  /\ Release(w)
  /\ UNCHANGED <<project, runs, approvals, jobs, workspace, access, req, broker>>

(* In a transaction of its own the run fails and its project is blocked,   *)
(* unless the actor has lost the membership: then nothing is touched.      *)
FailRun(w) ==
  LET k == EventOf(w).run IN
  /\ At(w, "failing")
  /\ \/ /\ ActorActive(EventOf(w)) /\ Executing(k)
        /\ runs' = [runs EXCEPT ![k] = Moved(Begun(@), "failed")]
        /\ project' = IF project.status = "in_progress" THEN Moved(project, "blocked")
                      ELSE project
     \/ /\ ~(ActorActive(EventOf(w)) /\ Executing(k))
        /\ UNCHANGED <<runs, project>>
  /\ Goto(w, "failed")
  /\ UNCHANGED <<approvals, jobs, workspace, outbox, access, req, broker, faults>>

CommitFailed(w) ==
  /\ At(w, "failed")
  /\ outbox' = [outbox EXCEPT ![worker[w].event].attempts = @ + 1,
                              ![worker[w].event].error = TRUE,
                              ![worker[w].event].processed = TRUE]
  /\ Release(w)
  /\ UNCHANGED <<project, runs, approvals, jobs, workspace, access, req, broker, faults>>

CommitDone(w) ==
  /\ At(w, "done")
  /\ outbox' = [outbox EXCEPT ![worker[w].event].error = FALSE,
                              ![worker[w].event].processed = TRUE]
  /\ Release(w)
  /\ UNCHANGED <<project, runs, approvals, jobs, workspace, access, req, broker, faults>>

(* The open transaction is rolled back and the message, acknowledged late, *)
(* is delivered again.                                                     *)
Crash(w) ==
  /\ ~At(w, "idle")
  /\ faults < MaxFaults
  /\ Release(w)
  /\ broker' = broker (+) SetToBag({worker[w].event})
  /\ faults' = faults + 1
  /\ UNCHANGED runsVars

-----------------------------------------------------------------------------

Init ==
  /\ RunsInit
  /\ broker = EmptyBag
  /\ worker = [w \in Workers |-> IdleWorker]
  /\ faults = 0

WorkerStep(w) ==
  \/ StepNode(w) \/ StepStopped(w) \/ StepDeleted(w)
  \/ StepRetried(w) \/ \E http \in BOOLEAN : StepFails(w, http)
  \/ FailRun(w) \/ CommitFailed(w) \/ CommitDone(w)

Receive(w, e) == Take(w, e) \/ TakeRefused(w, e) \/ Skip(w, e)

WorkerNext ==
  \/ \E e \in DOMAIN outbox : Publish(e) \/ Lose(e)
  \/ \E w \in Workers, e \in DOMAIN outbox : Receive(w, e)
  \/ \E w \in Workers : WorkerStep(w) \/ Crash(w)

Next ==
  \/ RunsNext /\ UNCHANGED workerVars
  \/ WorkerNext

Spec == Init /\ [][Next]_vars

(* The beat task publishes every due event, workers go on with what they   *)
(* hold and take what waits.  Losses, crashes and retried failures are     *)
(* finitely many; a client owes nothing.                                   *)
FairSpec ==
  /\ Spec
  /\ \A e \in 1 .. MaxEvents : WF_vars(e \in DOMAIN outbox /\ Publish(e))
  /\ \A w \in Workers : WF_vars(WorkerStep(w))
  /\ \A w \in Workers : WF_vars(\E e \in DOMAIN outbox : Receive(w, e))

-----------------------------------------------------------------------------
(* Properties *)

WorkersOK ==
  /\ IsABag(broker) /\ BagToSet(broker) \subseteq DOMAIN outbox
  /\ worker \in [Workers -> WorkerState]
  /\ \A w \in Workers : ~At(w, "idle") => worker[w].event \in DOMAIN outbox
  /\ faults \in 0 .. MaxFaults

(* The rows have their types and belong to a run there is; a request names *)
(* a run or job, a message and a busy worker an event, that exists.        *)
TypeOK == RowsOK /\ ClientsOK /\ WorkersOK

(* No wake-up is lost: in worker execution a run that is to execute has an *)
(* event still to be processed.  Only when its actor may not be a member   *)
(* of the company is it left with an event that failed for good and says   *)
(* so (worker.py: "The outbox failure remains visible").                   *)
ActiveRunHasEvent ==
  ExecutionMode = "worker" =>
    \A k \in DOMAIN runs : Executing(k) =>
      \E e \in DOMAIN outbox :
        /\ outbox[e].run = k
        /\ ~outbox[e].processed
           \/ (outbox[e].error /\ ("none" \in AccessLevels \/ Partners # {}))

(* A member of a collaborating company who has a role in the project may   *)
(* carry out its business actions (README): the run such a person starts   *)
(* is executed, or still has an event to be processed.                     *)
PartnersRunsExecute ==
  \A k \in DOMAIN runs :
    (Executing(k) /\ runs[k].startedBy \in Partners) =>
      \E e \in DOMAIN outbox : outbox[e].run = k /\ ~outbox[e].processed

(* A poisonous event is given up at its third failure, whichever workers   *)
(* and deliveries the failures came from, and is not tried again.          *)
GivenUpAtThird ==
  \A e \in DOMAIN outbox :
    /\ outbox[e].attempts <= MaxAttempts
    /\ outbox[e].attempts = MaxAttempts => outbox[e].processed

(* The outbox drains: whatever was dispatched is processed in the end.     *)
EventsProcessed == []<>(\A e \in DOMAIN outbox : outbox[e].processed)

FailureVisible(k) ==
  \E e \in DOMAIN outbox : outbox[e].run = k /\ outbox[e].processed /\ outbox[e].error

(* A run that is to execute comes to a gate, waits for materials or ends,  *)
(* or else a failure of it is visible for good: whatever is lost, crashes  *)
(* or is taken away from its actor, no run is left silently executing.     *)
RunsSettle ==
  \A k \in 1 .. MaxRuns :
    (k \in DOMAIN runs /\ Executing(k)) ~>
      (k \in DOMAIN runs /\ (~Executing(k) \/ FailureVisible(k)))

(* Approvals of a run by someone independent of what they are about.       *)
GrantedTo(k) ==
  {a \in DOMAIN approvals :
     approvals[a].run = k /\ approvals[a].status = "approved" /\ Independent(a)}

(* The rows keep the promise of Gatekeeper: nodes done are the AgentSteps  *)
(* of a run, gates granted its approvals by someone independent, live runs *)
(* those cancel_run would cancel.                                          *)
Gatekeeping == INSTANCE Gatekeeper WITH
  LastNode <- CloseProject,
  Gates    <- {PlanApproval, ConfigurationApproval, ImportApproval, AcceptanceApproval},
  done     <- [k \in DOMAIN runs |-> Len(runs[k].steps)],
  granted  <- [k \in DOMAIN runs |-> {approvals[a].kind : a \in GrantedTo(k)}],
  live     <- {k \in DOMAIN runs : Going(k)}

GatesKept == Gatekeeping!Spec
=============================================================================
