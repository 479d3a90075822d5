---------------------------- MODULE EventProofs ----------------------------
(***************************************************************************)
(* Proofs about the outbox of Worker, for every value of the constants:    *)
(* whatever crashes, is lost or delivered twice, an event is given up at   *)
(* its third failure, and a run that is to execute has an event that will  *)
(* make it, or one that says why it will not.                              *)
(***************************************************************************)
EXTENDS RunProofs

-----------------------------------------------------------------------------
(* The inductive invariant *)

Busy(w) == ~At(w, "idle")

(* An event is held by one worker at most, and only while unprocessed.     *)
HeldByOne ==
  \A w \in Workers : Busy(w) =>
    /\ ~EventOf(w).processed
    /\ \A v \in Workers : Busy(v) /\ worker[v].event = worker[w].event => v = w

Counted ==
  \A e \in DOMAIN outbox :
    /\ outbox[e].attempts <= MaxAttempts
    /\ ~outbox[e].processed => outbox[e].attempts < MaxAttempts

(* The versions of a run under way have not passed its events by: a        *)
(* dispatch, which raises the version, finds no event of it yet.           *)
Keyed ==
  \A e \in DOMAIN outbox :
    Active(runs[outbox[e].run]) => outbox[e].version <= runs[outbox[e].run].version

AccessBound == \A u \in Users : access[u] \in AccessLevels

(* Somebody's run may lose its actor. *)
Loose == "none" \in AccessLevels \/ Partners # {}

(* The event has its run executed, or its failure is or will be visible.   *)
Wakes(e) ==
  \/ /\ ~outbox[e].processed
     /\ \A w \in Workers : Busy(w) /\ worker[w].event = e =>
          At(w, "step") \/ At(w, "failing") \/ (At(w, "failed") /\ Loose)
  \/ outbox[e].processed /\ outbox[e].error /\ Loose

Awake ==
  \A k \in DOMAIN runs : Executing(k) => \E e \in DOMAIN outbox : outbox[e].run = k /\ Wakes(e)

WorkerMode == ExecutionMode = "worker"

EventsGood ==
  IF WorkerMode THEN HeldByOne /\ Counted /\ Keyed /\ AccessBound /\ Awake ELSE outbox = <<>>

-----------------------------------------------------------------------------
(* Steps that touch no event and no worker *)

(* No run comes to life and none falls behind its events.                  *)
Calm ==
  /\ DOMAIN runs' = DOMAIN runs
  /\ \A k \in DOMAIN runs :
       /\ Active(runs'[k]) => Active(runs[k]) /\ runs[k].version <= runs'[k].version
       /\ runs'[k].status \in {"pending", "running"} => Executing(k)

LEMMA CalmType ==
  ASSUME Inv, Inv'
  PROVE  /\ \A e \in DOMAIN outbox :
              /\ outbox[e] \in Event /\ outbox[e].run \in DOMAIN runs
              /\ outbox[e].version \in Nat /\ outbox[e].attempts \in Nat
         /\ \A k \in DOMAIN runs : runs[k] \in Run /\ runs[k].version \in Nat
         /\ \A k \in DOMAIN runs' : runs'[k] \in Run /\ runs'[k].version \in Nat
<1>1. /\ runs \in Seq(Run) /\ outbox \in Seq(Event) /\ Refers(outbox, DOMAIN runs) /\ runs' \in Seq(Run)
  BY DEF Inv, TypeOK, RowsOK
<1>2. \A k \in DOMAIN runs : runs[k] \in Run
  BY <1>1
<1>3. \A k \in DOMAIN runs' : runs'[k] \in Run
  BY <1>1
<1>4. \A e \in DOMAIN outbox : outbox[e] \in Event /\ outbox[e].run \in DOMAIN runs
  BY <1>1 DEF Refers
<1>5. /\ \A r \in Run : r.version \in Nat
      /\ \A e \in Event : e.version \in Nat /\ e.attempts \in Nat
  BY DEF Run, Event
<1> QED
  BY <1>2, <1>3, <1>4, <1>5

(* Runs and access move while events and workers stay.                     *)
LEMMA CalmEvents ==
  ASSUME Inv, Inv', EventsGood, Calm, UNCHANGED <<outbox, worker>>,
         AccessBound => AccessBound'
  PROVE  EventsGood'
<1>1. CASE ~WorkerMode
  BY <1>1 DEF EventsGood, WorkerMode
<1>2. CASE WorkerMode
  <2>1. HeldByOne' /\ Counted'
    BY <1>2 DEF EventsGood, HeldByOne, Counted, Busy, At, EventOf
  <2>2. Keyed'
    <3> SUFFICES ASSUME NEW e \in DOMAIN outbox, Active(runs'[outbox[e].run])
                 PROVE  outbox[e].version <= runs'[outbox[e].run].version
      BY DEF Keyed
    <3>1. /\ outbox[e].version \in Nat /\ outbox[e].run \in DOMAIN runs
          /\ runs[outbox[e].run].version \in Nat /\ runs'[outbox[e].run].version \in Nat
      BY CalmType DEF Calm
    <3>2. /\ outbox[e].version <= runs[outbox[e].run].version
          /\ runs[outbox[e].run].version <= runs'[outbox[e].run].version
      BY <1>2, <3>1 DEF EventsGood, Keyed, Calm
    <3> QED
      BY <3>1, <3>2
  <2>3. \A e : Wakes(e)' <=> Wakes(e)
    BY DEF Wakes, Busy, At
  <2>4. Awake'
    BY <1>2, <2>3 DEF EventsGood, Awake, Calm, Executing
  <2> QED
    BY <1>2, <2>1, <2>2, <2>4 DEF EventsGood
<1> QED
  BY <1>1, <1>2

(* The event of a dispatch is new: the version of the run is.              *)
LEMMA DispatchEvents ==
  ASSUME Inv, Inv', EventsGood, UNCHANGED <<worker, access>>,
         NEW k \in 1 .. Len(runs) + 1, NEW r \in Run, NEW loaded, NEW p, NEW apps, NEW jbs,
         Dispatch(k, r, loaded, p, apps, jbs), Active(r),
         k \in DOMAIN runs => Active(runs[k]) /\ runs[k].version < r.version
  PROVE  EventsGood'
<1>1. CASE ~WorkerMode
  <2>1. ExecutionMode = "inline"
    BY <1>1, RunsAssumption DEF WorkerMode
  <2> QED
    BY <1>1, <2>1 DEF EventsGood, WorkerMode, Dispatch
<1>2. CASE WorkerMode
  <2> DEFINE row == NewEvent(k, r)
  <2>0. PICK new : new = Len(outbox) + 1
    OBVIOUS
  <2>1. WriteRun(k, r) /\ outbox' = IF HasEvent(k, r.version) THEN outbox ELSE Append(outbox, row)
    BY <1>2 DEF Dispatch, WorkerMode
  <2>2. OnlyRun(k) /\ runs'[k] = r
    BY <2>1, Rows, WriteRunType
  <2>3. HeldByOne /\ Counted /\ Keyed /\ AccessBound /\ Awake
    BY <1>2 DEF EventsGood
  <2>4. ~HasEvent(k, r.version)
    <3> SUFFICES ASSUME NEW e \in DOMAIN outbox, outbox[e].run = k, outbox[e].version = r.version
                 PROVE  FALSE
      BY DEF HasEvent
    <3>1. /\ k \in DOMAIN runs /\ outbox[e].version \in Nat /\ runs[k].version \in Nat
      BY CalmType
    <3>2. outbox[e].version <= runs[k].version /\ runs[k].version < r.version
      BY <2>3, <3>1 DEF Keyed
    <3>3. r.version \in Nat
      BY DEF Run
    <3> QED
      BY <3>1, <3>2, <3>3
  <2>5. row \in Event
    BY DEF NewEvent, Event, Run
  <2>6. /\ DOMAIN outbox' = DOMAIN outbox \cup {new} /\ new \notin DOMAIN outbox
        /\ \A e \in DOMAIN outbox : outbox'[e] = outbox[e]
        /\ outbox'[new] = row
    <3>1. outbox \in Seq(Event) /\ DOMAIN outbox = 1 .. Len(outbox) /\ Len(outbox) \in Nat
      BY LenProperties DEF Inv, TypeOK, RowsOK
    <3>2. /\ Append(outbox, row) \in Seq(Event) /\ Len(Append(outbox, row)) = Len(outbox) + 1
          /\ \A e \in 1 .. Len(outbox) : Append(outbox, row)[e] = outbox[e]
          /\ Append(outbox, row)[Len(outbox) + 1] = row
      BY <2>5, <3>1, AppendProperties
    <3>3. DOMAIN Append(outbox, row) = 1 .. Len(outbox) + 1
      BY <3>2, LenProperties
    <3> QED
      BY <2>0, <2>1, <2>4, <3>1, <3>2, <3>3
  <2>7. /\ row.run = k /\ row.version = r.version /\ ~row.processed /\ row.attempts = 0
    BY DEF NewEvent
  <2>8. \A w \in Workers : Busy(w) => worker[w].event \in DOMAIN outbox
    BY DEF Inv, TypeOK, WorkersOK, Busy
  <2> HIDE DEF row
  <2>9. HeldByOne'
    BY <2>3, <2>6, <2>8 DEF HeldByOne, Busy, At, EventOf
  <2>10. Counted'
    BY <2>3, <2>6, <2>7 DEF Counted, MaxAttempts
  <2>11. Keyed'
    <3> SUFFICES ASSUME NEW e \in DOMAIN outbox', Active(runs'[outbox'[e].run])
                 PROVE  outbox'[e].version <= runs'[outbox'[e].run].version
      BY DEF Keyed
    <3>1. r.version \in Nat
      BY DEF Run
    <3>2. CASE e = new
      BY <2>2, <2>6, <2>7, <3>1, <3>2
    <3>3. CASE e # new /\ outbox[e].run # k
      <4>1. e \in DOMAIN outbox /\ outbox'[e] = outbox[e] /\ outbox[e].run \in DOMAIN runs
        BY <2>6, <3>3, CalmType
      <4>2. runs'[outbox[e].run] = runs[outbox[e].run]
        BY <2>2, <3>3, <4>1 DEF OnlyRun
      <4> QED
        BY <2>3, <4>1, <4>2 DEF Keyed
    <3>4. CASE e # new /\ outbox[e].run = k
      <4>1. e \in DOMAIN outbox /\ outbox'[e] = outbox[e] /\ k \in DOMAIN runs
        BY <2>6, <3>4, CalmType
      <4>2. /\ outbox[e].version <= runs[k].version /\ runs[k].version < r.version
            /\ outbox[e].version \in Nat /\ runs[k].version \in Nat
        BY <2>3, <3>4, <4>1, CalmType DEF Keyed
      <4> QED
        BY <2>2, <3>1, <3>4, <4>1, <4>2
    <3> QED
      BY <3>2, <3>3, <3>4
  <2>12. Awake'
    <3>1. \A e \in DOMAIN outbox : Wakes(e) => Wakes(e)'
      BY <2>6 DEF Wakes, Busy, At
    <3>2. Wakes(new)'
      BY <2>6, <2>7, <2>8 DEF Wakes, Busy, At
    <3>3. ASSUME NEW i \in DOMAIN runs', i # k, runs'[i].status \in {"pending", "running"}
          PROVE  \E e \in DOMAIN outbox' : outbox'[e].run = i /\ Wakes(e)'
      <4>1. i \in DOMAIN runs /\ Executing(i)
        BY <2>2, <3>3 DEF OnlyRun, Executing
      <4> QED
        BY <2>3, <2>6, <3>1, <4>1 DEF Awake
    <3> QED
      BY <2>6, <2>7, <3>2, <3>3 DEF Awake, Executing
  <2>13. AccessBound'
    BY <2>3 DEF AccessBound
  <2> QED
    BY <1>2, <2>9, <2>10, <2>11, <2>12, <2>13 DEF EventsGood, WorkerMode
<1> QED
  BY <1>1, <1>2

-----------------------------------------------------------------------------
(* The steps of the API *)

LEMMA SameCalm ==
  ASSUME Inv, runs' = runs
  PROVE  Calm
<1>1. \A k \in DOMAIN runs : runs[k].version \in Nat
  BY Rows DEF Run
<1> QED
  BY <1>1 DEF Calm, Executing

LEMMA OneCalm ==
  ASSUME Inv, NEW k \in DOMAIN runs, OnlyRun(k),
         Active(runs'[k]) => Active(runs[k]) /\ runs[k].version <= runs'[k].version,
         runs'[k].status \in {"pending", "running"} => Executing(k)
  PROVE  Calm
<1>1. \A i \in DOMAIN runs : runs[i].version \in Nat
  BY Rows DEF Run
<1>2. DOMAIN runs' = DOMAIN runs /\ \A i \in DOMAIN runs : i # k => runs'[i] = runs[i]
  BY DEF OnlyRun
<1> QED
  BY <1>1, <1>2 DEF Calm, Executing

(* A run written back with a row of its own type.                          *)
LEMMA RowCalm ==
  ASSUME Inv, NEW k \in DOMAIN runs, NEW q \in Run, runs' = [runs EXCEPT ![k] = q],
         Active(q) => Active(runs[k]) /\ runs[k].version <= q.version,
         q.status \in {"pending", "running"} => Executing(k)
  PROVE  Calm
<1>1. OnlyRun(k) /\ runs'[k] = q
  BY Rows, UpdateType, LenProperties DEF OnlyRun
<1> QED
  BY <1>1, OneCalm

LEMMA StartEvents ==
  ASSUME Inv, Inv', EventsGood, NEW c \in Clients, CommitStart(c) \/ CommitRetry(c),
         UNCHANGED workerVars
  PROVE  EventsGood'
<1> DEFINE k == Latest + 1
<1>1. k = Len(runs) + 1 /\ k \in 1 .. Len(runs) + 1 /\ k \notin DOMAIN runs /\ Latest \in Nat
  BY Rows DEF Latest
<1>2. req[c] \in Request /\ UNCHANGED <<worker, access>>
  BY DEF Inv, TypeOK, ClientsOK, CommitStart, CommitRetry, workerVars
<1>3. \A u \in Users, retryOf \in Nat, job \in Nat :
        /\ Launched(NewRun(u, retryOf, job)) \in Run
        /\ Active(Launched(NewRun(u, retryOf, job)))
  <2> SUFFICES ASSUME NEW u \in Users, NEW retryOf \in Nat, NEW job \in Nat
               PROVE  /\ Launched(NewRun(u, retryOf, job)) \in Run
                      /\ Active(Launched(NewRun(u, retryOf, job)))
    OBVIOUS
  <2>1. Launched(NewRun(u, retryOf, job)) \in Run
    BY NewRunType
  <2>2. Launched(NewRun(u, retryOf, job)).status \in {"pending", "running"}
    BY DEF Launched, NewRun, Moved
  <2> QED
    BY <2>1, <2>2 DEF Active, ActiveStatuses
<1> HIDE DEF k
<1>4. ASSUME CommitStart(c) PROVE EventsGood'
  <2> DEFINE p       == req[c].loaded
             retryOf == IF Latest > 0 /\ runs[Latest].status \in {"failed", "cancelled"}
                        THEN Latest ELSE 0
             r       == Launched(NewRun(req[c].user, retryOf, 0))
  <2>1. req[c].user \in Users
    BY <1>2, <1>4 DEF CommitStart, Request
  <2>2. Dispatch(k, r, p, Moved(p, "in_progress"), approvals, jobs)
    BY <1>4 DEF CommitStart, k
  <2>3. r \in Run /\ Active(r)
    BY <1>1, <1>3, <2>1
  <2> HIDE DEF p, r
  <2> QED
    BY <1>1, <1>2, <2>2, <2>3, DispatchEvents
<1>5. ASSUME CommitRetry(c) PROVE EventsGood'
  <2> DEFINE jbs == Append(jobs, UploadedJob(k, TRUE))
             r   == Launched(NewRun(req[c].user, Latest, Len(jbs)))
  <2>1. req[c].user \in Users
    BY <1>2, <1>5 DEF CommitRetry, Request
  <2>2. Dispatch(k, r, project, Moved(project, "in_progress"), approvals, jbs)
    BY <1>5 DEF CommitRetry, k
  <2>3. Len(jbs) \in Nat
    BY <1>1, Uploaded
  <2> HIDE DEF jbs
  <2>4. r \in Run /\ Active(r)
    BY <1>1, <1>3, <2>1, <2>3
  <2> HIDE DEF r
  <2> QED
    BY <1>1, <1>2, <2>2, <2>4, DispatchEvents
<1> QED
  BY <1>4, <1>5

(* A run resumed: its version moves on, so the event of it is new.         *)
LEMMA ResumedVersion ==
  ASSUME NEW r \in Run, r.status \in {"waiting_approval", "preparing_materials"}
  PROVE  /\ Active(r)
         /\ Moved(r, "running") \in Run /\ Moved(r, "running").status = "running"
         /\ Moved(r, "running").state = r.state
         /\ r.version < Moved(r, "running").version
<1>1. "running" \in RunLifecycle
  BY DEF RunLifecycle
<1>2. Moved(r, "running").version = r.version + 1 /\ r.version \in Nat
  BY DEF Moved, Run
<1> QED
  BY <1>1, <1>2, MovedRunType DEF Active, ActiveStatuses

LEMMA ResumeEvents ==
  ASSUME Inv, Inv', EventsGood, NEW u \in Users, UNCHANGED workerVars
  PROVE  /\ \A a \in DOMAIN approvals : Approve(u, a) => EventsGood'
         /\ \A k \in DOMAIN runs : ValidateImport(u, k, TRUE) => EventsGood'
<1>0. UNCHANGED worker
  BY DEF workerVars
<1>1. ASSUME NEW a \in DOMAIN approvals, Approve(u, a) PROVE EventsGood'
  <2> DEFINE k    == approvals[a].run
             q    == [Moved(runs[k], "running") EXCEPT !.state.pending = 0]
             apps == Decided(a, u, "approved")
  <2>1. /\ Dispatch(k, q, project, project, apps, jobs) /\ UNCHANGED access
        /\ runs[k].status = "waiting_approval"
    BY <1>1 DEF Approve, Decidable
  <2>2. k \in DOMAIN runs /\ k \in 1 .. Len(runs) + 1 /\ runs[k] \in Run
    BY Rows DEF Refers
  <2>3. q \in Run /\ q.status = "running" /\ runs[k].version < q.version /\ Active(runs[k])
    <3>1. /\ Active(runs[k]) /\ Moved(runs[k], "running") \in Run
          /\ Moved(runs[k], "running").status = "running"
          /\ runs[k].version < Moved(runs[k], "running").version
          /\ Moved(runs[k], "running").state = runs[k].state /\ runs[k].state \in RunState
      BY <2>1, <2>2, ResumedVersion DEF Run
    <3> DEFINE m == Moved(runs[k], "running")
    <3> HIDE DEF m, k
    <3>2. q = [m EXCEPT !.state.pending = 0] /\ m \in Run /\ m.state \in RunState
      BY <3>1 DEF m
    <3>3. q \in Run /\ q.status = m.status /\ q.version = m.version
      BY <3>2 DEF Run, RunState
    <3> QED
      BY <3>1, <3>3 DEF m
  <2> HIDE DEF q, apps, k
  <2>4. Active(q)
    BY <2>3 DEF Active, ActiveStatuses
  <2> QED
    BY <1>0, <2>1, <2>2, <2>3, <2>4, DispatchEvents
<1>2. ASSUME NEW k \in DOMAIN runs, ValidateImport(u, k, TRUE) PROVE EventsGood'
  <2> DEFINE jbs == Append(jobs, UploadedJob(k, TRUE))
             q   == [Moved(runs[k], "running") EXCEPT !.state.job = Len(jbs)]
  <2>1. /\ Dispatch(k, q, project, project, approvals, jbs) /\ UNCHANGED access
        /\ runs[k].status = "preparing_materials"
    BY <1>2 DEF ValidateImport
  <2>2. k \in 1 .. Len(runs) + 1 /\ runs[k] \in Run
    BY Rows
  <2>3. Len(jbs) \in Nat
    BY <2>2, Uploaded
  <2> HIDE DEF jbs
  <2>4. q \in Run /\ q.status = "running" /\ runs[k].version < q.version /\ Active(runs[k])
    <3>1. /\ Active(runs[k]) /\ Moved(runs[k], "running") \in Run
          /\ Moved(runs[k], "running").status = "running"
          /\ runs[k].version < Moved(runs[k], "running").version
          /\ Moved(runs[k], "running").state = runs[k].state /\ runs[k].state \in RunState
      BY <2>1, <2>2, ResumedVersion DEF Run
    <3> DEFINE m == Moved(runs[k], "running")
    <3> HIDE DEF m
    <3>2. q = [m EXCEPT !.state.job = Len(jbs)] /\ m \in Run /\ m.state \in RunState
      BY <3>1 DEF m
    <3>3. q \in Run /\ q.status = m.status /\ q.version = m.version
      BY <2>3, <3>2 DEF Run, RunState
    <3> QED
      BY <3>1, <3>3 DEF m
  <2> HIDE DEF q
  <2>5. Active(q)
    BY <2>4 DEF Active, ActiveStatuses
  <2> QED
    BY <1>0, <2>1, <2>2, <2>4, <2>5, DispatchEvents
<1> QED
  BY <1>1, <1>2

LEMMA ApiCalm ==
  ASSUME Inv, RunsGood
  PROVE  /\ \A c \in Clients : CommitCancel(c) => Calm
         /\ \A u \in Users, a \in DOMAIN approvals : Reject(u, a) => Calm
         /\ \A u \in Users, k \in DOMAIN runs, p \in Revisions :
              ReviseConfiguration(u, k, p) => Calm
<1>1. ASSUME NEW c \in Clients, CommitCancel(c) PROVE Calm
  <2> DEFINE k == req[c].target
             l == req[c].loadedRun
             q == [runs[k] EXCEPT !.status = "cancelled", !.version = l.version + 1,
                                  !.state = [l.state EXCEPT !.pending = 0]]
  <2>1. k \in DOMAIN runs /\ l \in LoadedRun /\ runs[k] \in Run
    BY <1>1, Rows DEF CommitCancel, Inv, TypeOK, ClientsOK, Request
  <2>2. q \in Run /\ q.status = "cancelled"
    <3>1. [l.state EXCEPT !.pending = 0] \in RunState /\ l.version + 1 \in Nat
      BY <2>1 DEF LoadedRun, RunState
    <3> QED
      BY <2>1, <3>1 DEF Run, RunLifecycle
  <2>3. runs' = [runs EXCEPT ![k] = q]
    BY <1>1 DEF CommitCancel
  <2> HIDE DEF q, k, l
  <2> QED
    BY <2>1, <2>2, <2>3, RowCalm DEF Active, ActiveStatuses
<1>2. ASSUME NEW u \in Users, NEW a \in DOMAIN approvals, Reject(u, a) PROVE Calm
  <2> DEFINE k == approvals[a].run
             q == [Moved(runs[k], "failed") EXCEPT !.state.pending = 0]
  <2>1. WriteRun(k, q)
    BY <1>2 DEF Reject
  <2>2. k \in DOMAIN runs /\ k \in 1 .. Len(runs) + 1 /\ runs[k] \in Run
    BY Rows DEF Refers
  <2>3. q \in Run /\ q.status = "failed"
    <3>1. "failed" \in RunLifecycle /\ runs[k].state \in RunState
      BY <2>2 DEF Run, RunLifecycle
    <3>2. /\ Moved(runs[k], "failed") \in Run /\ Moved(runs[k], "failed").status = "failed"
          /\ Moved(runs[k], "failed").state = runs[k].state
      BY <2>2, <3>1, MovedRunType
    <3> DEFINE m == Moved(runs[k], "failed")
    <3> HIDE DEF m, k
    <3>3. q = [m EXCEPT !.state.pending = 0] /\ m \in Run /\ m.state \in RunState
      BY <3>1, <3>2 DEF m
    <3>4. q \in Run /\ q.status = m.status
      BY <3>3 DEF Run, RunState
    <3> QED
      BY <3>2, <3>4 DEF m
  <2> HIDE DEF q, k
  <2>4. OnlyRun(k) /\ runs'[k] = q
    BY <2>1, <2>2, <2>3, Rows, WriteRunType
  <2> QED
    BY <2>2, <2>3, <2>4, OneCalm DEF Active, ActiveStatuses
<1>3. ASSUME NEW u \in Users, NEW k \in DOMAIN runs, NEW p \in Revisions,
             ReviseConfiguration(u, k, p)
      PROVE  Calm
  <2> DEFINE s == [runs[k].state EXCEPT !.config = p, !.base = workspace.applied,
                                        !.pending = Len(approvals) + 1]
             q == [runs[k] EXCEPT !.state = s, !.version = runs[k].version + 1]
  <2>1. runs' = [runs EXCEPT ![k] = q]
    BY <1>3 DEF ReviseConfiguration
  <2>2. runs[k] \in Run /\ runs[k].state \in RunState
    BY Rows DEF Run
  <2>3. s \in RunState
    <3>1. p \in Proposals /\ workspace.applied \in Proposals /\ Len(approvals) + 1 \in Nat
      BY Rows DEF Proposals
    <3> QED
      BY <2>2, <3>1 DEF RunState
  <2> HIDE DEF s
  <2>4. /\ q \in Run /\ q.status = runs[k].status /\ q.version = runs[k].version + 1
        /\ runs[k].version \in Nat
    <3> DEFINE r == runs[k]
    <3>1. r \in Run /\ r.version + 1 \in Nat /\ r.version \in Nat
      BY <2>2 DEF Run
    <3> HIDE DEF r
    <3>2. LET row == [r EXCEPT !.state = s, !.version = r.version + 1]
          IN  row \in Run /\ row.status = r.status /\ row.version = r.version + 1
      BY <2>3, <3>1 DEF Run
    <3> QED
      BY <3>1, <3>2 DEF r
  <2>5. Active(q) => Active(runs[k]) /\ runs[k].version <= q.version
    BY <2>4 DEF Active
  <2>6. q.status \in {"pending", "running"} => Executing(k)
    BY <2>4 DEF Executing
  <2> HIDE DEF q
  <2> QED
    BY <2>1, <2>4, <2>5, <2>6, RowCalm
<1> QED
  BY <1>1, <1>2, <1>3

LEMMA ApiEvents ==
  ASSUME Inv, Inv', RunsGood, EventsGood, RunsNext, UNCHANGED workerVars
  PROVE  EventsGood'
<1>1. ASSUME UNCHANGED runs, UNCHANGED outbox, AccessBound => AccessBound'
      PROVE  EventsGood'
  BY <1>1, SameCalm, CalmEvents DEF workerVars
<1>2. ASSUME Calm, UNCHANGED <<outbox, access>> PROVE EventsGood'
  BY <1>2, CalmEvents DEF workerVars, AccessBound
<1>3. UNCHANGED access => (AccessBound => AccessBound')
  BY DEF AccessBound
<1>4. ASSUME NEW c \in Clients, NEW u \in Users
      PROVE  /\ BeginStart(c, u) => EventsGood'
             /\ \A k : BeginCancel(c, u, k) => EventsGood'
             /\ \A j : BeginRetry(c, u, j) => EventsGood'
  BY <1>1, <1>3 DEF BeginStart, BeginCancel, BeginRetry, dbVars
<1>5. ASSUME NEW c \in Clients PROVE Abandon(c) => EventsGood'
  BY <1>1, <1>3 DEF Abandon, dbVars
<1>6. ASSUME NEW u \in Users, NEW m
      PROVE  /\ ReviseMaterials(u, m) => EventsGood'
             /\ DeleteProject(u) => EventsGood'
             /\ RestoreProject(u) => EventsGood'
  BY <1>1, <1>3 DEF ReviseMaterials, DeleteProject, RestoreProject
<1>7. ASSUME NEW u \in Users, NEW level \in AccessLevels, ChangeAccess(u, level)
      PROVE  EventsGood'
  <2>1. UNCHANGED <<runs, outbox>> /\ access' = [access EXCEPT ![u] = level]
    BY <1>7 DEF ChangeAccess, dbVars
  <2>2. AccessBound => AccessBound'
    BY <2>1 DEF AccessBound, Inv, TypeOK, ClientsOK
  <2> QED
    BY <1>1, <2>1, <2>2
<1>8. ASSUME NEW u \in Users, NEW k \in DOMAIN runs, NEW valid \in BOOLEAN,
             ValidateImport(u, k, valid)
      PROVE  EventsGood'
  <2>1. CASE valid = FALSE
    BY <1>1, <1>3, <1>8, <2>1 DEF ValidateImport
  <2>2. CASE valid = TRUE
    BY <1>8, <2>2, ResumeEvents
  <2> QED
    BY <2>1, <2>2
<1>9. ASSUME NEW u \in Users, NEW j, NEW a, NEW result, ExecuteJob(u, j, a, result)
      PROVE  EventsGood'
  BY <1>1, <1>3, <1>9 DEF ExecuteJob
<1>10. ASSUME NEW u \in Users
       PROVE  /\ \A c \in Clients : CommitCancel(c) => EventsGood'
              /\ \A a \in DOMAIN approvals : Reject(u, a) => EventsGood'
              /\ \A k \in DOMAIN runs, p \in Revisions :
                   ReviseConfiguration(u, k, p) => EventsGood'
  <2>1. /\ \A c : CommitCancel(c) => UNCHANGED <<outbox, access>>
        /\ \A a : Reject(u, a) => UNCHANGED <<outbox, access>>
        /\ \A k, p : ReviseConfiguration(u, k, p) => UNCHANGED <<outbox, access>>
    BY DEF CommitCancel, Reject, ReviseConfiguration
  <2> QED
    BY <1>2, <2>1, ApiCalm
<1>11. Users # {}
  BY RunsAssumption
<1> QED
  BY <1>4, <1>5, <1>6, <1>7, <1>8, <1>9, <1>10, <1>11, StartEvents, ResumeEvents DEF RunsNext

-----------------------------------------------------------------------------
(* The steps of a worker *)

(* Worker w, holding event e or free to take it, goes to pc; if it lets    *)
(* the event go while the run is to execute, the event is left to be       *)
(* processed or says why it failed.                                        *)
Handles(w, e, pc) ==
  /\ e \in DOMAIN outbox /\ ~outbox[e].processed
  /\ \A v \in Workers : Busy(v) /\ worker[v].event = e => v = w
  /\ Busy(w) => worker[w].event = e
  /\ worker'[w].pc = pc /\ (pc # "idle" => worker'[w].event = e)
  /\ \A v \in Workers : v # w => worker'[v] = worker[v]
  /\ DOMAIN outbox' = DOMAIN outbox /\ (\A d \in DOMAIN outbox : d # e => outbox'[d] = outbox[d])
  /\ outbox'[e].run = outbox[e].run /\ outbox'[e].version = outbox[e].version
  /\ outbox'[e].attempts <= MaxAttempts
  /\ IF outbox'[e].processed THEN pc = "idle" ELSE outbox'[e].attempts < MaxAttempts

StaysAwake(w, e, pc) ==
  (/\ runs'[outbox[e].run].status \in {"pending", "running"}
   /\ At(w, "idle") \/ At(w, "step") \/ At(w, "failing") \/ (At(w, "failed") /\ Loose)) =>
    IF outbox'[e].processed THEN outbox'[e].error /\ Loose
    ELSE pc \in {"idle", "step", "failing"} \/ (pc = "failed" /\ Loose)

LEMMA HandledEvents ==
  ASSUME Inv, Inv', WorkerMode, EventsGood, Calm, UNCHANGED access,
         NEW w \in Workers, NEW e, NEW pc, Handles(w, e, pc), StaysAwake(w, e, pc)
  PROVE  EventsGood'
<1>1. HeldByOne /\ Counted /\ Keyed /\ AccessBound /\ Awake
  BY DEF EventsGood
<1>2. /\ e \in DOMAIN outbox /\ DOMAIN outbox' = DOMAIN outbox
      /\ \A d \in DOMAIN outbox : d # e => outbox'[d] = outbox[d]
      /\ \A v \in Workers : v # w => worker'[v] = worker[v]
      /\ worker'[w].pc = pc /\ (pc # "idle" => worker'[w].event = e)
      /\ \A v \in Workers : Busy(v) /\ worker[v].event = e => v = w
      /\ Busy(w) => worker[w].event = e
      /\ ~outbox[e].processed
  BY DEF Handles
<1>3. HeldByOne'
  <2> SUFFICES ASSUME NEW v \in Workers, worker'[v].pc # "idle"
               PROVE  /\ ~outbox'[worker'[v].event].processed
                      /\ \A x \in Workers :
                           worker'[x].pc # "idle" /\ worker'[x].event = worker'[v].event => x = v
    BY DEF HeldByOne, Busy, At, EventOf
  <2>1. CASE v = w
    <3>1. worker'[v].event = e /\ ~outbox'[e].processed
      BY <1>2, <2>1 DEF Handles
    <3>2. ASSUME NEW x \in Workers, worker'[x].pc # "idle", worker'[x].event = e PROVE x = w
      BY <1>2, <3>2 DEF Busy, At
    <3> QED
      BY <2>1, <3>1, <3>2
  <2>2. CASE v # w
    <3>1. worker'[v] = worker[v] /\ Busy(v) /\ worker[v].event # e
      BY <1>2, <2>2 DEF Busy, At
    <3>2. /\ ~outbox[worker[v].event].processed /\ worker[v].event \in DOMAIN outbox
          /\ \A x \in Workers : Busy(x) /\ worker[x].event = worker[v].event => x = v
      BY <1>1, <3>1 DEF HeldByOne, EventOf, Inv, TypeOK, WorkersOK, Busy
    <3>3. ~outbox'[worker'[v].event].processed
      BY <1>2, <3>1, <3>2
    <3>4. ASSUME NEW x \in Workers, worker'[x].pc # "idle", worker'[x].event = worker'[v].event
          PROVE  x = v
      BY <1>2, <3>1, <3>2, <3>4 DEF Busy, At
    <3> QED
      BY <3>3, <3>4
  <2> QED
    BY <2>1, <2>2
<1>4. Counted'
  BY <1>1, <1>2 DEF Counted, Handles
<1>5. \A d \in DOMAIN outbox : outbox'[d].run = outbox[d].run /\ outbox'[d].version = outbox[d].version
  BY <1>2 DEF Handles
<1>6. Keyed'
  <2> SUFFICES ASSUME NEW d \in DOMAIN outbox, Active(runs'[outbox[d].run])
               PROVE  outbox[d].version <= runs'[outbox[d].run].version
    BY <1>2, <1>5 DEF Keyed
  <2>1. /\ outbox[d].version \in Nat /\ outbox[d].run \in DOMAIN runs
        /\ runs[outbox[d].run].version \in Nat /\ runs'[outbox[d].run].version \in Nat
    BY CalmType DEF Calm
  <2>2. /\ outbox[d].version <= runs[outbox[d].run].version
        /\ runs[outbox[d].run].version <= runs'[outbox[d].run].version
    BY <1>1, <2>1 DEF Keyed, Calm
  <2> QED
    BY <2>1, <2>2
<1>7. AccessBound'
  BY <1>1 DEF AccessBound
<1>8. Awake'
  <2> SUFFICES ASSUME NEW k \in DOMAIN runs, runs'[k].status \in {"pending", "running"}
               PROVE  \E d \in DOMAIN outbox' : outbox'[d].run = k /\ Wakes(d)'
    BY DEF Awake, Executing, Calm
  <2>1. PICK d \in DOMAIN outbox : outbox[d].run = k /\ Wakes(d)
    BY <1>1 DEF Awake, Calm
  <2>2. CASE d = e
    <3>1. At(w, "idle") \/ At(w, "step") \/ At(w, "failing") \/ (At(w, "failed") /\ Loose)
      BY <1>2, <2>1, <2>2 DEF Wakes, Busy
    <3>2. IF outbox'[e].processed THEN outbox'[e].error /\ Loose
          ELSE pc \in {"idle", "step", "failing"} \/ (pc = "failed" /\ Loose)
      BY <2>1, <2>2, <3>1 DEF StaysAwake
    <3>3. ASSUME NEW v \in Workers, worker'[v].pc # "idle", worker'[v].event = e PROVE v = w
      BY <1>2, <3>3 DEF Busy, At
    <3>4. Wakes(e)'
      BY <1>2, <3>2, <3>3 DEF Wakes, Busy, At, Loose
    <3> QED
      BY <1>2, <1>5, <2>1, <2>2, <3>4
  <2>3. CASE d # e
    <3>1. outbox'[d] = outbox[d]
      BY <1>2, <2>3
    <3>2. ASSUME NEW v \in Workers, worker'[v].pc # "idle", worker'[v].event = d
          PROVE  worker'[v] = worker[v]
      BY <1>2, <2>3, <3>2
    <3>3. Wakes(d)'
      BY <2>1, <3>1, <3>2 DEF Wakes, Busy, At, Loose
    <3> QED
      BY <1>2, <2>1, <3>1, <3>3
  <2> QED
    BY <2>2, <2>3
<1> QED
  BY <1>3, <1>4, <1>6, <1>7, <1>8 DEF EventsGood, WorkerMode

(* What is known of the event a busy worker holds.                         *)
HeldEvent(w, e) ==
  /\ e \in DOMAIN outbox /\ outbox[e] \in Event /\ outbox[e].attempts \in Nat
  /\ outbox[e].attempts < MaxAttempts /\ ~outbox[e].processed
  /\ outbox[e].run \in DOMAIN runs
  /\ \A v \in Workers : Busy(v) /\ worker[v].event = e => v = w
  /\ worker[w].event = e /\ EventOf(w) = outbox[e]

LEMMA Holding ==
  ASSUME Inv, WorkerMode, EventsGood, NEW w \in Workers, Busy(w)
  PROVE  HeldEvent(w, worker[w].event)
<1> DEFINE e == worker[w].event
<1>1. e \in DOMAIN outbox
  BY DEF Inv, TypeOK, WorkersOK, Busy
<1>2. outbox[e] \in Event /\ outbox[e].attempts \in Nat /\ outbox[e].run \in DOMAIN runs
  <2>1. outbox \in Seq(Event) /\ Refers(outbox, DOMAIN runs)
    BY DEF Inv, TypeOK, RowsOK
  <2> HIDE DEF e
  <2>2. outbox[e] \in Event /\ outbox[e].run \in DOMAIN runs
    BY <1>1, <2>1 DEF Refers
  <2> QED
    BY <2>2 DEF Event
<1>3. ~outbox[e].processed /\ \A v \in Workers : Busy(v) /\ worker[v].event = e => v = w
  BY DEF EventsGood, HeldByOne, EventOf
<1>4. outbox[e].attempts < MaxAttempts
  BY <1>1, <1>3 DEF EventsGood, Counted
<1> QED
  BY <1>1, <1>2, <1>3, <1>4 DEF HeldEvent, EventOf

(* A busy worker goes on, the event left as it is.                         *)
LEMMA Goes ==
  ASSUME Inv, Inv', WorkerMode, EventsGood, Calm, UNCHANGED <<outbox, access>>,
         NEW w \in Workers, Busy(w), NEW pc, pc # "idle", Goto(w, pc),
         (/\ runs'[EventOf(w).run].status \in {"pending", "running"}
          /\ At(w, "step") \/ At(w, "failing") \/ (At(w, "failed") /\ Loose)) =>
            pc \in {"step", "failing"} \/ (pc = "failed" /\ Loose)
  PROVE  EventsGood'
<1> DEFINE e == worker[w].event
<1>1. HeldEvent(w, e)
  BY Holding
<1>2. /\ worker'[w].pc = pc /\ worker'[w].event = e
      /\ \A v \in Workers : v # w => worker'[v] = worker[v]
  BY DEF Goto, Inv, TypeOK, WorkersOK, WorkerState
<1> HIDE DEF e
<1>3. Handles(w, e, pc)
  <2>1. outbox[e].attempts <= MaxAttempts
    BY <1>1 DEF HeldEvent, MaxAttempts
  <2> QED
    BY <1>1, <1>2, <2>1 DEF HeldEvent, Handles
<1>4. StaysAwake(w, e, pc)
  BY <1>1, <1>2 DEF HeldEvent, StaysAwake, Busy
<1> QED
  BY <1>3, <1>4, HandledEvents

(* A busy worker lets its event go, written or not.                        *)
LEMMA Leaves ==
  ASSUME Inv, Inv', WorkerMode, EventsGood, UNCHANGED <<runs, access>>,
         NEW w \in Workers, Busy(w), Release(w), NEW attempts \in {0, 1}, NEW error, NEW processed,
         outbox' = [outbox EXCEPT ![worker[w].event] =
                      [outbox[worker[w].event] EXCEPT !.attempts = @ + attempts, !.error = error,
                                                      !.processed = processed]],
         ~processed => EventOf(w).attempts + attempts < MaxAttempts,
         (/\ processed /\ Executing(EventOf(w).run)
          /\ At(w, "step") \/ At(w, "failing") \/ (At(w, "failed") /\ Loose)) => error /\ Loose
  PROVE  EventsGood'
<1> DEFINE e == worker[w].event
<1>1. HeldEvent(w, e)
  BY Holding
<1>2. /\ worker'[w].pc = "idle"
      /\ \A v \in Workers : v # w => worker'[v] = worker[v]
  BY DEF Release, IdleWorker, Inv, TypeOK, WorkersOK
<1> HIDE DEF e
<1>3. /\ DOMAIN outbox' = DOMAIN outbox /\ (\A d \in DOMAIN outbox : d # e => outbox'[d] = outbox[d])
      /\ outbox'[e] = [outbox[e] EXCEPT !.attempts = @ + attempts, !.error = error,
                                        !.processed = processed]
  BY <1>1 DEF HeldEvent, e
<1>4. /\ outbox'[e].run = outbox[e].run /\ outbox'[e].version = outbox[e].version
      /\ outbox'[e].attempts = outbox[e].attempts + attempts
      /\ outbox'[e].error = error /\ outbox'[e].processed = processed
  BY <1>1, <1>3 DEF HeldEvent, Event
<1>5. outbox'[e].attempts <= MaxAttempts
  <2>1. outbox[e].attempts \in Nat /\ outbox[e].attempts < 3
    BY <1>1 DEF HeldEvent, MaxAttempts
  <2> QED
    BY <1>4, <2>1 DEF MaxAttempts
<1>6. Handles(w, e, "idle")
  BY <1>1, <1>2, <1>3, <1>4, <1>5 DEF HeldEvent, Handles
<1>7. StaysAwake(w, e, "idle")
  BY <1>1, <1>4 DEF HeldEvent, StaysAwake, Executing, Busy
<1> QED
  BY <1>6, <1>7, SameCalm, HandledEvents

LEMMA MessageEvents ==
  ASSUME Inv, Inv', EventsGood, NEW e \in DOMAIN outbox
  PROVE  /\ Publish(e) => EventsGood'
         /\ Lose(e) => EventsGood'
         /\ \A w \in Workers : Receive(w, e) => EventsGood'
<1>1. WorkerMode
  BY DEF EventsGood
<1>2. ASSUME UNCHANGED runsVars, UNCHANGED worker PROVE EventsGood'
  BY <1>2, SameCalm, CalmEvents DEF runsVars, AccessBound
<1>3. ASSUME NEW w \in Workers, NEW pc \in {"step", "done", "failing"}, At(w, "idle"),
             ~Locked(e), ~outbox[e].processed, UNCHANGED runsVars,
             worker' = [worker EXCEPT ![w] = [pc |-> pc, event |-> e]],
             Executing(outbox[e].run) => pc # "done"
      PROVE  EventsGood'
  <2>1. \A v \in Workers : ~(Busy(v) /\ worker[v].event = e)
    BY <1>3 DEF Locked, Holds, Busy, At
  <2>2. /\ worker'[w].pc = pc /\ worker'[w].event = e
        /\ \A v \in Workers : v # w => worker'[v] = worker[v]
    BY <1>3 DEF Inv, TypeOK, WorkersOK
  <2>3. outbox[e].attempts < MaxAttempts /\ outbox[e].attempts <= MaxAttempts
    BY <1>1, <1>3 DEF EventsGood, Counted
  <2>4. UNCHANGED <<outbox, runs, access>>
    BY <1>3 DEF runsVars
  <2>5. Handles(w, e, pc)
    BY <1>3, <2>1, <2>2, <2>3, <2>4 DEF Handles, Busy
  <2>6. StaysAwake(w, e, pc)
    BY <1>3, <2>4 DEF StaysAwake, Executing
  <2> QED
    BY <1>1, <2>4, <2>5, <2>6, SameCalm, HandledEvents
<1>4. Publish(e) => EventsGood'
  BY <1>2 DEF Publish
<1>5. Lose(e) => EventsGood'
  BY <1>2 DEF Lose
<1>6. ASSUME NEW w \in Workers, Receive(w, e) PROVE EventsGood'
  <2>1. CASE Skip(w, e)
    BY <1>2, <2>1 DEF Skip
  <2>2. CASE Take(w, e)
    <3> DEFINE pc == IF Executing(outbox[e].run) THEN "step" ELSE "done"
    <3>1. /\ At(w, "idle") /\ ~Locked(e) /\ ~outbox[e].processed /\ UNCHANGED runsVars
          /\ worker' = [worker EXCEPT ![w] = [pc |-> pc, event |-> e]]
      BY <2>2 DEF Take
    <3>2. pc \in {"step", "done", "failing"} /\ (Executing(outbox[e].run) => pc # "done")
      OBVIOUS
    <3> HIDE DEF pc
    <3> QED
      BY <1>3, <3>1, <3>2
  <2>3. CASE TakeRefused(w, e)
    BY <1>3, <2>3 DEF TakeRefused
  <2> QED
    BY <1>6, <2>1, <2>2, <2>3 DEF Receive
<1> QED
  BY <1>4, <1>5, <1>6

(* A version never goes back when a worker moves its run.                  *)
LEMMA MovedGrows ==
  ASSUME NEW r \in Run, NEW status \in RunLifecycle
  PROVE  /\ Begun(r) \in Run
         /\ r.version <= Begun(r).version
         /\ r.version <= Moved(Begun(r), status).version
<1>1. \A q \in Run, s \in RunLifecycle : q.version \in Nat /\ Moved(q, s).version \in Nat
                                        /\ q.version <= Moved(q, s).version
  BY DEF Moved, Run
<1>2. "running" \in RunLifecycle
  BY DEF RunLifecycle
<1>3. Begun(r) = r \/ Begun(r) = Moved(r, "running")
  BY DEF Begun
<1>4. Begun(r) \in Run
  BY BegunType
<1>5. r.version <= Begun(r).version /\ r.version \in Nat /\ Begun(r).version \in Nat
  BY <1>1, <1>2, <1>3, <1>4
<1>6. Begun(r).version <= Moved(Begun(r), status).version /\ Moved(Begun(r), status).version \in Nat
  BY <1>1, <1>4
<1> QED
  BY <1>4, <1>5, <1>6

LEMMA StepNodeEvents ==
  ASSUME Inv, Inv', EventsGood, WorkerMode, NEW w \in Workers, StepNode(w)
  PROVE  EventsGood'
<1> DEFINE k == EventOf(w).run
           r == Begun(runs[k])
<1>1. /\ Busy(w) /\ At(w, "step") /\ Executing(k)
      /\ Advance(k, r, project, project, approvals, jobs, TRUE)
      /\ Goto(w, IF runs'[k].status = "running" THEN "step" ELSE "done")
      /\ UNCHANGED <<outbox, access>>
  BY DEF StepNode, Busy, At
<1>2. k \in DOMAIN runs /\ k \in 1 .. Len(runs) + 1 /\ runs[k] \in Run
  BY <1>1, HeldRun DEF Busy
<1>3. r \in Run
  BY <1>2, BegunType
<1>4. PICK last \in StartIndex(r.state) .. CloseProject, ready \in BOOLEAN,
           result \in {"completed", "partial_failed"} :
        Segment(k, r, project, project, approvals, jobs, TRUE, last, ready, result)
  BY <1>1 DEF Advance
<1>5. \E recorded \in StartIndex(r.state) - 1 .. 17, done \in 0 .. 17,
         status \in RunLifecycle, pending \in Nat :
        /\ Outcome(k, r, approvals, last, recorded, done, status, pending)
        /\ RanFrom(runs'[k], r, last, recorded, done, status, pending)
        /\ OnlyRun(k)
  BY <1>2, <1>3, <1>4, Rows, AdvanceOutcome
<1> HIDE DEF k, r
<1>6. PICK status \in RunLifecycle :
        /\ status # "pending" /\ OnlyRun(k)
        /\ runs'[k].status = status /\ runs'[k].version = Moved(r, status).version
  <2>1. PICK recorded \in StartIndex(r.state) - 1 .. 17, done \in 0 .. 17,
             status \in RunLifecycle, pending \in Nat :
          /\ Outcome(k, r, approvals, last, recorded, done, status, pending)
          /\ RanFrom(runs'[k], r, last, recorded, done, status, pending)
          /\ OnlyRun(k)
    BY <1>5
  <2>2. status # "pending"
    BY <2>1 DEF Outcome
  <2> QED
    BY <2>1, <2>2 DEF RanFrom
<1>7. runs[k].version <= runs'[k].version
  BY <1>2, <1>6, MovedGrows DEF r
<1>8. Active(runs[k])
  BY <1>1 DEF Executing, Active, ActiveStatuses
<1>9. Calm
  BY <1>1, <1>2, <1>6, <1>7, <1>8, OneCalm
<1>10. runs'[k].status \in {"pending", "running"} => runs'[k].status = "running"
  BY <1>6
<1> DEFINE pc == IF runs'[k].status = "running" THEN "step" ELSE "done"
<1>11. Goto(w, pc) /\ pc # "idle" /\ (runs'[k].status \in {"pending", "running"} => pc = "step")
  BY <1>1, <1>10
<1> HIDE DEF pc
<1> QED
  BY <1>1, <1>9, <1>11, Goes DEF k

LEMMA StepEvents ==
  ASSUME Inv, Inv', EventsGood, WorkerMode, NEW w \in Workers
  PROVE  /\ StepStopped(w) => EventsGood'
         /\ StepDeleted(w) => EventsGood'
         /\ \A http \in BOOLEAN : StepFails(w, http) => EventsGood'
         /\ FailRun(w) => EventsGood'
<1> DEFINE k == EventOf(w).run
<1>1. ASSUME StepStopped(w) PROVE EventsGood'
  <2>1. Busy(w) /\ ~Executing(k) /\ Goto(w, "done") /\ UNCHANGED <<runs, outbox, access>>
    BY <1>1 DEF StepStopped, runsVars, Busy, At
  <2> QED
    BY <2>1, SameCalm, Goes DEF Executing
<1>2. ASSUME NEW http \in BOOLEAN, StepFails(w, http) PROVE EventsGood'
  <2>1. Busy(w) /\ Goto(w, "failing") /\ UNCHANGED <<runs, outbox, access>>
    BY <1>2 DEF StepFails, runsVars, Busy, At
  <2> QED
    BY <2>1, SameCalm, Goes
<1>3. ASSUME NEW status \in {"failed", "cancelled"}, Busy(w), Executing(k),
             runs' = [runs EXCEPT ![k] = Moved(Begun(@), status)]
      PROVE  Calm /\ runs'[k].status = status
  <2>1. k \in DOMAIN runs /\ runs[k] \in Run /\ Begun(runs[k]) \in Run /\ status \in RunLifecycle
    BY <1>3, HeldRun, BegunType DEF Busy, RunLifecycle
  <2> DEFINE q == Moved(Begun(runs[k]), status)
  <2>2. q \in Run /\ q.status = status
    BY <2>1, MovedRunType
  <2>3. runs' = [runs EXCEPT ![k] = q]
    BY <1>3
  <2>4. runs'[k] = q
    BY <2>1, <2>3
  <2> HIDE DEF q
  <2>5. ~Active(q) /\ q.status \notin {"pending", "running"}
    BY <2>2 DEF Active, ActiveStatuses
  <2> QED
    BY <2>1, <2>2, <2>3, <2>4, <2>5, RowCalm
<1>4. ASSUME StepDeleted(w) PROVE EventsGood'
  <2>1. /\ Busy(w) /\ Executing(k) /\ runs' = [runs EXCEPT ![k] = Moved(Begun(@), "cancelled")]
        /\ Goto(w, "done") /\ UNCHANGED <<outbox, access>>
    BY <1>4 DEF StepDeleted, Busy, At
  <2>2. Calm /\ runs'[k].status = "cancelled"
    BY <1>3, <2>1
  <2> QED
    BY <2>1, <2>2, Goes
<1>5. ASSUME FailRun(w) PROVE EventsGood'
  <2>1. Busy(w) /\ At(w, "failing") /\ Goto(w, "failed") /\ UNCHANGED <<outbox, access>>
    BY <1>5 DEF FailRun, Busy, At
  <2>2. CASE Executing(k) /\ runs' = [runs EXCEPT ![k] = Moved(Begun(@), "failed")]
    <3>1. Calm /\ runs'[k].status = "failed"
      BY <1>3, <2>1, <2>2
    <3> QED
      BY <2>1, <3>1, Goes
  <2>3. CASE ~(ActorActive(EventOf(w)) /\ Executing(k)) /\ UNCHANGED runs
    <3>1. Executing(k) => Loose
      <4> SUFFICES ASSUME ~ActorActive(EventOf(w)) PROVE Loose
        BY <2>3
      <4>1. EventOf(w).actor \in Users
        BY <2>1, HeldRun DEF Busy, Event
      <4>2. access[EventOf(w).actor] \in AccessLevels
        BY <4>1 DEF EventsGood, AccessBound
      <4> QED
        BY <4>1, <4>2 DEF ActorActive, Loose
    <3> QED
      BY <2>1, <2>3, <3>1, SameCalm, Goes DEF Executing
  <2> QED
    BY <1>5, <2>2, <2>3 DEF FailRun
<1> QED
  BY <1>1, <1>2, <1>4, <1>5

LEMMA LeaveEvents ==
  ASSUME Inv, Inv', EventsGood, WorkerMode, NEW w \in Workers
  PROVE  /\ StepRetried(w) => EventsGood'
         /\ CommitFailed(w) => EventsGood'
         /\ CommitDone(w) => EventsGood'
         /\ Crash(w) => EventsGood'
<1> DEFINE e == worker[w].event
<1>1. ASSUME Busy(w) PROVE HeldEvent(w, e)
  BY <1>1, Holding
<1>2. ASSUME StepRetried(w) PROVE EventsGood'
  <2>1. Busy(w) /\ Release(w) /\ UNCHANGED <<runs, access>> /\ ~Final(EventOf(w), FALSE)
        /\ outbox' = [outbox EXCEPT ![e].attempts = @ + 1, ![e].error = TRUE]
    BY <1>2 DEF StepRetried, Busy, At
  <2>2. HeldEvent(w, e)
    BY <1>1, <2>1
  <2>3. EventOf(w).attempts + 1 < MaxAttempts
    BY <2>1, <2>2 DEF Final, HeldEvent, MaxAttempts
  <2>4. outbox' = [outbox EXCEPT ![e] = [outbox[e] EXCEPT !.attempts = @ + 1, !.error = TRUE,
                                                          !.processed = FALSE]]
    <3> DEFINE row == outbox[e]
    <3>1. row \in Event /\ row.processed = FALSE
      BY <2>2 DEF HeldEvent, Event
    <3> HIDE DEF row
    <3>2. [row EXCEPT !.attempts = row.attempts + 1, !.error = TRUE] =
          [row EXCEPT !.attempts = row.attempts + 1, !.error = TRUE, !.processed = FALSE]
      BY <3>1 DEF Event
    <3> QED
      BY <2>1, <3>2 DEF row
  <2> QED
    BY <2>1, <2>3, <2>4, Leaves
<1>3. ASSUME CommitFailed(w) PROVE EventsGood'
  <2>1. /\ Busy(w) /\ At(w, "failed") /\ Release(w) /\ UNCHANGED <<runs, access>>
        /\ outbox' = [outbox EXCEPT ![e].attempts = @ + 1, ![e].error = TRUE, ![e].processed = TRUE]
    BY <1>3 DEF CommitFailed, Busy, At
  <2>2. outbox' = [outbox EXCEPT ![e] = [outbox[e] EXCEPT !.attempts = @ + 1, !.error = TRUE,
                                                          !.processed = TRUE]]
    BY <2>1
  <2>3. ~At(w, "step") /\ ~At(w, "failing")
    BY <2>1 DEF At
  <2> QED
    BY <2>1, <2>2, <2>3, Leaves
<1>4. ASSUME CommitDone(w) PROVE EventsGood'
  <2>1. /\ Busy(w) /\ At(w, "done") /\ Release(w) /\ UNCHANGED <<runs, access>>
        /\ outbox' = [outbox EXCEPT ![e].error = FALSE, ![e].processed = TRUE]
    BY <1>4 DEF CommitDone, Busy, At
  <2>2. HeldEvent(w, e)
    BY <1>1, <2>1
  <2>3. outbox' = [outbox EXCEPT ![e] = [outbox[e] EXCEPT !.attempts = @ + 0, !.error = FALSE,
                                                          !.processed = TRUE]]
    <3> DEFINE row == outbox[e]
    <3>1. row \in Event /\ row.attempts + 0 = row.attempts
      BY <2>2 DEF HeldEvent, Event
    <3> HIDE DEF row
    <3>2. [row EXCEPT !.error = FALSE, !.processed = TRUE] =
          [row EXCEPT !.attempts = row.attempts + 0, !.error = FALSE, !.processed = TRUE]
      BY <3>1 DEF Event
    <3> QED
      BY <2>1, <3>2 DEF row
  <2>4. ~At(w, "step") /\ ~At(w, "failing") /\ ~At(w, "failed")
    BY <2>1 DEF At
  <2> QED
    BY <2>1, <2>3, <2>4, Leaves
<1>5. ASSUME Crash(w) PROVE EventsGood'
  <2>1. Busy(w) /\ Release(w) /\ UNCHANGED <<runs, outbox, access>>
    BY <1>5 DEF Crash, runsVars, Busy
  <2>2. HeldEvent(w, e)
    BY <1>1, <2>1
  <2>3. EventOf(w).attempts + 0 < MaxAttempts
    BY <2>2 DEF HeldEvent, MaxAttempts
  <2>4. outbox' = [outbox EXCEPT ![e] = [outbox[e] EXCEPT !.attempts = @ + 0, !.error = outbox[e].error,
                                                          !.processed = FALSE]]
    <3> DEFINE row == outbox[e]
    <3>1. row \in Event /\ row.attempts + 0 = row.attempts /\ row.processed = FALSE
      BY <2>2 DEF HeldEvent, Event
    <3>2. row = [row EXCEPT !.attempts = row.attempts + 0, !.error = row.error, !.processed = FALSE]
      <4> HIDE DEF row
      <4> QED
        BY <3>1 DEF Event
    <3>3. outbox = [outbox EXCEPT ![e] = row]
      <4>1. outbox \in [1 .. Len(outbox) -> Event]
        BY DEF Inv, TypeOK, RowsOK
      <4> QED
        BY <4>1
    <3> QED
      BY <2>1, <3>2, <3>3
  <2> QED
    BY <2>1, <2>3, <2>4, Leaves
<1> QED
  BY <1>2, <1>3, <1>4, <1>5

LEMMA NextEvents ==
  ASSUME Inv, Inv', RunsGood, EventsGood, [Next]_vars
  PROVE  EventsGood'
<1>1. CASE UNCHANGED vars
  <2>1. UNCHANGED <<runs, outbox, worker, access>>
    BY <1>1 DEF vars
  <2> QED
    BY <2>1, SameCalm, CalmEvents DEF AccessBound
<1>2. CASE RunsNext /\ UNCHANGED workerVars
  BY <1>2, ApiEvents
<1>3. CASE WorkerNext
  <2>1. ASSUME NEW w \in Workers, WorkerStep(w) \/ Crash(w) PROVE EventsGood'
    <3>1. Busy(w)
      BY <2>1 DEF WorkerStep, StepNode, StepStopped, StepDeleted, StepRetried, StepFails, FailRun,
         CommitFailed, CommitDone, Crash, Busy, At
    <3>2. WorkerMode
      <4>1. worker[w].event \in DOMAIN outbox
        BY <3>1, HeldRun DEF Busy
      <4> QED
        BY <4>1 DEF EventsGood
    <3> QED
      BY <2>1, <3>2, StepNodeEvents, StepEvents, LeaveEvents DEF WorkerStep
  <2> QED
    BY <1>3, <2>1, MessageEvents DEF WorkerNext
<1> QED
  BY <1>1, <1>2, <1>3 DEF Next

LEMMA EventsAlways == Spec => []EventsGood
<1>1. Init => EventsGood
  <2> SUFFICES ASSUME Init PROVE EventsGood
    OBVIOUS
  <2>1. /\ outbox = <<>> /\ DOMAIN outbox = {} /\ runs = <<>> /\ DOMAIN runs = {}
        /\ access = [u \in Users |-> "full"] /\ worker = [w \in Workers |-> IdleWorker]
    BY DEF Init, RunsInit
  <2>2. \A w \in Workers : ~Busy(w)
    BY <2>1 DEF Busy, At, IdleWorker
  <2>3. AccessBound
    BY <2>1, RunsAssumption DEF AccessBound
  <2> QED
    BY <2>1, <2>2, <2>3 DEF EventsGood, HeldByOne, Counted, Keyed, Awake
<1>2. Inv /\ Inv' /\ RunsGood /\ EventsGood /\ [Next]_vars => EventsGood'
  BY NextEvents
<1> QED
  BY <1>1, <1>2, GoodAlways, PTL DEF Spec

-----------------------------------------------------------------------------
(* The theorems about the outbox *)

(* A poisonous event is given up at its third failure, whichever workers   *)
(* and deliveries the failures came from (execute_workflow_event).         *)
THEOREM EventsAreGivenUp == Spec => []GivenUpAtThird
<1>1. EventsGood => GivenUpAtThird
  <2>1. CASE ~WorkerMode
    BY <2>1 DEF EventsGood, GivenUpAtThird
  <2>2. CASE WorkerMode
    BY <2>2 DEF EventsGood, Counted, GivenUpAtThird, MaxAttempts
  <2> QED
    BY <2>1, <2>2
<1> QED
  BY <1>1, EventsAlways, PTL

(* No wake-up is lost: a run that is to execute has an event still to be   *)
(* processed, or where its actor may lose the company an event that failed *)
(* for good and says so, whatever crashes, is lost, delivered twice or     *)
(* decided meanwhile (dispatch, execute_workflow_event).                   *)
THEOREM NoWakeUpIsLost == Spec => []ActiveRunHasEvent
<1>1. EventsGood => ActiveRunHasEvent
  <2> SUFFICES ASSUME EventsGood, WorkerMode, NEW k \in DOMAIN runs, Executing(k)
               PROVE  \E e \in DOMAIN outbox :
                        /\ outbox[e].run = k
                        /\ ~outbox[e].processed \/ (outbox[e].error /\ Loose)
    BY DEF ActiveRunHasEvent, WorkerMode, Loose
  <2> QED
    BY DEF EventsGood, Awake, Wakes
<1> QED
  BY <1>1, EventsAlways, PTL

-----------------------------------------------------------------------------
(* A worker's transaction does one node *)

OneNodeDone(w) ==
  LET before == runs[EventOf(w).run]
      after  == runs'[EventOf(w).run]
  IN  /\ before.status \in {"pending", "running"}
      /\ \/ after.steps = Append(before.steps, Len(before.steps) + 1)
         \/ after.steps = before.steps /\ after.status = "preparing_materials"

LEMMA StepDoesOneNode ==
  ASSUME Inv, RunsGood, NEW w \in Workers, StepNode(w)
  PROVE  OneNodeDone(w)
<1> DEFINE k     == EventOf(w).run
           r     == Begun(runs[k])
           first == Len(runs[k].steps) + 1
<1>1. ~At(w, "idle") /\ Executing(k) /\ Advance(k, r, project, project, approvals, jobs, TRUE)
  BY DEF StepNode, At
<1>2. /\ k \in DOMAIN runs /\ k \in 1 .. Len(runs) + 1 /\ runs[k] \in Run
      /\ runs[k].status \in {"pending", "running"}
  <2>1. k \in DOMAIN runs /\ k \in 1 .. Len(runs) + 1 /\ runs[k] \in Run
    BY <1>1, HeldRun
  <2> QED
    BY <1>1, <2>1 DEF Executing
<1>3. r \in Run /\ r.steps = runs[k].steps /\ r.state = runs[k].state
  <2>1. Begun(runs[k]) \in Run
    BY <1>2, BegunType
  <2> HIDE DEF k
  <2> QED
    BY <1>2, <2>1 DEF Begun, Moved, Run
<1>4. InOrder(runs[k]) /\ Active(runs[k])
  <2> HIDE DEF k
  <2> QED
    BY <1>2 DEF RunsGood, Good, Active, ActiveStatuses
<1>5. StartIndex(r.state) = first /\ runs[k].steps \in Seq(Nodes)
  BY <1>2, <1>3, <1>4 DEF InOrder, Run
<1> HIDE DEF r, k
<1>6. PICK last \in StartIndex(r.state) .. CloseProject, ready \in BOOLEAN,
           result \in {"completed", "partial_failed"} :
        Segment(k, r, project, project, approvals, jobs, TRUE, last, ready, result)
  BY <1>1 DEF Advance
<1>7. /\ StartIndex(r.state) \in 1 .. 18
      /\ \E recorded \in StartIndex(r.state) - 1 .. 17, done \in 0 .. 17,
            status \in RunLifecycle, pending \in Nat :
           /\ Outcome(k, r, approvals, last, recorded, done, status, pending)
           /\ RanFrom(runs'[k], r, last, recorded, done, status, pending)
  <2>1. RowsOK /\ project \in Project /\ approvals \in Seq(Approval)
    BY Rows
  <2> QED
    BY <1>2, <1>3, <1>6, <2>1, AdvanceOutcome
<1>8. last = first
  <2>1. \A n \in first .. last - 1 : FALSE
    BY <1>5, <1>6 DEF Segment
  <2>2. first \in 1 .. 18 /\ last \in first .. 17
    BY <1>5, <1>6, <1>7 DEF CloseProject
  <2> HIDE DEF first
  <2> QED
    BY <2>1, <2>2
<1>9. PICK recorded, done, status, pending :
        /\ Outcome(k, r, approvals, last, recorded, done, status, pending)
        /\ RanFrom(runs'[k], r, last, recorded, done, status, pending)
  BY <1>7
<1>10. /\ runs'[k].steps = runs[k].steps \o NewSteps(first, recorded)
       /\ runs'[k].status = status
       /\ recorded = first \/ (recorded = first - 1 /\ status = "preparing_materials")
  BY <1>3, <1>5, <1>8, <1>9 DEF Outcome, RanFrom
<1>11. first \in 1 .. 18
  BY <1>5, <1>7
<1> HIDE DEF first
<1>12. NewSteps(first, first) = <<first>> /\ NewSteps(first, first - 1) = <<>>
  BY <1>11 DEF NewSteps
<1>13. /\ runs[k].steps \o <<first>> = Append(runs[k].steps, first)
       /\ runs[k].steps \o <<>> = runs[k].steps
  BY <1>5
<1>14. \/ runs'[k].steps = Append(runs[k].steps, first)
       \/ runs'[k].steps = runs[k].steps /\ runs'[k].status = "preparing_materials"
  BY <1>10, <1>12, <1>13
<1> QED
  BY <1>2, <1>14 DEF k, first, OneNodeDone

(* Every transaction of a worker takes its run one node further, and       *)
(* records it, or finds the materials of an import missing and lets the    *)
(* run wait for them: none is spent on a node already done, so that a run  *)
(* takes at most as many as the workflow has nodes from one gate or upload *)
(* to the next (step, advance_one).  This is what the liveness of the      *)
(* workers rests on once they are scheduled.                               *)
THEOREM EveryStepAdvances ==
  Spec => [][\A w \in Workers : StepNode(w) => OneNodeDone(w)]_vars
<1>1. Inv /\ RunsGood /\ [Next]_vars =>
        [\A w \in Workers : StepNode(w) => OneNodeDone(w)]_vars
  BY StepDoesOneNode
<1> QED
  BY <1>1, GoodAlways, PTL DEF Spec

-----------------------------------------------------------------------------
(* A worker lets go of what it holds *)

(* The transactions a worker that holds an event has before it at most.    *)
Effort(w) ==
  IF At(w, "step") THEN 20 - Len(runs[EventOf(w).run].steps)
  ELSE IF At(w, "failing") THEN 2 ELSE 1

(* A busy worker keeps its event, nearer to the end of it if the step was  *)
(* its own, or lets it go: processed, with a failure more, or in a crash.  *)
HoldEnds(w) ==
  LET e == worker[w].event IN
  \/ /\ Busy(w)' /\ worker'[w].event = e
     /\ Effort(w)' <= Effort(w)
     /\ WorkerStep(w) => Effort(w)' < Effort(w)
  \/ /\ ~Busy(w)'
     /\ \/ outbox'[e].processed
        \/ outbox'[e].attempts = outbox[e].attempts + 1
        \/ Crash(w)

(* The nodes done stay done.                                               *)
LEMMA StepsStay ==
  ASSUME Inv, RunsGood, [Next]_vars, NEW k \in DOMAIN runs
  PROVE  /\ Len(runs[k].steps) \in 0 .. 17 /\ k \in DOMAIN runs'
         /\ Len(runs'[k].steps) \in Nat /\ Len(runs'[k].steps) >= Len(runs[k].steps)
<1> DEFINE len == Len(runs[k].steps)
<1>1. len \in 0 .. 17
  <2>1. runs[k].steps \in Seq(Nodes) /\ InOrder(runs[k])
    BY Rows DEF RunsGood, Good, Run
  <2>2. len \in Nat /\ (len = 0 \/ (runs[k].steps[len] \in Nodes /\ runs[k].steps[len] = len))
    BY <2>1, LenProperties DEF InOrder
  <2> HIDE DEF len
  <2> QED
    BY <2>2 DEF Nodes
<1>2. CASE Quiet
  BY <1>1, <1>2 DEF Quiet
<1>3. CASE Dispatches
  <2>1. PICK i, r, loaded, p, apps, jbs :
          Hand(i, r, loaded, p, apps, jbs) /\ HandedOn(i, r, loaded, p, apps, jbs)
    BY <1>3 DEF Dispatches
  <2>2. PICK last \in 0 .. 17 : Effect(i, r, apps, jbs, last)
    BY <2>1, Rows, HandedEffect
  <2>3. CASE i = k
    <3>1. r.steps = runs[k].steps /\ Len(runs'[k].steps) \in Len(r.steps) .. 17 /\ OnlyRun(k)
      BY <2>1, <2>2, <2>3 DEF Hand, Effect
    <3>2. Len(runs'[k].steps) \in len .. 17 /\ k \in DOMAIN runs'
      BY <3>1 DEF OnlyRun
    <3> QED
      BY <1>1, <3>2
  <2>4. CASE i # k
    BY <1>1, <2>2, <2>4 DEF Effect, OnlyRun
  <2> QED
    BY <2>3, <2>4
<1> QED
  BY <1>2, <1>3, DispatchesOrQuiet

(* The events there are keep their run.                                    *)
LEMMA EventsKeepRun ==
  ASSUME Inv, [Next]_vars, NEW e \in DOMAIN outbox
  PROVE  outbox'[e].run = outbox[e].run
<1>1. /\ outbox \in Seq(Event) /\ Len(outbox) \in Nat /\ outbox[e] \in Event
      /\ DOMAIN outbox = 1 .. Len(outbox)
  BY LenProperties DEF Inv, TypeOK, RowsOK
<1>2. ASSUME NEW k, NEW r, NEW loaded, NEW p, NEW apps, NEW jbs,
             Dispatch(k, r, loaded, p, apps, jbs)
      PROVE  outbox'[e].run = outbox[e].run
  <2>1. CASE outbox' = outbox
    BY <2>1
  <2>2. CASE outbox' = Append(outbox, NewEvent(k, r))
    <3>1. outbox'[e] = outbox[e]
      BY <1>1, <2>2
    <3> QED
      BY <3>1
  <2> QED
    BY <1>2, <2>1, <2>2 DEF Dispatch
<1>3. CASE UNCHANGED outbox
  BY <1>3
<1>4. CASE RunsNext
  <2>1. ASSUME NEW c \in Clients, CommitStart(c) \/ CommitRetry(c)
        PROVE  outbox'[e].run = outbox[e].run
    BY <1>2, <2>1 DEF CommitStart, CommitRetry
  <2>2. ASSUME NEW u \in Users, NEW a, Approve(u, a) PROVE outbox'[e].run = outbox[e].run
    BY <1>2, <2>2 DEF Approve
  <2>3. ASSUME NEW u \in Users, NEW k, NEW valid, ValidateImport(u, k, valid)
        PROVE  outbox'[e].run = outbox[e].run
    BY <1>2, <1>3, <2>3 DEF ValidateImport
  <2>4. ASSUME NEW c \in Clients, NEW u \in Users, NEW k
        PROVE  /\ BeginStart(c, u) => UNCHANGED outbox
               /\ BeginCancel(c, u, k) => UNCHANGED outbox
               /\ BeginRetry(c, u, k) => UNCHANGED outbox
    BY DEF BeginStart, BeginCancel, BeginRetry, dbVars
  <2>5. ASSUME NEW u \in Users, NEW k, NEW p
        PROVE  /\ Reject(u, k) => UNCHANGED outbox
               /\ ReviseConfiguration(u, k, p) => UNCHANGED outbox
    BY DEF Reject, ReviseConfiguration
  <2>6. ASSUME NEW u \in Users, NEW k, NEW p, NEW result
        PROVE  /\ ExecuteJob(u, k, p, result) => UNCHANGED outbox
               /\ ReviseMaterials(u, p) => UNCHANGED outbox
               /\ DeleteProject(u) => UNCHANGED outbox
               /\ RestoreProject(u) => UNCHANGED outbox
               /\ ChangeAccess(u, p) => UNCHANGED outbox
    BY DEF ExecuteJob, ReviseMaterials, DeleteProject, RestoreProject, ChangeAccess, dbVars
  <2>7. ASSUME NEW c \in Clients PROVE CommitCancel(c) \/ Abandon(c) => UNCHANGED outbox
    BY DEF CommitCancel, Abandon, dbVars
  <2>8. RunsNext => UNCHANGED outbox \/ outbox'[e].run = outbox[e].run
    BY <2>1, <2>2, <2>3, <2>4, <2>5, <2>6, <2>7 DEF RunsNext
  <2> QED
    BY <1>3, <1>4, <2>8
<1>5. CASE WorkerNext
  <2>1. ASSUME NEW w, NEW d
        PROVE  /\ Publish(d) \/ Lose(d) => UNCHANGED outbox
               /\ Receive(w, d) => UNCHANGED outbox
    BY DEF Publish, Lose, Receive, Take, TakeRefused, Skip, runsVars
  <2>2. ASSUME NEW w \in Workers, NEW http \in BOOLEAN
        PROVE  /\ StepNode(w) \/ StepStopped(w) \/ StepDeleted(w) => UNCHANGED outbox
               /\ StepFails(w, http) \/ FailRun(w) \/ Crash(w) => UNCHANGED outbox
    BY DEF StepNode, StepStopped, StepDeleted, StepFails, FailRun, Crash, runsVars
  <2>3. ASSUME NEW w \in Workers
        PROVE  StepRetried(w) \/ CommitFailed(w) \/ CommitDone(w) => outbox'[e].run = outbox[e].run
    <3> DEFINE d == worker[w].event
    <3>1. ASSUME NEW attempts, NEW error, NEW processed,
                 outbox' = [outbox EXCEPT ![d].attempts = attempts, ![d].error = error,
                                          ![d].processed = processed]
          PROVE  outbox'[e].run = outbox[e].run
      BY <1>1, <3>1 DEF Event
    <3>2. ASSUME NEW attempts, NEW error, outbox' = [outbox EXCEPT ![d].attempts = attempts, ![d].error = error]
          PROVE  outbox'[e].run = outbox[e].run
      BY <1>1, <3>2 DEF Event
    <3>3. ASSUME NEW error, NEW processed,
                 outbox' = [outbox EXCEPT ![d].error = error, ![d].processed = processed]
          PROVE  outbox'[e].run = outbox[e].run
      BY <1>1, <3>3 DEF Event
    <3>4. StepRetried(w) => outbox'[e].run = outbox[e].run
      BY <3>2 DEF StepRetried
    <3>5. CommitFailed(w) => outbox'[e].run = outbox[e].run
      BY <3>1 DEF CommitFailed
    <3>6. CommitDone(w) => outbox'[e].run = outbox[e].run
      BY <3>3 DEF CommitDone
    <3> QED
      BY <3>4, <3>5, <3>6
  <2> QED
    BY <1>3, <1>5, <2>1, <2>2, <2>3 DEF WorkerNext, WorkerStep
<1> QED
  BY <1>3, <1>4, <1>5 DEF Next, vars

(* A busy worker that goes on with its event.                              *)
LEMMA WorkerAt ==
  ASSUME Inv, NEW w \in Workers, NEW pc, Goto(w, pc)
  PROVE  worker'[w].pc = pc /\ worker'[w].event = worker[w].event
BY DEF Goto, Inv, TypeOK, WorkersOK, WorkerState

LEMMA OwnStepEnds ==
  ASSUME Inv, RunsGood, [Next]_vars, NEW w \in Workers, WorkerStep(w)
  PROVE  HoldEnds(w)
<1> DEFINE e   == worker[w].event
           k   == EventOf(w).run
           len == Len(runs[k].steps)
<1>1. Busy(w)
  BY DEF WorkerStep, StepNode, StepStopped, StepDeleted, StepRetried, StepFails, FailRun,
     CommitFailed, CommitDone, Busy, At
<1>2. /\ k \in DOMAIN runs /\ e \in DOMAIN outbox /\ outbox[e] \in Event /\ outbox \in Seq(Event)
      /\ len \in 0 .. 17
  <2>1. k \in DOMAIN runs /\ e \in DOMAIN outbox /\ outbox[e] \in Event
    BY <1>1, HeldRun DEF Busy, EventOf
  <2>2. \A i \in DOMAIN runs : Len(runs[i].steps) \in 0 .. 17
    BY StepsStay
  <2>3. outbox \in Seq(Event)
    BY DEF Inv, TypeOK, RowsOK
  <2> QED
    BY <2>1, <2>2, <2>3
<1>3. At(w, "step") => Effort(w) = 20 - len
  BY DEF Effort
<1>4. ASSUME NEW pc \in {"done", "failing", "failed"}, Goto(w, pc),
             \/ At(w, "step")
             \/ At(w, "failing") /\ pc = "failed"
      PROVE  HoldEnds(w)
  <2>1. worker'[w].pc = pc /\ worker'[w].event = e
    BY <1>4, WorkerAt
  <2> HIDE DEF e, k, len
  <2>2. Effort(w)' = IF pc = "failing" THEN 2 ELSE 1
    BY <2>1 DEF Effort, At
  <2>3. Effort(w) = IF At(w, "step") THEN 20 - len ELSE 2
    BY <1>3, <1>4 DEF Effort, At
  <2>4. Effort(w)' < Effort(w) /\ Effort(w)' <= Effort(w)
    <3>1. 20 - len > 2
      BY <1>2
    <3>2. CASE At(w, "step")
      BY <1>2, <2>2, <2>3, <3>1, <3>2
    <3>3. CASE ~At(w, "step")
      BY <1>4, <2>2, <2>3, <3>3
    <3> QED
      BY <3>2, <3>3
  <2>5. Busy(w)'
    BY <2>1 DEF Busy, At
  <2> QED
    BY <2>1, <2>4, <2>5 DEF HoldEnds, e
<1>5. ASSUME StepNode(w) PROVE HoldEnds(w)
  <2>1. At(w, "step") /\ outbox' = outbox
    BY <1>5 DEF StepNode
  <2>2. CASE runs'[k].status = "running"
    <3>1. worker'[w].pc = "step" /\ worker'[w].event = e
      BY <1>5, <2>2, WorkerAt DEF StepNode
    <3>2. Effort(w)' = 20 - Len(runs'[k].steps)
      BY <2>1, <3>1 DEF Effort, At, EventOf
    <3>3. runs'[k].steps = Append(runs[k].steps, len + 1)
      BY <1>5, <2>2, StepDoesOneNode DEF OneNodeDone
    <3>4. Len(runs'[k].steps) = len + 1
      <4>1. runs[k].steps \in Seq(Nodes)
        BY <1>2, Rows DEF Run
      <4> QED
        BY <3>3, <4>1
    <3> HIDE DEF e, k, len
    <3>5. Effort(w)' < Effort(w) /\ Effort(w)' <= Effort(w)
      BY <1>2, <1>3, <2>1, <3>2, <3>4
    <3>6. Busy(w)'
      BY <3>1 DEF Busy, At
    <3> QED
      BY <3>1, <3>5, <3>6 DEF HoldEnds, e
  <2>3. CASE runs'[k].status # "running"
    BY <1>4, <1>5, <2>1, <2>3 DEF StepNode
  <2> QED
    BY <2>2, <2>3
<1>6. ASSUME StepStopped(w) \/ StepDeleted(w) \/ FailRun(w) \/ \E http \in BOOLEAN : StepFails(w, http)
      PROVE  HoldEnds(w)
  BY <1>4, <1>6 DEF StepStopped, StepDeleted, FailRun, StepFails
<1>7. Release(w) => ~Busy(w)'
  BY DEF Release, IdleWorker, Inv, TypeOK, WorkersOK, Busy, At
<1>8. ASSUME StepRetried(w) PROVE HoldEnds(w)
  <2>1. PICK error : outbox' = [outbox EXCEPT ![e].attempts = @ + 1, ![e].error = error]
    BY <1>8 DEF StepRetried
  <2>2. outbox'[e].attempts = outbox[e].attempts + 1
    <3> HIDE DEF e
    <3> QED
      BY <1>2, <2>1 DEF Event
  <2> QED
    BY <1>7, <1>8, <2>2 DEF HoldEnds, StepRetried
<1>9. ASSUME CommitFailed(w) \/ CommitDone(w) PROVE HoldEnds(w)
  <2>1. \/ \E n, b : outbox' = [outbox EXCEPT ![e].attempts = n, ![e].error = b, ![e].processed = TRUE]
        \/ \E b : outbox' = [outbox EXCEPT ![e].error = b, ![e].processed = TRUE]
    BY <1>9 DEF CommitFailed, CommitDone
  <2>2. outbox'[e].processed
    <3> HIDE DEF e
    <3> QED
      BY <1>2, <2>1 DEF Event
  <2> QED
    BY <1>7, <1>9, <2>2 DEF HoldEnds, CommitFailed, CommitDone
<1> QED
  BY <1>5, <1>6, <1>8, <1>9 DEF WorkerStep

(* Whoever else moves, a busy worker is no further from the end.           *)
LEMMA OthersDelayNobody ==
  ASSUME Inv, RunsGood, [Next]_vars, NEW w \in Workers, Busy(w), worker'[w] = worker[w]
  PROVE  Busy(w)' /\ Effort(w)' <= Effort(w)
<1> DEFINE e == worker[w].event
           k == EventOf(w).run
<1>1. k \in DOMAIN runs /\ e \in DOMAIN outbox
  BY HeldRun DEF Busy
<1>2. EventOf(w)'.run = k
  BY <1>1, EventsKeepRun DEF EventOf
<1>3. Busy(w)' /\ \A pc : At(w, pc)' <=> At(w, pc)
  BY DEF Busy, At
<1>4. CASE At(w, "step")
  <2>1. Effort(w) = 20 - Len(runs[k].steps) /\ Effort(w)' = 20 - Len(runs'[k].steps)
    BY <1>2, <1>3, <1>4 DEF Effort
  <2>2. /\ Len(runs[k].steps) \in 0 .. 17 /\ Len(runs'[k].steps) \in Nat
        /\ Len(runs'[k].steps) >= Len(runs[k].steps)
    BY <1>1, StepsStay
  <2> DEFINE l == Len(runs[k].steps)  m == Len(runs'[k].steps)
  <2> HIDE DEF l, m, k
  <2>3. l \in 0 .. 17 /\ m \in Nat /\ m >= l /\ Effort(w) = 20 - l /\ Effort(w)' = 20 - m
    BY <2>1, <2>2 DEF l, m
  <2>4. 20 - m <= 20 - l
    BY <2>3
  <2> QED
    BY <1>3, <2>3, <2>4
<1>5. CASE ~At(w, "step")
  <2>1. Effort(w) = IF At(w, "failing") THEN 2 ELSE 1
    BY <1>5 DEF Effort
  <2>2. Effort(w)' = IF At(w, "failing") THEN 2 ELSE 1
    BY <1>3, <1>5 DEF Effort
  <2> QED
    BY <1>3, <2>1, <2>2
<1> QED
  BY <1>4, <1>5

(* A busy worker acts, crashes, or stays as it is.                         *)
LEMMA WorkerStays ==
  ASSUME Inv, [Next]_vars, NEW w \in Workers, Busy(w)
  PROVE  WorkerStep(w) \/ Crash(w) \/ worker'[w] = worker[w]
<1>1. ASSUME NEW v \in Workers, v # w, NEW s, worker' = [worker EXCEPT ![v] = s]
      PROVE  worker'[w] = worker[w]
  BY <1>1 DEF Inv, TypeOK, WorkersOK
<1>2. ASSUME NEW v \in Workers, v # w, NEW pc, Goto(v, pc) \/ Release(v)
      PROVE  worker'[w] = worker[w]
  BY <1>2 DEF Goto, Release, Inv, TypeOK, WorkersOK
<1>3. ASSUME NEW v \in Workers, v # w, WorkerStep(v) \/ Crash(v)
      PROVE  worker'[w] = worker[w]
  <2>1. \E pc : Goto(v, pc) \/ Release(v)
    BY <1>3 DEF WorkerStep, StepNode, StepStopped, StepDeleted, StepRetried, StepFails, FailRun,
       CommitFailed, CommitDone, Crash
  <2> QED
    BY <1>2, <1>3, <2>1
<1>4. ASSUME NEW v \in Workers, NEW e, Receive(v, e) PROVE worker'[w] = worker[w]
  <2>1. v # w
    BY <1>4 DEF Receive, Take, TakeRefused, Skip, Busy, At
  <2>2. worker' = worker \/ \E s : worker' = [worker EXCEPT ![v] = s]
    BY <1>4 DEF Receive, Take, TakeRefused, Skip
  <2> QED
    BY <1>1, <2>1, <2>2
<1>5. ASSUME NEW e, Publish(e) \/ Lose(e) PROVE worker'[w] = worker[w]
  BY <1>5 DEF Publish, Lose
<1>6. CASE UNCHANGED worker
  BY <1>6
<1>7. CASE WorkerNext
  BY <1>3, <1>4, <1>5, <1>7 DEF WorkerNext
<1> QED
  BY <1>6, <1>7 DEF Next, vars, workerVars

(* A worker does not sit on what it took: whatever else goes on, each      *)
(* transaction of its own brings it nearer to the end of the event, which  *)
(* is at most twenty away, and then the event is processed or has one      *)
(* failure more, of which the third is the last; the alternative is that   *)
(* the worker crashes (execute_workflow_event).                            *)
THEOREM EveryHoldEnds ==
  Spec => /\ [](\A w \in Workers : Effort(w) \in 1 .. 20)
          /\ [][\A w \in Workers : Busy(w) => HoldEnds(w)]_vars
<1>1. Inv /\ RunsGood => \A w \in Workers : Effort(w) \in 1 .. 20
  <2> SUFFICES ASSUME Inv, RunsGood, NEW w \in Workers PROVE Effort(w) \in 1 .. 20
    OBVIOUS
  <2>1. CASE At(w, "step")
    <3> DEFINE k == EventOf(w).run  l == Len(runs[k].steps)
    <3>1. k \in DOMAIN runs
      BY <2>1, HeldRun DEF At
    <3>2. runs[k].steps \in Seq(Nodes) /\ InOrder(runs[k])
      BY <3>1, Rows DEF RunsGood, Good, Run
    <3>3. l \in Nat /\ (l = 0 \/ (runs[k].steps[l] \in Nodes /\ runs[k].steps[l] = l))
      BY <3>2, LenProperties DEF InOrder
    <3>4. Effort(w) = 20 - l
      BY <2>1 DEF Effort
    <3> HIDE DEF l, k
    <3>5. l \in 0 .. 17
      BY <3>3 DEF Nodes
    <3> QED
      BY <3>4, <3>5
  <2>2. CASE ~At(w, "step")
    BY <2>2 DEF Effort
  <2> QED
    BY <2>1, <2>2
<1>2. ASSUME Inv, RunsGood, [Next]_vars, NEW w \in Workers, Busy(w) PROVE HoldEnds(w)
  <2>1. CASE WorkerStep(w)
    BY <1>2, <2>1, OwnStepEnds
  <2>2. CASE Crash(w)
    <3>1. ~Busy(w)'
      BY <1>2, <2>2 DEF Crash, Release, IdleWorker, Inv, TypeOK, WorkersOK, Busy, At
    <3> QED
      BY <2>2, <3>1 DEF HoldEnds
  <2>3. CASE ~WorkerStep(w) /\ worker'[w] = worker[w]
    <3>1. Busy(w)' /\ Effort(w)' <= Effort(w)
      BY <1>2, <2>3, OthersDelayNobody
    <3> QED
      BY <2>3, <3>1 DEF HoldEnds
  <2> QED
    BY <1>2, <2>1, <2>2, <2>3, WorkerStays
<1>3. Inv /\ RunsGood /\ [Next]_vars => [\A w \in Workers : Busy(w) => HoldEnds(w)]_vars
  BY <1>2
<1> QED
  BY <1>1, <1>3, GoodAlways, PTL DEF Spec

-----------------------------------------------------------------------------
(* A run leaves six events at most *)

(* A run under way has left one event when it was launched, one for each   *)
(* gate it was let through and one for the upload it waited for.           *)
Passed(g, r) == IF Behind(g, r) THEN 1 ELSE 0
Spent(r) ==
  1 + Passed(PlanApproval, r) + Passed(ConfigurationApproval, r)
    + Passed(ImportApproval, r) + Passed(AcceptanceApproval, r)
    + (IF r.state.job # 0 THEN 1 ELSE 0)

FewEvents ==
  /\ Len(runs) <= MaxRuns /\ Len(outbox) <= 6 * Len(runs)
  /\ Len(runs) > 0 /\ Going(Len(runs)) =>
       Len(outbox) <= 6 * (Len(runs) - 1) + Spent(runs[Len(runs)])

(* A run waits for an upload only while it has no job; the job it has is   *)
(* a valid one.  So it waits for an upload once.                           *)
JobFits(r, jbs) ==
  /\ r.status = "preparing_materials" => r.state.job = 0
  /\ Active(r) /\ r.state.job # 0 => r.state.job \in DOMAIN jbs /\ jbs[r.state.job].valid
JobsFit == \A k \in DOMAIN runs : JobFits(runs[k], jobs)

LEMMA SpentBounds ==
  ASSUME NEW r
  PROVE  Spent(r) \in 1 .. 6
<1>1. \A g : Passed(g, r) \in 0 .. 1
  BY DEF Passed
<1> HIDE DEF Passed
<1> QED
  BY <1>1 DEF Spent

LEMMA SpentGrows ==
  ASSUME NEW r, NEW q, \A g \in APPROVAL_NODES : Behind(g, r) => Behind(g, q),
         r.state.job # 0 => q.state.job # 0,
         NEW n \in {0, 1},
         n = 1 => \/ \E g \in APPROVAL_NODES : ~Behind(g, r) /\ Behind(g, q)
                  \/ r.state.job = 0 /\ q.state.job # 0
  PROVE  Spent(q) >= Spent(r) + n
<1>1. APPROVAL_NODES = {PlanApproval, ConfigurationApproval, ImportApproval, AcceptanceApproval}
  BY DEF APPROVAL_NODES
<1> QED
  BY <1>1 DEF Spent, Passed

(* The nodes done keep the gates behind the run, those it does too.        *)
LEMMA BehindKept ==
  ASSUME NEW r, NEW q, NEW g \in APPROVAL_NODES, Behind(g, r),
         Len(r.steps) \in Nat, Len(q.steps) \in Nat,
         \/ Len(q.steps) > Len(r.steps)
         \/ Len(q.steps) = Len(r.steps) /\ Active(q) /\ q.status # "waiting_approval"
  PROVE  Behind(g, q)
<1>1. g \in Nat
  BY DEF APPROVAL_NODES, PlanApproval, ConfigurationApproval, ImportApproval, AcceptanceApproval
<1> DEFINE a == Len(r.steps)  b == Len(q.steps)
<1>2. g < a \/ g = a
  BY DEF Behind
<1>3. b > a \/ (b = a /\ Active(q) /\ q.status # "waiting_approval")
  OBVIOUS
<1> HIDE DEF a, b
<1>4. a \in Nat /\ b \in Nat
  BY DEF a, b
<1>5. g < b \/ (g = b /\ Active(q) /\ q.status # "waiting_approval")
  BY <1>1, <1>2, <1>3, <1>4
<1> QED
  BY <1>5 DEF Behind, b

-----------------------------------------------------------------------------
(* What the counts are after a step *)

Counts == Len(runs) \in Nat /\ Len(outbox) \in Nat /\ MaxRuns \in Nat

LEMMA CountsAre == ASSUME Inv PROVE Counts
BY RunsAssumption, LenProperties DEF Inv, TypeOK, RowsOK, Counts

(* The run under way, if it still is, has spent what it leaves.            *)
LEMMA FewKept ==
  ASSUME Counts, Counts', FewEvents, NEW n \in {0, 1}, Len(outbox') <= Len(outbox) + n,
         Len(runs') = Len(runs),
         Len(runs) > 0 /\ Going(Len(runs))' =>
           Going(Len(runs)) /\ Spent(runs'[Len(runs)]) >= Spent(runs[Len(runs)]) + n,
         n = 1 => Len(runs) > 0 /\ Going(Len(runs))'
  PROVE  FewEvents'
<1> DEFINE l == Len(runs)  o == Len(outbox)  p == Len(outbox')
           s == Spent(runs[l])  t == Spent(runs'[l])
<1>1. /\ l \in Nat /\ o \in Nat /\ p \in Nat /\ MaxRuns \in Nat /\ l <= MaxRuns
      /\ p <= o + n /\ o <= 6 * l
      /\ l > 0 /\ Going(l) => o <= 6 * (l - 1) + s
      /\ l > 0 /\ Going(l)' => Going(l) /\ t >= s + n
      /\ n = 1 => l > 0 /\ Going(l)'
      /\ s \in 1 .. 6 /\ t \in 1 .. 6
  BY SpentBounds DEF Counts, FewEvents
<1>2. Going(l)' <=> runs'[l].status \in ActiveStatuses
  BY DEF Going
<1> HIDE DEF s, t, o, p
<1>3. Len(runs') = l
  OBVIOUS
<1> HIDE DEF l
<1>4. l > 0 /\ Going(l)' => p <= 6 * (l - 1) + t
  BY <1>1
<1>5. p <= 6 * l
  BY <1>1, <1>4
<1>6. l <= MaxRuns /\ p <= 6 * l /\ (l > 0 /\ runs'[l].status \in ActiveStatuses => p <= 6 * (l - 1) + t)
  BY <1>1, <1>2, <1>4, <1>5
<1> QED
  BY <1>3, <1>6 DEF FewEvents, Going, p, t

(* A new run has left the event of its launch.                             *)
LEMMA FewStarted ==
  ASSUME Counts, Counts', FewEvents, Len(outbox') <= Len(outbox) + 1,
         Len(runs') = Len(runs) + 1, Len(runs) < MaxRuns
  PROVE  FewEvents'
<1> DEFINE l == Len(runs)  o == Len(outbox)  p == Len(outbox')  m == Len(runs')
           t == Spent(runs'[m])
<1>1. /\ l \in Nat /\ o \in Nat /\ p \in Nat /\ MaxRuns \in Nat
      /\ p <= o + 1 /\ o <= 6 * l /\ m = l + 1 /\ l < MaxRuns
      /\ t \in 1 .. 6
  BY SpentBounds DEF Counts, FewEvents
<1> HIDE DEF t, o, p, l, m
<1>2. m <= MaxRuns /\ p <= 6 * m /\ p <= 6 * (m - 1) + t
  BY <1>1
<1> QED
  BY <1>2 DEF FewEvents, p, t, m

(* Jobs stay, and stay valid.                                              *)
JobsKept == \A j \in DOMAIN jobs : j \in DOMAIN jobs' /\ jobs'[j].valid = jobs[j].valid

(* Steps that leave no event, do no node and take up no run.               *)
Uncounted ==
  /\ Len(outbox') = Len(outbox) /\ Len(runs') = Len(runs) /\ JobsKept
  /\ \A k \in DOMAIN runs : Active(runs'[k]) =>
       /\ runs'[k].status = runs[k].status /\ runs'[k].steps = runs[k].steps
       /\ runs'[k].state.job = runs[k].state.job

LEMMA UncountedFew ==
  ASSUME Inv, Inv', FewEvents, JobsFit, Uncounted
  PROVE  FewEvents' /\ JobsFit'
<1>1. /\ DOMAIN runs = 1 .. Len(runs) /\ Len(runs) \in Nat /\ DOMAIN runs' = DOMAIN runs
  BY LenProperties DEF Inv, TypeOK, RowsOK, Uncounted
<1>2. ASSUME NEW k \in DOMAIN runs, Active(runs'[k])
      PROVE  /\ Active(runs[k]) /\ Spent(runs'[k]) = Spent(runs[k]) /\ JobFits(runs'[k], jobs')
  <2>1. /\ runs'[k].status = runs[k].status /\ runs'[k].steps = runs[k].steps
        /\ runs'[k].state.job = runs[k].state.job
    BY <1>2 DEF Uncounted
  <2>2. Active(runs[k]) /\ \A g : Behind(g, runs'[k]) <=> Behind(g, runs[k])
    BY <1>2, <2>1 DEF Active, Behind
  <2>3. Spent(runs'[k]) = Spent(runs[k])
    BY <2>1, <2>2 DEF Spent, Passed
  <2>4. JobFits(runs[k], jobs) /\ JobsKept
    BY DEF JobsFit, Uncounted
  <2>5. JobFits(runs'[k], jobs')
    BY <2>1, <2>2, <2>4 DEF JobFits, JobsKept
  <2> QED
    BY <2>2, <2>3, <2>5
<1>3. JobsFit'
  <2> SUFFICES ASSUME NEW k \in DOMAIN runs PROVE JobFits(runs'[k], jobs')
    BY <1>1 DEF JobsFit
  <2>1. CASE Active(runs'[k])
    BY <1>2, <2>1
  <2>2. CASE ~Active(runs'[k])
    BY <2>2 DEF JobFits, Active, ActiveStatuses
  <2> QED
    BY <2>1, <2>2
<1>4. Len(runs) > 0 /\ Going(Len(runs))' =>
        Going(Len(runs)) /\ Spent(runs'[Len(runs)]) >= Spent(runs[Len(runs)]) + 0
  <2> SUFFICES ASSUME Len(runs) > 0, Going(Len(runs))'
               PROVE  Going(Len(runs)) /\ Spent(runs'[Len(runs)]) >= Spent(runs[Len(runs)]) + 0
    OBVIOUS
  <2> DEFINE l == Len(runs)
  <2>1. l \in DOMAIN runs
    BY <1>1
  <2>2. Active(runs'[l])
    <3>1. Len(runs') = l
      BY DEF Uncounted
    <3>2. runs'[Len(runs')].status \in ActiveStatuses
      BY <3>1 DEF Going
    <3> QED
      BY <3>1, <3>2 DEF Active
  <2>3. Active(runs[l]) /\ Spent(runs'[l]) = Spent(runs[l])
    BY <1>2, <2>1, <2>2
  <2>4. Spent(runs'[l]) \in Nat
    BY SpentBounds
  <2>5. Spent(runs'[l]) >= Spent(runs[l]) + 0
    BY <2>3, <2>4
  <2> QED
    BY <2>3, <2>5 DEF Going, Active
<1>5. FewEvents'
  <2>1. Counts /\ Counts'
    BY CountsAre, RunsAssumption, LenProperties DEF Inv, TypeOK, RowsOK, Counts
  <2>2. Len(outbox') <= Len(outbox) + 0 /\ Len(runs') = Len(runs)
    BY <2>1 DEF Uncounted, Counts
  <2> QED
    BY <1>4, <2>1, <2>2, FewKept
<1> QED
  BY <1>3, <1>5

(* One run written, ended or with its nodes, status and job.               *)
LEMMA RowUncounted ==
  ASSUME Inv, NEW k \in DOMAIN runs, NEW q, runs' = [runs EXCEPT ![k] = q], UNCHANGED outbox, JobsKept,
         Active(q) => /\ q.status = runs[k].status /\ q.steps = runs[k].steps
                      /\ q.state.job = runs[k].state.job
  PROVE  Uncounted
<1>1. Len(runs') = Len(runs) /\ \A i \in DOMAIN runs : runs'[i] = IF i = k THEN q ELSE runs[i]
  BY LenProperties DEF Inv, TypeOK, RowsOK
<1> QED
  BY <1>1 DEF Uncounted

LEMMA SameLength ==
  ASSUME NEW m \in Nat, NEW n \in Nat, 1 .. m = 1 .. n
  PROVE  m = n
<1>1. m > n => m \in 1 .. m /\ m \notin 1 .. n
  OBVIOUS
<1>2. n > m => n \in 1 .. n /\ n \notin 1 .. m
  OBVIOUS
<1> QED
  BY <1>1, <1>2

(* Everything but a dispatch and a node.                                   *)
LEMMA OtherUncounted ==
  ASSUME Inv, Inv', RunsGood
  PROVE  /\ UNCHANGED <<runs, outbox, jobs>> => Uncounted
         /\ \A c \in Clients : CommitCancel(c) => Uncounted
         /\ \A u \in Users, a \in DOMAIN approvals : Reject(u, a) => Uncounted
         /\ \A u \in Users, k \in DOMAIN runs, p \in Revisions :
              ReviseConfiguration(u, k, p) => Uncounted
         /\ \A u \in Users, k \in DOMAIN runs : ValidateImport(u, k, FALSE) => Uncounted
         /\ \A u \in Users, j \in DOMAIN jobs : \A a, result : ExecuteJob(u, j, a, result) => Uncounted
         /\ \A w \in Workers :
              StepDeleted(w) \/ FailRun(w) \/ StepRetried(w) \/ CommitFailed(w) \/ CommitDone(w) =>
                Uncounted
<1>0. UNCHANGED jobs => JobsKept
  BY DEF JobsKept
<1>1. UNCHANGED <<runs, outbox, jobs>> => Uncounted
  BY <1>0 DEF Uncounted
<1>2. ASSUME NEW c \in Clients, CommitCancel(c) PROVE Uncounted
  <2>1. req[c].target \in DOMAIN runs
    BY <1>2 DEF CommitCancel, Inv, TypeOK, ClientsOK
  <2>2. PICK v, st : runs' = [runs EXCEPT ![req[c].target].status = "cancelled",
                                          ![req[c].target].version = v, ![req[c].target].state = st]
    BY <1>2 DEF CommitCancel
  <2> DEFINE k == req[c].target
             q == [runs[k] EXCEPT !.status = "cancelled", !.version = v, !.state = st]
  <2>3. runs' = [runs EXCEPT ![k] = q]
    BY <2>2
  <2>4. q.status = "cancelled"
    BY <2>1, Rows DEF Run
  <2>5. ~Active(q)
    BY <2>4 DEF Active, ActiveStatuses
  <2>6. UNCHANGED <<outbox, jobs>>
    BY <1>2 DEF CommitCancel
  <2> HIDE DEF k, q
  <2> QED
    BY <1>0, <2>1, <2>3, <2>5, <2>6, RowUncounted DEF k
<1>3. ASSUME NEW u \in Users, NEW a \in DOMAIN approvals, Reject(u, a) PROVE Uncounted
  <2> DEFINE k == approvals[a].run
             q == [Moved(runs[k], "failed") EXCEPT !.state.pending = 0]
  <2>1. k \in DOMAIN runs /\ WriteRun(k, q) /\ UNCHANGED <<outbox, jobs>>
    BY <1>3, Rows DEF Reject, Refers
  <2>2. q.status = "failed"
    <3>1. runs[k] \in Run /\ "failed" \in RunLifecycle
      BY <2>1, Rows DEF RunLifecycle
    <3>2. Moved(runs[k], "failed") \in Run /\ Moved(runs[k], "failed").status = "failed"
      BY <3>1, MovedRunType
    <3> HIDE DEF k
    <3> QED
      BY <3>2 DEF Run
  <2>3. ~Active(q)
    BY <2>2 DEF Active, ActiveStatuses
  <2> HIDE DEF k, q
  <2>4. runs' = [runs EXCEPT ![k] = q]
    <3>1. ~(k > Len(runs))
      BY <2>1, Rows
    <3> QED
      BY <2>1, <3>1 DEF WriteRun
  <2> QED
    BY <1>0, <2>1, <2>3, <2>4, RowUncounted
<1>4. ASSUME NEW u \in Users, NEW k \in DOMAIN runs, NEW p \in Revisions, ReviseConfiguration(u, k, p)
      PROVE  Uncounted
  <2> DEFINE st == [runs[k].state EXCEPT !.config = p, !.base = workspace.applied,
                                        !.pending = Len(approvals) + 1]
             q  == [runs[k] EXCEPT !.state = st, !.version = @ + 1]
  <2>1. UNCHANGED <<outbox, jobs>> /\ runs' = [runs EXCEPT ![k] = q]
    BY <1>4 DEF ReviseConfiguration
  <2>2. runs[k] \in Run /\ runs[k].state \in RunState
    BY Rows DEF Run
  <2>3. st.job = runs[k].state.job
    BY <2>2 DEF RunState
  <2> HIDE DEF st
  <2>4. q.status = runs[k].status /\ q.steps = runs[k].steps /\ q.state = st
    BY <2>2 DEF Run
  <2> HIDE DEF q
  <2> QED
    BY <1>0, <2>1, <2>3, <2>4, RowUncounted
<1>5. ASSUME NEW u \in Users, NEW k \in DOMAIN runs, ValidateImport(u, k, FALSE) PROVE Uncounted
  <2>1. jobs' = Append(jobs, UploadedJob(k, FALSE)) /\ UNCHANGED <<runs, outbox>>
    BY <1>5 DEF ValidateImport
  <2>2. JobsKept
    <3>1. k \in 1 .. Len(runs) + 1
      BY Rows
    <3> QED
      BY <2>1, <3>1, Uploaded DEF JobsKept
  <2> QED
    BY <2>1, <2>2 DEF Uncounted
<1>6. ASSUME NEW u \in Users, NEW j \in DOMAIN jobs, NEW a, NEW result, ExecuteJob(u, j, a, result)
      PROVE  Uncounted
  <2> DEFINE row == Executed(jobs[j], workspace.applied, result)
  <2>1. jobs' = [jobs EXCEPT ![j] = row] /\ UNCHANGED <<runs, outbox>>
    BY <1>6 DEF ExecuteJob
  <2>2. jobs[j] \in Job
    BY Rows
  <2>3. row.valid = jobs[j].valid
    BY <2>2 DEF Executed, Job
  <2> HIDE DEF row
  <2>4. JobsKept
    BY <2>1, <2>3 DEF JobsKept
  <2> QED
    BY <2>1, <2>4 DEF Uncounted
<1>7. ASSUME NEW w \in Workers, StepDeleted(w) \/ FailRun(w) PROVE Uncounted
  <2> DEFINE k == EventOf(w).run
  <2>1. k \in DOMAIN runs
    BY <1>7, HeldRun DEF StepDeleted, FailRun, At
  <2>2. UNCHANGED <<outbox, jobs>>
    BY <1>7 DEF StepDeleted, FailRun
  <2>3. CASE UNCHANGED runs
    BY <1>1, <2>2, <2>3
  <2>4. ASSUME NEW status \in {"failed", "cancelled"}, runs' = [runs EXCEPT ![k] = Moved(Begun(@), status)]
        PROVE  Uncounted
    <3> DEFINE q == Moved(Begun(runs[k]), status)
    <3>1. runs' = [runs EXCEPT ![k] = q]
      BY <2>4
    <3>2. Begun(runs[k]) \in Run /\ status \in RunLifecycle
      BY <2>1, Rows, BegunType DEF RunLifecycle
    <3>3. q.status = status
      BY <3>2, MovedRunType
    <3>4. ~Active(q)
      BY <3>3 DEF Active, ActiveStatuses
    <3> HIDE DEF k, q
    <3> QED
      BY <1>0, <2>1, <2>2, <3>1, <3>4, RowUncounted
  <2> QED
    BY <1>7, <2>3, <2>4 DEF StepDeleted, FailRun
<1>8. ASSUME NEW w \in Workers, StepRetried(w) \/ CommitFailed(w) \/ CommitDone(w) PROVE Uncounted
  <2>1. UNCHANGED <<runs, jobs>>
    BY <1>8 DEF StepRetried, CommitFailed, CommitDone
  <2>2. Len(outbox') = Len(outbox)
    <3>1. outbox \in Seq(Event)
      BY DEF Inv, TypeOK, RowsOK
    <3> DEFINE e == worker[w].event
    <3>2. \/ \E n, b : outbox' = [outbox EXCEPT ![e].attempts = n, ![e].error = b]
          \/ \E n, b, d : outbox' = [outbox EXCEPT ![e].attempts = n, ![e].error = b, ![e].processed = d]
          \/ \E b, d : outbox' = [outbox EXCEPT ![e].error = b, ![e].processed = d]
      BY <1>8 DEF StepRetried, CommitFailed, CommitDone
    <3> HIDE DEF e
    <3>3. DOMAIN outbox' = DOMAIN outbox
      BY <3>2
    <3>4. /\ DOMAIN outbox' = 1 .. Len(outbox') /\ Len(outbox') \in Nat
          /\ DOMAIN outbox = 1 .. Len(outbox) /\ Len(outbox) \in Nat
      BY <3>1, LenProperties DEF Inv, TypeOK, RowsOK
    <3> QED
      BY <3>3, <3>4, SameLength
  <2> QED
    BY <1>0, <2>1, <2>2 DEF Uncounted
<1> QED
  BY <1>1, <1>2, <1>3, <1>4, <1>5, <1>6, <1>7, <1>8

(* A run launched, resumed or moved on by a node                           *)

LEMMA DispatchLeaves ==
  ASSUME Inv, WorkerMode, NEW k, NEW r, NEW loaded, NEW p, NEW apps, NEW jbs,
         Dispatch(k, r, loaded, p, apps, jbs)
  PROVE  WriteRun(k, r) /\ jobs' = jbs /\ Len(outbox') <= Len(outbox) + 1
<1>1. WriteRun(k, r) /\ jobs' = jbs /\ (outbox' = outbox \/ outbox' = Append(outbox, NewEvent(k, r)))
  BY DEF Dispatch, WorkerMode
<1>2. outbox \in Seq(Event) /\ Len(outbox) \in Nat
  BY LenProperties DEF Inv, TypeOK, RowsOK
<1>3. Len(outbox') = Len(outbox) \/ Len(outbox') = Len(outbox) + 1
  BY <1>1, <1>2
<1> QED
  BY <1>1, <1>2, <1>3

(* The run under way is written with the gates and the upload it has.      *)
LEMMA RunFew ==
  ASSUME Inv, Inv', FewEvents, JobsFit, JobsKept, NEW k \in DOMAIN runs, Active(runs[k]), OnlyRun(k),
         NEW n \in {0, 1}, Len(outbox') <= Len(outbox) + n, n = 1 => Active(runs'[k]),
         Active(runs'[k]) => Spent(runs'[k]) >= Spent(runs[k]) + n,
         JobFits(runs'[k], jobs')
  PROVE  FewEvents' /\ JobsFit'
<1>1. /\ DOMAIN runs = 1 .. Len(runs) /\ Len(runs) \in Nat
      /\ DOMAIN runs' = 1 .. Len(runs') /\ Len(runs') \in Nat
  BY LenProperties DEF Inv, TypeOK, RowsOK
<1>2. k = Len(runs)
  BY DEF Inv, OneActiveRun, Going, Active, Latest
<1>3. DOMAIN runs' = DOMAIN runs /\ \A i \in DOMAIN runs : i # k => runs'[i] = runs[i]
  BY DEF OnlyRun
<1>4. Len(runs') = Len(runs)
  BY <1>1, <1>3, SameLength
<1>5. JobsFit'
  <2>1. ASSUME NEW i \in DOMAIN runs, i # k PROVE JobFits(runs'[i], jobs')
    BY <1>3, <2>1 DEF JobsFit, JobFits, JobsKept
  <2> QED
    BY <1>3, <2>1 DEF JobsFit
<1>6. Going(Len(runs)) /\ (Going(Len(runs))' <=> Active(runs'[k])) /\ Len(runs) > 0
  BY <1>1, <1>2, <1>4 DEF Going, Active
<1>7. Counts /\ Counts'
  BY CountsAre, RunsAssumption, LenProperties DEF Inv, TypeOK, RowsOK, Counts
<1>8. Len(runs) > 0 /\ Going(Len(runs))' =>
        Going(Len(runs)) /\ Spent(runs'[Len(runs)]) >= Spent(runs[Len(runs)]) + n
  BY <1>2, <1>6
<1>9. n = 1 => Len(runs) > 0 /\ Going(Len(runs))'
  BY <1>6
<1> QED
  BY <1>4, <1>5, <1>7, <1>8, <1>9, FewKept

(* An upload comes after the jobs there are, and is valid.                 *)
LEMMA UploadedFits ==
  ASSUME Inv, NEW k
  PROVE  LET jbs == Append(jobs, UploadedJob(k, TRUE))
         IN  /\ Len(jbs) \in DOMAIN jbs /\ Len(jbs) \in Nat /\ Len(jbs) # 0 /\ jbs[Len(jbs)].valid
             /\ \A j \in DOMAIN jobs : j \in DOMAIN jbs /\ jbs[j] = jobs[j]
<1> DEFINE row == UploadedJob(k, TRUE)
<1>1. row.valid
  BY DEF UploadedJob
<1>2. jobs \in Seq(Job) /\ Len(jobs) \in Nat
  BY Rows
<1> HIDE DEF row
<1>3. /\ \A j \in DOMAIN jobs : j \in DOMAIN Append(jobs, row) /\ Append(jobs, row)[j] = jobs[j]
      /\ Len(Append(jobs, row)) = Len(jobs) + 1 /\ Append(jobs, row)[Len(jobs) + 1] = row
      /\ Len(jobs) + 1 \in DOMAIN Append(jobs, row)
  BY <1>2
<1>4. Len(jobs) + 1 \in Nat /\ Len(jobs) + 1 # 0
  BY <1>2
<1> QED
  BY <1>1, <1>3, <1>4 DEF row

LEMMA LaunchFew ==
  ASSUME Inv, Inv', RunsGood, WorkerMode, FewEvents, JobsFit, NEW c \in Clients,
         CommitStart(c) \/ CommitRetry(c)
  PROVE  FewEvents' /\ JobsFit'
<1> DEFINE k == Len(runs) + 1
<1>1. Len(runs) < MaxRuns
  BY DEF CommitStart, CommitRetry, Latest
<1>2. PICK u, retryOf, job, loaded, p, jbs :
        /\ Dispatch(k, Launched(NewRun(u, retryOf, job)), loaded, p, approvals, jbs)
        /\ \/ job = 0 /\ jbs = jobs
           \/ jbs = Append(jobs, UploadedJob(k, TRUE)) /\ job = Len(jbs)
  BY DEF CommitStart, CommitRetry, Latest
<1> DEFINE r == Launched(NewRun(u, retryOf, job))
<1>3. WriteRun(k, r) /\ jobs' = jbs /\ Len(outbox') <= Len(outbox) + 1
  BY <1>2, DispatchLeaves
<1>4. r.status = "pending" /\ r.state.job = job
  BY DEF Launched, NewRun, InitialState, WorkerMode
<1> HIDE DEF r
<1>5. runs' = Append(runs, r)
  <2>1. k > Len(runs)
    BY Rows
  <2> QED
    BY <1>3, <2>1 DEF WriteRun
<1>6. /\ Len(runs') = Len(runs) + 1 /\ DOMAIN runs' = DOMAIN runs \cup {k} /\ runs'[k] = r
      /\ \A i \in DOMAIN runs : runs'[i] = runs[i]
  BY <1>5, Rows
<1>7. FewEvents'
  <2>1. Counts /\ Counts'
    BY CountsAre, RunsAssumption, LenProperties DEF Inv, TypeOK, RowsOK, Counts
  <2> QED
    BY <1>1, <1>3, <1>6, <2>1, FewStarted
<1>8. JobsKept /\ (job # 0 => job \in DOMAIN jobs' /\ jobs'[job].valid)
  <2>1. CASE job = 0 /\ jbs = jobs
    BY <1>3, <2>1 DEF JobsKept
  <2>2. CASE jbs = Append(jobs, UploadedJob(k, TRUE)) /\ job = Len(jbs)
    BY <1>3, <2>2, UploadedFits DEF JobsKept
  <2> QED
    BY <1>2, <2>1, <2>2
<1>9. JobsFit'
  <2>1. JobFits(r, jobs')
    BY <1>4, <1>8 DEF JobFits
  <2>2. ASSUME NEW i \in DOMAIN runs PROVE JobFits(runs'[i], jobs')
    BY <1>6, <1>8 DEF JobsFit, JobFits, JobsKept
  <2> QED
    BY <1>6, <2>1, <2>2 DEF JobsFit
<1> QED
  BY <1>7, <1>9

LEMMA ApproveFew ==
  ASSUME Inv, Inv', RunsGood, WorkerMode, FewEvents, JobsFit,
         NEW u \in Users, NEW a \in DOMAIN approvals, Approve(u, a)
  PROVE  FewEvents' /\ JobsFit'
<1> DEFINE k == approvals[a].run
           r == runs[k]
           q == [Moved(r, "running") EXCEPT !.state.pending = 0]
<1>1. Decidable(u, a) /\ Dispatch(k, q, project, project, Decided(a, u, "approved"), jobs)
  BY DEF Approve
<1>2. k \in DOMAIN runs /\ r.status = "waiting_approval" /\ approvals[a].kind = r.node
      /\ approvals[a] \in Approval
  BY <1>1, Deciding, Rows
<1>3. r \in Run /\ r.state \in RunState /\ Good(k, r, approvals) /\ k \in 1 .. Len(runs) + 1
  BY <1>2, Rows DEF RunsGood, Run
<1>4. q \in Run /\ q.status = "running" /\ q.steps = r.steps /\ q.state.job = r.state.job
  <2>1. /\ Moved(r, "running") \in Run /\ Moved(r, "running").state = r.state
        /\ Moved(r, "running").status = "running" /\ Moved(r, "running").steps = r.steps
    BY <1>3, MovedRunType DEF RunLifecycle
  <2> HIDE DEF r
  <2> QED
    BY <1>3, <2>1 DEF Run, RunState
<1>5. WriteRun(k, q) /\ jobs' = jobs /\ Len(outbox') <= Len(outbox) + 1
  BY <1>1, DispatchLeaves
<1> HIDE DEF q, r, k
<1>6. OnlyRun(k) /\ runs'[k] = q
  BY <1>3, <1>4, <1>5, Rows, WriteRunType
<1>7. Active(r) /\ Active(q) /\ q.status # "waiting_approval"
  BY <1>2, <1>4 DEF Active, ActiveStatuses
<1>8. Spent(q) >= Spent(r) + 1
  <2>1. \A g \in APPROVAL_NODES : Behind(g, r) => Behind(g, q)
    BY <1>4, <1>7 DEF Behind
  <2>2. r.node \in APPROVAL_NODES /\ r.node = Len(r.steps)
    BY <1>2, <1>3 DEF Good, InOrder, Approval
  <2>3. ~Behind(r.node, r) /\ Behind(r.node, q)
    <3>1. Len(r.steps) \in Nat
      BY <1>3, LenProperties DEF Run
    <3> QED
      BY <1>2, <1>4, <1>7, <2>2, <3>1 DEF Behind
  <2> QED
    BY <1>4, <2>1, <2>2, <2>3, SpentGrows
<1>9. JobFits(q, jobs') /\ JobsKept
  <2>1. JobFits(r, jobs)
    BY <1>2 DEF JobsFit, r
  <2> QED
    BY <1>4, <1>5, <1>7, <2>1 DEF JobFits, JobsKept
<1> QED
  BY <1>2, <1>5, <1>6, <1>7, <1>8, <1>9, RunFew DEF r

LEMMA ValidateFew ==
  ASSUME Inv, Inv', RunsGood, WorkerMode, FewEvents, JobsFit,
         NEW u \in Users, NEW k \in DOMAIN runs, ValidateImport(u, k, TRUE)
  PROVE  FewEvents' /\ JobsFit'
<1> DEFINE r   == runs[k]
           jbs == Append(jobs, UploadedJob(k, TRUE))
           q   == [Moved(r, "running") EXCEPT !.state.job = Len(jbs)]
<1>1. Dispatch(k, q, project, project, approvals, jbs) /\ r.status = "preparing_materials"
  BY DEF ValidateImport
<1>2. r \in Run /\ r.state \in RunState /\ k \in 1 .. Len(runs) + 1
  BY Rows DEF Run
<1>3. /\ Len(jbs) \in DOMAIN jbs /\ Len(jbs) \in Nat /\ Len(jbs) # 0 /\ jbs[Len(jbs)].valid
      /\ \A j \in DOMAIN jobs : j \in DOMAIN jbs /\ jbs[j] = jobs[j]
  BY UploadedFits
<1> HIDE DEF jbs
<1>4. q \in Run /\ q.status = "running" /\ q.steps = r.steps /\ q.state.job = Len(jbs)
  <2>1. /\ Moved(r, "running") \in Run /\ Moved(r, "running").state = r.state
        /\ Moved(r, "running").status = "running" /\ Moved(r, "running").steps = r.steps
    BY <1>2, MovedRunType DEF RunLifecycle
  <2> HIDE DEF r
  <2> QED
    BY <1>2, <1>3, <2>1 DEF Run, RunState
<1>5. WriteRun(k, q) /\ jobs' = jbs /\ Len(outbox') <= Len(outbox) + 1
  BY <1>1, DispatchLeaves
<1> HIDE DEF q
<1>6. OnlyRun(k) /\ runs'[k] = q
  BY <1>2, <1>4, <1>5, Rows, WriteRunType
<1>7. Active(r) /\ Active(q) /\ q.status # "waiting_approval" /\ r.state.job = 0
  BY <1>1, <1>4 DEF Active, ActiveStatuses, JobsFit, JobFits
<1>8. Spent(q) >= Spent(r) + 1
  <2>1. \A g \in APPROVAL_NODES : Behind(g, r) => Behind(g, q)
    BY <1>4, <1>7 DEF Behind
  <2> HIDE DEF r
  <2> QED
    BY <1>3, <1>4, <1>7, <2>1, SpentGrows
<1>9. JobFits(q, jobs') /\ JobsKept
  BY <1>3, <1>4, <1>5 DEF JobFits, JobsKept
<1> QED
  BY <1>5, <1>6, <1>7, <1>8, <1>9, RunFew

LEMMA StepFew ==
  ASSUME Inv, Inv', RunsGood, [Next]_vars, WorkerMode, FewEvents, JobsFit,
         NEW w \in Workers, StepNode(w)
  PROVE  FewEvents' /\ JobsFit'
<1> DEFINE k == EventOf(w).run
           r == Begun(runs[k])
<1>1. /\ ~At(w, "idle") /\ Executing(k) /\ UNCHANGED outbox
      /\ Advance(k, r, project, project, approvals, jobs, TRUE)
  BY DEF StepNode, At
<1>2. /\ k \in DOMAIN runs /\ k \in 1 .. Len(runs) + 1 /\ runs[k] \in Run
      /\ runs[k].status \in {"pending", "running"}
  <2>1. k \in DOMAIN runs /\ k \in 1 .. Len(runs) + 1 /\ runs[k] \in Run
    BY <1>1, HeldRun
  <2> QED
    BY <1>1, <2>1 DEF Executing
<1>3. r \in Run /\ r.steps = runs[k].steps /\ r.state = runs[k].state
  <2>1. Begun(runs[k]) \in Run
    BY <1>2, BegunType
  <2> HIDE DEF k
  <2> QED
    BY <1>2, <2>1 DEF Begun, Moved, Run
<1>4. OneNodeDone(w)
  BY StepDoesOneNode
<1>5. /\ \/ runs'[k].steps = Append(runs[k].steps, Len(runs[k].steps) + 1)
         \/ runs'[k].steps = runs[k].steps /\ runs'[k].status = "preparing_materials"
  BY <1>4 DEF OneNodeDone
<1> HIDE DEF r, k
<1>6. PICK last \in StartIndex(r.state) .. CloseProject, ready \in BOOLEAN,
           result \in {"completed", "partial_failed"} :
        Segment(k, r, project, project, approvals, jobs, TRUE, last, ready, result)
  BY <1>1 DEF Advance
<1>7. OnlyRun(k) /\ runs'[k].state.job = r.state.job
  <2>1. RowsOK /\ project \in Project /\ approvals \in Seq(Approval)
    BY Rows
  <2>2. OnlyRun(k) /\ \E recorded, done, status, pending :
                        RanFrom(runs'[k], r, last, recorded, done, status, pending)
    BY <1>2, <1>3, <1>6, <2>1, AdvanceOutcome
  <2> QED
    BY <2>2 DEF RanFrom
<1>8. JobsKept
  <2> DEFINE applied == Applied(StartIndex(r.state) .. last, r.state)
  <2>1. \/ jobs' = jobs
        \/ jobs' = [jobs EXCEPT ![r.state.job] = Executed(jobs[r.state.job], applied, result)]
    BY <1>6 DEF Segment
  <2> HIDE DEF applied
  <2>2. \A j \in DOMAIN jobs : Executed(jobs[j], applied, result).valid = jobs[j].valid
    <3>1. \A j \in DOMAIN jobs : jobs[j] \in Job
      BY Rows
    <3> QED
      BY <3>1 DEF Executed, Job
  <2> QED
    BY <2>1, <2>2 DEF JobsKept
<1>9. runs'[k].status = "preparing_materials" => NeedsMaterials(r.state, jobs)
  <2>1. ASSUME NEW status \in {"waiting_approval", "failed", "succeeded", "running"},
               NEW recorded, NEW done, NEW pending,
               WriteRun(k, Ran(r, last, recorded, done, status, pending))
        PROVE  runs'[k].status # "preparing_materials"
    <3>1. status \in RunLifecycle
      BY DEF RunLifecycle
    <3>2. Moved(r, status) \in Run /\ Moved(r, status).status = status
      BY <1>3, <3>1, MovedRunType
    <3>3. Ran(r, last, recorded, done, status, pending).status = status
      BY <3>2 DEF Ran, Run
    <3>4. runs' = [runs EXCEPT ![k] = Ran(r, last, recorded, done, status, pending)]
      <4>1. ~(k > Len(runs))
        BY <1>2, Rows
      <4> QED
        BY <2>1, <4>1 DEF WriteRun
    <3>5. runs'[k] = Ran(r, last, recorded, done, status, pending)
      BY <1>2, <3>4, Rows
    <3> QED
      BY <3>3, <3>5
  <2>2. CASE WriteRun(k, Ran(r, last, last, last, "waiting_approval", Len(approvals) + 1))
    BY <2>1, <2>2
  <2>3. CASE WriteRun(k, Ran(r, last, last, last - 1, "failed", r.state.pending))
    BY <2>1, <2>3
  <2>4. CASE WriteRun(k, Ran(r, last, last, last, "succeeded", r.state.pending))
    BY <2>1, <2>4
  <2>5. CASE WriteRun(k, Ran(r, last, last, last, "running", r.state.pending))
    BY <2>1, <2>5
  <2> QED
    BY <1>6, <2>2, <2>3, <2>4, <2>5 DEF Segment
<1>10. JobFits(runs'[k], jobs')
  <2>1. JobFits(runs[k], jobs) /\ Active(runs[k])
    BY <1>2 DEF JobsFit, Active, ActiveStatuses
  <2>2. r.state.job # 0 => r.state.job \in DOMAIN jobs /\ jobs[r.state.job].valid
    BY <1>3, <2>1 DEF JobFits
  <2>3. runs'[k].status = "preparing_materials" => r.state.job = 0
    BY <1>9, <2>2 DEF NeedsMaterials
  <2> QED
    BY <1>7, <1>8, <2>2, <2>3 DEF JobFits, JobsKept
<1>11. ASSUME Active(runs'[k]) PROVE Spent(runs'[k]) >= Spent(runs[k]) + 0
  <2>1. runs[k].steps \in Seq(Nodes) /\ Len(runs[k].steps) \in Nat
    BY <1>2, LenProperties DEF Run
  <2>2. \/ Len(runs'[k].steps) = Len(runs[k].steps) + 1
        \/ Len(runs'[k].steps) = Len(runs[k].steps) /\ runs'[k].status = "preparing_materials"
    BY <1>5, <2>1
  <2> DEFINE a == runs[k]  b == runs'[k]
  <2> HIDE DEF a, b
  <2>3. /\ Len(a.steps) \in Nat /\ Len(b.steps) \in Nat
        /\ \/ Len(b.steps) > Len(a.steps)
           \/ Len(b.steps) = Len(a.steps) /\ Active(b) /\ b.status # "waiting_approval"
    BY <1>11, <2>1, <2>2 DEF a, b
  <2>4. \A g \in APPROVAL_NODES : Behind(g, a) => Behind(g, b)
    BY <2>3, BehindKept
  <2>5. a.state.job # 0 => b.state.job # 0
    BY <1>3, <1>7 DEF a, b
  <2>6. Spent(b) >= Spent(a) + 0
    BY <2>4, <2>5, SpentGrows
  <2> QED
    BY <2>6 DEF a, b
<1>12. Active(runs[k])
  BY <1>2 DEF Active, ActiveStatuses
<1>13. Len(outbox') <= Len(outbox) + 0
  BY <1>1, LenProperties DEF Inv, TypeOK, RowsOK
<1> QED
  BY <1>2, <1>7, <1>8, <1>10, <1>11, <1>12, <1>13, RunFew

LEMMA NextFew ==
  ASSUME Inv, Inv', RunsGood, [Next]_vars, WorkerMode, FewEvents, JobsFit
  PROVE  FewEvents' /\ JobsFit'
<1>1. Uncounted => FewEvents' /\ JobsFit'
  BY UncountedFew
<1>2. UNCHANGED <<runs, outbox, jobs>> => Uncounted
  BY OtherUncounted
<1>3. CASE RunsNext
  <2>1. ASSUME NEW c \in Clients, NEW u \in Users, NEW k
        PROVE  BeginStart(c, u) \/ BeginCancel(c, u, k) \/ BeginRetry(c, u, k) \/ Abandon(c) =>
                 UNCHANGED <<runs, outbox, jobs>>
    BY DEF BeginStart, BeginCancel, BeginRetry, Abandon, dbVars
  <2>2. ASSUME NEW u \in Users, NEW x
        PROVE  ReviseMaterials(u, x) \/ DeleteProject(u) \/ RestoreProject(u) \/ ChangeAccess(u, x) =>
                 UNCHANGED <<runs, outbox, jobs>>
    BY DEF ReviseMaterials, DeleteProject, RestoreProject, ChangeAccess, dbVars
  <2>3. ASSUME NEW c \in Clients PROVE Abandon(c) => UNCHANGED <<runs, outbox, jobs>>
    BY DEF Abandon, dbVars
  <2>4. /\ \A c \in Clients : CommitCancel(c) => Uncounted
        /\ \A u \in Users, a \in DOMAIN approvals : Reject(u, a) => Uncounted
        /\ \A u \in Users, k \in DOMAIN runs, p \in Revisions :
             ReviseConfiguration(u, k, p) => Uncounted
        /\ \A u \in Users, j \in DOMAIN jobs : \A a, result : ExecuteJob(u, j, a, result) => Uncounted
    BY OtherUncounted
  <2>5. ASSUME NEW u \in Users, NEW k \in DOMAIN runs, NEW valid \in BOOLEAN,
               ValidateImport(u, k, valid)
        PROVE  FewEvents' /\ JobsFit'
    <3>1. CASE valid = TRUE
      BY <2>5, <3>1, ValidateFew
    <3>2. CASE valid = FALSE
      BY <1>1, <2>5, <3>2, OtherUncounted
    <3> QED
      BY <3>1, <3>2
  <2>6. /\ \A c \in Clients : CommitStart(c) \/ CommitRetry(c) => FewEvents' /\ JobsFit'
        /\ \A u \in Users, a \in DOMAIN approvals : Approve(u, a) => FewEvents' /\ JobsFit'
    BY LaunchFew, ApproveFew
  <2>7. RunsNext => Uncounted \/ (FewEvents' /\ JobsFit')
    BY <1>2, <2>1, <2>2, <2>3, <2>4, <2>5, <2>6 DEF RunsNext
  <2> QED
    BY <1>1, <1>3, <2>7
<1>4. CASE WorkerNext
  <2>1. ASSUME NEW w, NEW e
        PROVE  Publish(e) \/ Lose(e) \/ Receive(w, e) => UNCHANGED <<runs, outbox, jobs>>
    BY DEF Publish, Lose, Receive, Take, TakeRefused, Skip, runsVars
  <2>2. ASSUME NEW w \in Workers, NEW http \in BOOLEAN
        PROVE  StepStopped(w) \/ StepFails(w, http) \/ Crash(w) => UNCHANGED <<runs, outbox, jobs>>
    BY DEF StepStopped, StepFails, Crash, runsVars
  <2>3. \A w \in Workers :
          StepDeleted(w) \/ FailRun(w) \/ StepRetried(w) \/ CommitFailed(w) \/ CommitDone(w) => Uncounted
    BY OtherUncounted
  <2>4. \A w \in Workers : StepNode(w) => FewEvents' /\ JobsFit'
    BY StepFew
  <2>5. ASSUME NEW w, NEW e PROVE Publish(e) \/ Lose(e) => UNCHANGED <<runs, outbox, jobs>>
    BY DEF Publish, Lose, runsVars
  <2> QED
    BY <1>1, <1>2, <1>4, <2>1, <2>2, <2>3, <2>4, <2>5 DEF WorkerNext, WorkerStep
<1>5. CASE UNCHANGED vars
  BY <1>1, <1>2, <1>5 DEF vars
<1> QED
  BY <1>3, <1>4, <1>5 DEF Next

(* A run leaves at most six events, so that the fairness FairSpec assumes  *)
(* of the beat task, for the events up to MaxEvents, leaves none out       *)
(* (dispatch: one event for the launch, one for each approval granted, one *)
(* for the upload a run waited for).                                       *)
THEOREM FairnessCoversEveryEvent == Spec => [](DOMAIN outbox \subseteq 1 .. MaxEvents)
<1>1. Init => FewEvents /\ JobsFit
  <2> SUFFICES ASSUME Init PROVE FewEvents /\ JobsFit
    OBVIOUS
  <2>1. runs = <<>> /\ outbox = <<>>
    BY DEF Init, RunsInit
  <2>2. Len(runs) = 0 /\ Len(outbox) = 0 /\ DOMAIN runs = {} /\ MaxRuns \in Nat
    BY <2>1, RunsAssumption
  <2> QED
    BY <2>2 DEF FewEvents, JobsFit
<1>2. Inv /\ Inv' /\ RunsGood /\ [Next]_vars /\ (WorkerMode => FewEvents /\ JobsFit) =>
        (WorkerMode => FewEvents /\ JobsFit)'
  BY NextFew DEF WorkerMode
<1>3. Inv /\ EventsGood /\ (WorkerMode => FewEvents /\ JobsFit) => DOMAIN outbox \subseteq 1 .. MaxEvents
  <2> SUFFICES ASSUME Inv, EventsGood, WorkerMode => FewEvents /\ JobsFit
               PROVE  DOMAIN outbox \subseteq 1 .. MaxEvents
    OBVIOUS
  <2>1. CASE WorkerMode
    <3> DEFINE o == Len(outbox)  l == Len(runs)
    <3>1. /\ DOMAIN outbox = 1 .. o /\ o \in Nat /\ l \in Nat /\ MaxRuns \in Nat
          /\ l <= MaxRuns /\ o <= 6 * l
      BY <2>1, RunsAssumption, LenProperties DEF Inv, TypeOK, RowsOK, FewEvents
    <3> HIDE DEF o, l
    <3>2. o <= 6 * MaxRuns
      BY <3>1
    <3> QED
      BY <3>1, <3>2 DEF MaxEvents
  <2>2. CASE ~WorkerMode
    BY <2>2 DEF EventsGood
  <2> QED
    BY <2>1, <2>2
<1> QED
  BY <1>1, <1>2, <1>3, GoodAlways, EventsAlways, PTL DEF Spec
=============================================================================
