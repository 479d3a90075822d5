------------------------------ MODULE MCWorker ------------------------------
(***************************************************************************)
(* Worker for TLC: the symmetries of its instances and the part of a run   *)
(* that the races between workers are explored in.                         *)
(***************************************************************************)
EXTENDS Worker

(* People of a company, clients and workers are interchangeable.           *)
Interchangeable == Permutations(Users) \cup Permutations(Clients) \cup Permutations(Workers)

(* A request is followed if what it has loaded lets it commit; otherwise   *)
(* it is bound to be refused and changes nothing.                          *)
MayCommit(r) ==
  \/ r = Idle
  \/ r.op = "cancel" /\ r.loadedRun.status \in ActiveStatuses
  \/ r.op = "start" /\ Latest < MaxRuns /\ CanMoveProject(r.loaded, "in_progress")
  \/ r.op = "retry" /\ Latest < MaxRuns /\ r.result = "partial_failed"

Promising == \A c \in Clients : MayCommit(req[c])

(* Two such requests overlap as long as the documents ask for a migration, *)
(* without which there is nothing to retry, and no proposal was revised,   *)
(* and are then of one person: who sent a request is only compared with    *)
(* those who decide and revise later, and not with other requests.         *)
RacesUnrevised ==
  /\ Promising
  /\ (\A c \in Clients : req[c] # Idle)
       => /\ project.migration
          /\ \A c, d \in Clients : req[c].user = req[d].user
          /\ \A k \in DOMAIN runs : runs[k].state.config \notin Revisions

(* Steps are explored up to the second gate, that is the start, a decision *)
(* and the resumption after it, and with at most two messages waiting.     *)
UpToSecondGate == Promising /\ Len(approvals) <= 1 /\ BagCardinality(broker) <= 2
=============================================================================
