---------------------------- MODULE StateMachine ----------------------------
(***************************************************************************)
(* The two lifecycles of backend/state_machine.py: the status of a project *)
(* and the status of one of its Agent runs, each with the table of the     *)
(* moves it allows.  A row carries a version that grows with every change  *)
(* of status (optimistic concurrency, and the key of the outbox).          *)
(***************************************************************************)
EXTENDS Naturals

ProjectLifecycle ==
  {"draft", "ready", "in_progress", "blocked", "completed", "cancelled", "archived"}

RunLifecycle ==
  {"pending", "running", "preparing_materials", "waiting_approval",
   "succeeded", "failed", "cancelled"}

PROJECT_TRANSITIONS ==
  [s \in ProjectLifecycle |->
     CASE s = "draft"       -> {"ready", "in_progress", "cancelled"}
       [] s = "ready"       -> {"in_progress", "cancelled"}
       [] s = "in_progress" -> {"blocked", "completed", "cancelled"}
       [] s = "blocked"     -> {"in_progress", "cancelled"}
       [] s = "completed"   -> {"archived"}
       [] s = "cancelled"   -> {"archived"}
       [] s = "archived"    -> {}]

RUN_TRANSITIONS ==
  [s \in RunLifecycle |->
     CASE s = "pending"             -> {"running", "cancelled"}
       [] s = "running"             -> {"preparing_materials", "waiting_approval",
                                        "succeeded", "failed", "cancelled"}
       [] s = "preparing_materials" -> {"running", "failed", "cancelled"}
       [] s = "waiting_approval"    -> {"running", "failed", "cancelled"}
       [] s = "succeeded"           -> {}
       [] s = "failed"              -> {}
       [] s = "cancelled"           -> {}]

(***************************************************************************)
(* _transition raises InvalidStateTransition unless CanMove holds; moving  *)
(* to the status a row already has is allowed and changes nothing.         *)
(***************************************************************************)
CanMove(transitions, current, target) ==
  current = target \/ target \in transitions[current]

(* A row after transition_project or transition_run to a legal target. *)
Moved(row, target) ==
  IF row.status = target THEN row
  ELSE [row EXCEPT !.status = target, !.version = @ + 1]

CanMoveProject(project, target) == CanMove(PROJECT_TRANSITIONS, project.status, target)

(* The statuses in which start_run and cancel_run treat a run as going on. *)
ActiveStatuses == {"pending", "running", "waiting_approval", "preparing_materials"}
=============================================================================
