------------------------------ MODULE Workflow ------------------------------
(***************************************************************************)
(* The implementation workflow of backend/workflow.py: the fixed list of   *)
(* nodes an Agent run goes through, the four of them that stop for an      *)
(* approval, and the part of the run's JSON state that decides where the   *)
(* run resumes and what an approval is about.                              *)
(*                                                                         *)
(* A node is its position in NODES.  The state of a run is abstracted to   *)
(*   node       the last node entered (current_node)                       *)
(*   completed  the nodes done (completed_nodes)                           *)
(*   config     the configuration proposal (configuration_changes), named  *)
(*              by what it proposes, and base, what it would replace       *)
(*   job        the import job of the run, 0 for none (import_job_id)      *)
(*   pending    the approval waited for, 0 for none (pending_approval_id)  *)
(***************************************************************************)
EXTENDS StateMachine, Sequences

CONSTANT Revisions            \* proposals a consultant may put in place of the standard one

NODES ==
  <<"create_project", "collect_requirements", "retrieve_product_knowledge",
    "gap_analysis", "generate_implementation_plan", "plan_approval",
    "inspect_tenant_configuration", "generate_configuration_changes",
    "configuration_approval", "apply_configuration", "validate_import_files",
    "import_approval", "execute_import", "generate_training_materials",
    "run_go_live_checks", "acceptance_approval", "close_project">>

PlanApproval          == 6
GenerateChanges       == 8
ConfigurationApproval == 9
ApplyConfiguration    == 10
ValidateImportFiles   == 11
ImportApproval        == 12
ExecuteImport         == 13
GenerateTraining      == 14
RunGoLiveChecks       == 15
AcceptanceApproval    == 16
CloseProject          == 17

Nodes == 1 .. 17

ASSUME NodePositions ==
  /\ DOMAIN NODES = Nodes
  /\ NODES[PlanApproval] = "plan_approval"
  /\ NODES[GenerateChanges] = "generate_configuration_changes"
  /\ NODES[ConfigurationApproval] = "configuration_approval"
  /\ NODES[ApplyConfiguration] = "apply_configuration"
  /\ NODES[ValidateImportFiles] = "validate_import_files"
  /\ NODES[ImportApproval] = "import_approval"
  /\ NODES[ExecuteImport] = "execute_import"
  /\ NODES[GenerateTraining] = "generate_training_materials"
  /\ NODES[RunGoLiveChecks] = "run_go_live_checks"
  /\ NODES[AcceptanceApproval] = "acceptance_approval"
  /\ NODES[CloseProject] = "close_project"

ASSUME RevisionsAreProposals == Revisions \cap {"none", "standard"} = {}

ApprovalNodesButPlan == {ConfigurationApproval, ImportApproval, AcceptanceApproval}

(* The node names its approval kind: APPROVAL_NODES is one to one. *)
APPROVAL_NODES == {PlanApproval, ConfigurationApproval, ImportApproval, AcceptanceApproval}

Proposals == {"none", "standard"} \cup Revisions

(* The state a new run starts from; a retried import brings its job along. *)
InitialState(job) ==
  [node |-> 1, completed |-> {}, config |-> "none", base |-> "none",
   job |-> job, pending |-> 0]

(* A resumption that repeats the node it stopped at. *)
StartIndexRepeats(s) == s.node

(* Where advance resumes: past the current node once that is completed. *)
StartIndex(s) == IF s.node \in s.completed THEN s.node + 1 ELSE s.node

(* A state whose proposal is generated again at every resumption. *)
StateThroughAnew(s, last, done, applied) ==
  [s EXCEPT !.node      = last,
            !.completed = @ \cup (StartIndex(s) .. done),
            !.config    = IF done >= GenerateChanges THEN "standard" ELSE @,
            !.base      = IF done >= GenerateChanges THEN applied ELSE @]

(* The state at node last, with the nodes up to done completed; applied is *)
(* the configuration of the workspace, which a proposal records as the     *)
(* value it replaces.                                                      *)
StateThrough(s, last, done, applied) ==
  LET ran == StartIndex(s) .. done
  IN  [s EXCEPT
         !.node      = last,
         !.completed = @ \cup ran,
         !.config    = IF GenerateChanges \in ran THEN "standard" ELSE @,
         !.base      = IF GenerateChanges \in ran THEN applied ELSE @]

(* What an approval of a kind is about (delivery.material): a plan never   *)
(* changes once made, a configuration is its proposal with the values it   *)
(* replaces, an import is its job.                                         *)
Material(kind, s) ==
  [config |-> IF kind = ConfigurationApproval THEN s.config ELSE "none",
   base   |-> IF kind = ConfigurationApproval THEN s.base ELSE "none",
   job    |-> IF kind = ImportApproval THEN s.job ELSE 0]
=============================================================================
