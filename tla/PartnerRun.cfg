SPECIFICATION Spec
CONSTANTS
  Revisions = {}
  Users = {u1}
  NoUser = nobody
  PersonalOwner = nobody
  Partners = {u1}
  Clients = {c1}
  AccessLevels = {"full"}
  Migrations = {FALSE}
  Deletions = {FALSE}
  ExecutionMode = "worker"
  MaxRuns = 1
  MaxJobs = 0
  MaxApprovals = 0
  MaxProjectVersion = 1
  MaxRaced = 0
  Workers = {w1}
  MaxCopies = 1
  MaxFaults = 0
INVARIANTS
  PartnersRunsExecute
