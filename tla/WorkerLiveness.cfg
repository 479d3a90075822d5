SPECIFICATION FairSpec
CONSTANTS
  Revisions = {}
  Users = {u1}
  NoUser = nobody
  PersonalOwner = u1
  Partners = {}
  Clients = {c1}
  AccessLevels = {"full", "no_start", "none"}
  Migrations = {FALSE}
  Deletions = {FALSE}
  ExecutionMode = "worker"
  MaxRuns = 1
  MaxJobs = 0
  MaxApprovals = 0
  MaxProjectVersion = 1
  MaxRaced = 0
  Workers = {w1}
  MaxCopies = 1
  MaxFaults = 1
PROPERTIES
  EventsProcessed
  RunsSettle
