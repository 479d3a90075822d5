SPECIFICATION Spec
CONSTANTS
  Revisions = {}
  Users = {u1, u2}
  NoUser = nobody
  PersonalOwner = nobody
  Partners = {}
  Clients = {c1}
  AccessLevels = {"full"}
  Migrations = {FALSE}
  Deletions = {FALSE}
  ExecutionMode = "inline"
  MaxRuns = 2
  MaxJobs = 0
  MaxApprovals = 0
  MaxProjectVersion = 1
  MaxRaced = 0
  Workers = {w1}
  MaxCopies = 1
  MaxFaults = 0
SYMMETRY Interchangeable
PROPERTIES
  CompletedNeverRestarts
