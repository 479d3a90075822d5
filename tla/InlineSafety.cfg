SPECIFICATION Spec
CONSTANTS
  Revisions = {"r1"}
  Users = {u1, u2}
  NoUser = nobody
  PersonalOwner = nobody
  Partners = {}
  Clients = {c1, c2}
  AccessLevels = {"full"}
  Migrations = {TRUE, FALSE}
  Deletions = {FALSE}
  ExecutionMode = "inline"
  MaxRuns = 2
  MaxJobs = 2
  MaxApprovals = 3
  MaxProjectVersion = 2
  MaxRaced = 1
  Workers = {w1}
  MaxCopies = 1
  MaxFaults = 0
CONSTRAINT RacesUnrevised
SYMMETRY Interchangeable
INVARIANTS
  OneActiveRun
  OpenApprovalIffWaiting
  GatesIndependent
  WorkspaceAsApproved
  ImportsApproved
  GrantsHold
  CompletedWasReady
PROPERTIES
  DecisionsStand
