SPECIFICATION Spec
CONSTANTS
  Revisions = {}
  Users = {u1, u2}
  NoUser = nobody
  PersonalOwner = nobody
  Partners = {}
  Clients = {c1}
  AccessLevels = {"full"}
  Migrations = {FALSE}
  Deletions = {TRUE, FALSE}
  ExecutionMode = "worker"
  MaxRuns = 1
  MaxJobs = 0
  MaxApprovals = 0
  MaxProjectVersion = 1
  MaxRaced = 0
  Workers = {w1, w2}
  MaxCopies = 2
  MaxFaults = 3
SYMMETRY Interchangeable
CONSTRAINT UpToSecondGate
INVARIANTS
  TypeOK
  NodesOnceInOrder
  ActiveRunHasEvent
  GivenUpAtThird
PROPERTIES
  GatesKept
  EndedStaysEnded
