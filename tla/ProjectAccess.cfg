\* A company, a partner, their administrators and a person who may be moved
\* between them; two requests under way at once.
SPECIFICATION AccessSpec
CONSTANTS
  owner = owner
  partner = partner
  chief = chief
  ally = ally
  member1 = member1
  Companies = {owner, partner}
  Owner = owner
  People = {chief, ally, member1}
  Movable = {member1}
  Assignable = {member1}
  Home <- OneMemberMoves
  Staff = {s1}
  SuperAdmins = {}
  Clients = {c1, c2}
  Roles = {"project_manager", "viewer"}
  Capabilities = {"run.start"}
  SupportCodes <- ViewAndRuns
  MaxSupport = 1
CONSTRAINT Apart
SYMMETRY Interchangeable
INVARIANTS
  AccessTypeOK
  ListedIffOpens
  AppWithinRLS
  RevocationHolds
  RemovalStands
  SupportEnds
