\* The owner revokes a collaboration while the partner accepts the invitation.
\* The named constants are those of ProjectAccess.cfg, without support access.
SPECIFICATION AccessSpec
CONSTANTS
  owner = owner
  partner = partner
  chief = chief
  ally = ally
  member1 = member1
  Companies = {owner, partner}
  Owner = owner
  People = {chief, ally, member1}
  Movable = {member1}
  Assignable = {member1}
  Home <- OneMemberMoves
  Staff = {s1}
  SuperAdmins = {}
  Clients = {c1, c2}
  Roles = {"project_manager", "viewer"}
  Capabilities = {"run.start"}
  SupportCodes <- ViewAndRuns
  MaxSupport = 0
PROPERTY RevokedCompaniesOut
