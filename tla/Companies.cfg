\* A company with its administrator, another one, and people who join them;
\* two requests under way at once, one of them possibly an acceptance.
SPECIFICATION CompaniesSpec
CONSTANTS
  a = a
  b = b
  chief = chief
  CompanyIds = {a, b}
  First = a
  People = {chief, p1}
  Chief = chief
  BatchRows = {p1}
  Clients = {c1, c2}
  NoCompany = NoCompany
  MaxInvitations = 2
CONSTRAINT Bounded
SYMMETRY Interchangeable
INVARIANTS
  CompaniesTypeOK
  OneCompany
  PlacesUsed
  BatchOnce
PROPERTY DeadLinksStayDead
