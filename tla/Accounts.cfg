\* Two people, two addresses, a member of staff; two requests at once.
SPECIFICATION AccountsSpec
CONSTANTS
  Customers = {u, v}
  Staff = {s}
  Addresses = {a1, a2}
  NoAddress = NoAddress
  NoUser = NoUser
  Clients = {c1, c2}
  Slots = {x1, x2}
  MaxLinks = 2
CONSTRAINT Apart
SYMMETRY Interchangeable
INVARIANTS
  AccountsTypeOK
  SessionsEnd
  OneTimeLinks
  OneAddress
PROPERTY AddressStays
