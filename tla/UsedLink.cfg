\* A link that two requests read as unused before either has spent it.
SPECIFICATION AccountsSpec
CONSTANTS
  Customers = {u, v}
  Staff = {}
  Addresses = {a1, a2}
  NoAddress = NoAddress
  NoUser = NoUser
  Clients = {c1, c2}
  Slots = {x1, x2}
  MaxLinks = 2
SYMMETRY Interchangeable
INVARIANT LinksActAtMostOnce
