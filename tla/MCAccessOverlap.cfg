\* Every sequence of commands by every actor; once, two requests overlap.
SPECIFICATION BoundedSpec
CONSTANTS
  User = {u1, u2, u3}
  CustomRole = {c1}
  Fsp = {f1, f2}
  Seeded = u1
  Request = {q1, q2}
  NoFsp = NoFsp
  MaxOverlaps = 1
SYMMETRY Interchangeable
PROPERTIES ManagerRemains ScopeMatches FspManagerRemains
