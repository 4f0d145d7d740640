\* Two overlapping requests: a load of each of two parts that share an entry.
CONSTANTS
  None = None
  Providers = {p1}
  Parts = {"summary", "current"}
  Requests = {r1, r2}
  Endpoints = {"analytics", "dashboard"}
  Ttl = 2
  MaxRun = 1
SYMMETRY Symmetry
SPECIFICATION Spec
INVARIANTS
  TypeOK
  AnswersWhole
  OneWindow
