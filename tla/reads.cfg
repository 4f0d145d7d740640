\* Two concurrent requests for budget evaluations and forecasts: how old costs get.
CONSTANTS
  None = None
  Failing = Failing
  Providers = {p1}
  Versions = {v1}
  Requests = {r1, r2}
  Endpoints = {"budget", "forecast"}
  Ttl <- MCTtl
  MaxRun = 1
  MaxEdits = 0
  Horizon = 6
SYMMETRY Symmetry
SPECIFICATION Spec
INVARIANTS
  TypeOK
PROPERTIES
  AnswersFresh
