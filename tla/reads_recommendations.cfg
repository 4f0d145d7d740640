\* Recommendations while providers and Redis work.
CONSTANTS
  None = None
  Failing = Failing
  Providers = {p1}
  Versions = {v1}
  Requests = {r1}
  Endpoints = {"recommendations"}
  Ttl <- MCShortTtl
  MaxRun = 1
  MaxEdits = 0
  Horizon = 0
SPECIFICATION Spec
INVARIANTS
  RecommendationsServed
