\* A request at a time, through all three levels of caching.
CONSTANTS
  None = None
  Providers = {p1}
  Parts = {"summary", "previous"}
  Requests = {r1}
  Endpoints = {"drivers", "dashboard", "insights"}
  Ttl = 2
  MaxRun = 1
SPECIFICATION Spec
INVARIANTS
  StackedAge
