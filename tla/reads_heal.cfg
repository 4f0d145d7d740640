\* The services in turn: outages, edits of the budget, restarts, and recovery.
CONSTANTS
  None = None
  Failing = Failing
  Providers = {p1}
  Versions = {v1}
  Requests = {r1}
  Endpoints = {"explorer", "recommendations", "forecast", "budget"}
  Ttl <- MCShortTtl
  MaxRun = 1
  MaxEdits = 1
  Horizon = 0
SPECIFICATION FairSpec
INVARIANTS
  EvaluationOfBudgetRead
  OutageNotCached
PROPERTIES
  EveryAnswerConverges
