SPECIFICATION Spec
CONSTANTS
  Requests = {r1, r2}
  Figures = {"old", "new"}
  Small = {"3"}
  Events <- MCEvents
  Anomalies <- MCAnomalies
  Questions = {"cost", "optimization", "unsupported"}
  AiTtl = 1
  DetectTtl = 2
  Quota = 1
  MaxRun = 1
  MaxFaults = 1
  None = None
SYMMETRY Symmetry
INVARIANTS
  TypeOK
  OwnFacts
  ClaimsSupported
  StatusHonest
PROPERTIES
  PaidIsKept
