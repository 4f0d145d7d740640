\* Two tabs of one browser, two accounts, one accident.
SPECIFICATION Spec
CONSTANTS
  Accounts = {a, b}
  Tabs = {t1, t2}
  AccessTtl = 2
  RefreshTtl = 3
  MaxTime = 3
  MaxRun = 1
  None = None
SYMMETRY Symmetry
INVARIANTS
  TypeOK
  TokensOfOneAccount
  SessionEnds
  LiveSessionServed
  OneAccountPerEmail
