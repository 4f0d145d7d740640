\* One tab of one browser, two accounts, one accident.
SPECIFICATION Spec
CONSTANTS
  Accounts = {a, b}
  Tabs = {t1}
  AccessTtl = 2
  RefreshTtl = 3
  MaxTime = 3
  MaxRun = 1
  None = None
PROPERTIES
  LoginSignsIn
