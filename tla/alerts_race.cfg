\* The scheduler and POST /alerts/evaluate on one alert, without any fault.
CONSTANTS
  a1 = a1
  a2 = a2
  u1 = u1
  None = None
  Alerts = {a1}
  Users = {u1}
  Schedulers = {s1}
  Endpoints = {h1}
  Clients = {}
  Owner <- MCOwner
  NewConfigs <- OneConfig
  Patches = {}
  MaxTime = 1
  MaxFaults = 0
  MinCooldown = 1
SPECIFICATION Spec
INVARIANTS
  CooldownHonoured
