\* The scheduler and POST /alerts/evaluate on one alert, enabled or not, with faults.
CONSTANTS
  a1 = a1
  a2 = a2
  u1 = u1
  None = None
  Alerts = {a1}
  Users = {u1}
  Schedulers = {s1}
  Endpoints = {h1}
  Clients = {}
  Owner <- MCOwner
  NewConfigs <- OnAndOff
  Patches = {}
  MaxTime = 3
  MaxFaults = 1
  MinCooldown = 0
SPECIFICATION FairSpec
INVARIANTS
  TypeOK
  RecordedWasDelivered
  UnrecordedMailNeedsFault
PROPERTIES
  DisabledAlertFallsSilent
  DueAlertIsMailed
