\* One scheduler and two editing clients on one alert: all faults and edits.
CONSTANTS
  a1 = a1
  a2 = a2
  u1 = u1
  None = None
  Alerts = {a1}
  Users = {u1}
  Schedulers = {s1}
  Endpoints = {}
  Clients = {c1, c2}
  Owner <- MCOwner
  NewConfigs <- OneConfig
  Patches <- EditPatches
  MaxTime = 2
  MaxFaults = 1
  MinCooldown = 1
SPECIFICATION Spec
SYMMETRY AnyClient
INVARIANTS
  CooldownHonoured
PROPERTIES
  OnlyOvertakenPatchSpoils
  NoLostPatch
  LedgerSpec
