SPECIFICATION Spec
CONSTANTS
  g1 = g1
  d1 = d1
  c1 = c1
  r1 = r1
  Settings = Settings
  Guild = {g1}
  Developer = {d1}
  Channel = {c1}
  Role = {r1}
  Keep <- KeepNothing
  PlanTtl = 2
  LockTtl = 1
  Reclaim = 0
  GuildCooldown = 1
  DeveloperCooldown = 2
  MaxClock = 2
  MaxPlans = 2
  MaxRequests = 1
  MaxInputs = 2
INVARIANTS TypeOK PlanPerformedOnce DeletedWasSaved RespectsCooldown
CHECK_DEADLOCK FALSE
