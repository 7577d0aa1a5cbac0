SPECIFICATION FairSpec
CONSTANTS
  Instance = {i1, i2}
  NoInstance = none
  i1 = i1
  i2 = i2
  Ttl = 2
  Renew = 1
  Safety = 0
  QueryTimeout = 0
  Backoff = 1
  MaxFails = 1
  HeartbeatWait = 0
  Grace = 0
  Prompt = TRUE
PROPERTY StaleOwnerDisconnects
PROPERTY ShutdownTerminates
