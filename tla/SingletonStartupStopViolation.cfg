SPECIFICATION Spec
CONSTANTS
  Instance = {i1, i2}
  NoInstance = none
  i1 = i1
  i2 = i2
  Ttl = 9
  Renew = 3
  Safety = 1
  QueryTimeout = 1
  Backoff = 6
  MaxFails = 1
  HeartbeatWait = 2
  Grace = 5
  Prompt = TRUE
SYMMETRY Symmetry
INVARIANT ReleasedWhenDisconnected
