SPECIFICATION Spec
CONSTANTS
  Instance = {i1, i2}
  NoInstance = none
  i1 = i1
  i2 = i2
  Ttl = 5
  Renew = 2
  Safety = 1
  QueryTimeout = 1
  Backoff = 3
  MaxFails = 1
  HeartbeatWait = 1
  Grace = 3
  Prompt = TRUE
SYMMETRY Symmetry
INVARIANTS TypeOK OneTokenPerOwner ProofIsSound OverlapIsBounded
PROPERTY OwnerIsUndisturbed
