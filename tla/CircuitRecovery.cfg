\* an unreliable provider, rejected rounds, crashes; SQLite throws in some behaviours
SPECIFICATION FairSpec
CONSTANTS
  Threshold = 2
  OpenTime = 3
  s1 = s1  s2 = s2  s3 = s3
  Slot = {s1, s2, s3}
INVARIANTS ProbeIsThePush CrashForgetsNothing
PROPERTY ProviderIsTriedAgain
