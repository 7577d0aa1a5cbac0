SPECIFICATION FairSpec
CONSTANTS
  Channel = {c1}
  c1 = c1
  Old = 1
  First = 4
  PageSize = 2
  MaxPages = 2
  MaxJobs = 1
  MaxMessages = 5
  MaxRequests = 3
  MaxFaults = 2
  MaxDeletions = 1
INVARIANTS TypeOK CompletedWithoutGap
PROPERTIES DeletionTakesOlderImports WorkingJobEnds
CHECK_DEADLOCK FALSE
