\* a message and a reaction in one channel, stamped in different units
SPECIFICATION Spec
CONSTANTS
  w1 = w1  supabase = supabase  none = none
  DayLength = 1
  Bucket <- OneChannelDay
  Provider = {supabase}
  Policies <- AlwaysOn
  WorkerId = {w1}
  NoWorker = none
  MaxAttempts = 2
  Shapes <- TalkAndReaction
  Scale = 2
  MaxMs = 2
  BatchSize = 1
  MaxPushes = 1
INVARIANT CleanIncludesLateEvents

