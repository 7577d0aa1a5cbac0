\* the day bucket of a channel, one worker process that recovers from every failure; requests that arrive
\* late or never; the provider is switched on and off
SPECIFICATION FairSpec
CONSTANTS
  w1 = w1  supabase = supabase  none = none
  DayLength = 1
  Bucket <- OneChannelDay
  Provider = {supabase}
  Policies <- OnAndOff
  WorkerId = {w1}
  NoWorker = none
  MaxAttempts = 2
  Shapes <- TalkAndVoice
  Scale = 2
  MaxMs = 2
  BatchSize = 1
  MaxPushes = 2
INVARIANTS TypeOK CleanMeansComplete SyncedMeansCurrentInCloud
PROPERTIES CloudNeverGoesBack EventReachesCloud
