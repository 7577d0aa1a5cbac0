\* two worker processes: one dies, is stopped or comes back late, the other takes over; the bot
\* switches Multi-DB mode; the single-replica worker runs before and in between
SPECIFICATION FairSpec
CONSTANTS
  e1 = e1  e2 = e2
  supabase = supabase  turso = turso  neon = neon
  w1 = w1  w2 = w2  none = none
  Event = {e1}
  Provider = {supabase}
  Required = {supabase}
  WorkerId = {w1, w2}
  NoWorker = none
  MaxAttempts = 2
  BatchLimit = 2
  MaxPushes = 2
  BotPolicies <- MultiDbOnAndOff
  WorkerPolicies <- AllEnabled
  MayStick = {supabase}
  LegacyWorker = TRUE
INVARIANTS TypeOK NothingAcknowledgedUnstored
PROPERTIES AcknowledgementsAreFinal EventuallySettled
