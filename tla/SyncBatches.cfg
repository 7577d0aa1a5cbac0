\* batches of two events that partly fail, for two providers that must both have them; the bot
\* runs without a provider the workers may have
SPECIFICATION Spec
CONSTANTS
  e1 = e1  e2 = e2
  supabase = supabase  turso = turso  neon = neon
  w1 = w1  w2 = w2  none = none
  Event = {e1, e2}
  Provider = {supabase, neon}
  Required = {supabase, neon}
  WorkerId = {w1}
  NoWorker = none
  MaxAttempts = 1
  BatchLimit = 2
  MaxPushes = 2
  BotPolicies <- OnlyWithoutNeon
  WorkerPolicies <- BothPolicies
  MayStick = {}
  LegacyWorker = FALSE
SYMMETRY Symmetry
INVARIANTS CompleteMeansReplicated NoMissedCompletion
PROPERTY ImplementsReplicatedOutbox
