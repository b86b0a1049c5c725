CONSTANTS
  DaySeconds = 2
  Batches <- MCBatches
  Subscriptions <- MCSubscriptions
  CallbackResets <- MCCallbackResets
  MaxResets = 1
  Signals <- MCSignals
SPECIFICATION FairSpec
INVARIANTS
  SatellitesWhole
