\* The timeout and crash stages, with and without other failures.
SPECIFICATION DrillSpec
CONSTANTS
  lost = lost
  sending = sending
  retry = retry
  after = after
  k1 = k1
  k2 = k2
  Call       = {lost, sending, retry, after}
  Key        = {k1, k2}
  KeyOf      <- DrillKeys
  BodyOf     <- DrillBodies
  NoBody     = 0
  Slow       = FALSE
  MaxAttempts = 1
  MaxArms    = 2
  MaxKills   = 1
  MaxOutages = 0
INVARIANTS
  PassedMeansHit
  NoFalseAlarm
CHECK_DEADLOCK FALSE
