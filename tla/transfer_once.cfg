\* Three calls, two of them with one key, in any order and overlap; the mock
\* bank may be slow; the delay is armed and Banking killed once.  Bound: events
\* are not followed into Kafka.
SPECIFICATION Spec
CONSTANTS
  first = first
  again = again
  second = second
  k1 = k1
  k2 = k2
  Call       = {first, again, second}
  Key        = {k1, k2}
  KeyOf      <- TwoKeys
  BodyOf     <- AskedOther
  NoBody     = 0
  Slow       = TRUE
  MaxAttempts = 1
  MaxArms    = 1
  MaxKills   = 1
  MaxOutages = 0
CONSTRAINT EventsStay
INVARIANTS
  TypeOK
  MovedOnce
  CountTells
  HeldIsReconciled
CHECK_DEADLOCK FALSE
