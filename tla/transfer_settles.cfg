\* A call and its repetition, a mock bank that answers within Banking's
\* patience or not at all, a kill and a Kafka outage.
SPECIFICATION FairSpec
CONSTANTS
  first = first
  again = again
  second = second
  k1 = k1
  k2 = k2
  Call       = {first, again}
  Key        = {k1}
  KeyOf      <- OneKey
  BodyOf     <- AskedAgain
  NoBody     = 0
  Slow       = FALSE
  MaxAttempts = 2
  MaxArms    = 1
  MaxKills   = 2
  MaxOutages = 1
PROPERTIES
  ImplementsOneTransfer
  EveryTransferEnds
CHECK_DEADLOCK FALSE
