\* Two console requests and one script that share two phone numbers.
SPECIFICATION Spec
CONSTANTS
  Console     = {c1, c2}
  Script      = {s1}
  Phone       = {p1, p2}
  Withdrawals = 2
  MaxTries    = 2
  MaxResets   = 1
  None        = None
INVARIANTS
  TypeOK
  OwnUserOnly
  SeededOnce
PROPERTIES
  MadeIsWhole
  EveryRequestEnds
