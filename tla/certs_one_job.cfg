\* One job at a time, two services, crashes, removals and the clock.
SPECIFICATION Spec
CONSTANTS
  Job     = {j1}
  Order   <- TwoServices
  Key     = {k1, k2, k3, k4, k5, k6, k7, k8, k9}
  Life    = 1
  MaxTime = 2
  Absent  = Absent
  Torn    = Torn
PROPERTIES
  CompletedSetsMatch
  CompletedSetsValid
  NeverOverwritten
  RefusesOnlyBroken
  KeepsTrust
