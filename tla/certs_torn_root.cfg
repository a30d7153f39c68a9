\* A copy of the root that a crash tore, and the next run.
SPECIFICATION Spec
CONSTANTS
  Job     = {j1}
  Order   <- TwoServices
  Key     = {k1, k2, k3, k4, k5, k6, k7, k8, k9}
  Life    = 1
  MaxTime = 0
  Absent  = Absent
  Torn    = Torn
PROPERTY CompletedRootsWhole
