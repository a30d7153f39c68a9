\* Two jobs share one folder, as two compose projects with the default MOAJE_GRPC_CERTS_DIR do.
SPECIFICATION Spec
CONSTANTS
  Job     = {j1, j2}
  Order   <- TwoServices
  Key     = {k1, k2, k3, k4, k5, k6, k7, k8, k9}
  Life    = 1
  MaxTime = 0
  Absent  = Absent
  Torn    = Torn
PROPERTY KeysNotReplaced
