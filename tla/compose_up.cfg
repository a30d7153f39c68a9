\* Start, failure, restart and certificate rotation of the stack; repeated
\* start commands.
SPECIFICATION Spec
CONSTANTS
  Stack = {"grpc-cert-init", "kafka", "asset", "banking", "work", "gateway"}
  Retries = 2
  MaxUpsets = 2
INVARIANTS TypeOK GatewayOpensLast
PROPERTIES
  CertsAtLaunch
  UpEnds
  Recovers
