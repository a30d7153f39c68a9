\* Two workers and few requests: interleavings, key-set outages, restarts, time.
SPECIFICATION Spec
CONSTANTS
  Worker = {w1, w2}
  Spelling <- MCSpelling
  HeaderName <- MCHeaderName
  Fold <- MCFold
  Value <- MCValue
  Token <- MCToken
  Claims <- MCClaims
  Subject <- MCSubject
  OddSubject <- MCOddSubject
  Skew = 1
  Segment <- MCSegment
  ClientRequest <- NarrowRequests
  Configuration <- NarrowConfigurations
  InternalHeaders <- MCInternalHeaders
  PublicEndpoints <- MCPublicEndpoints
  Trace <- MCTrace
  TokenOf <- MCTokenOf
  NoToken = "noToken"
  ValidKey <- MCValidKey
  MaxTime = 3
  Nothing = Nothing
INVARIANTS
  TraceAgrees
PROPERTIES
  NotExpiredWhenAdmitted
  EveryRequestMovesOn
