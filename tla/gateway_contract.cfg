\* One worker; every kind of token, header, path and configuration.
SPECIFICATION Spec
CONSTANTS
  Worker = {w1}
  Spelling <- MCSpelling
  HeaderName <- MCHeaderName
  Fold <- MCFold
  Value <- MCValue
  Token <- MCToken
  Claims <- MCClaims
  Subject <- MCSubject
  OddSubject <- MCOddSubject
  Skew = 1
  Segment <- MCSegment
  ClientRequest <- WideRequests
  Configuration <- WideConfigurations
  InternalHeaders <- MCInternalHeaders
  PublicEndpoints <- MCPublicEndpoints
  Trace <- MCTrace
  TokenOf <- MCTokenOf
  NoToken = "noToken"
  ValidKey <- MCValidKey
  MaxTime = 3
  Nothing = Nothing
INVARIANTS
  TypeOK
  IdentityVerified
  InternalHeadersHidden
  CopiedOnce
  TransferKeyed
PROPERTIES
  ImplementsBoundary
