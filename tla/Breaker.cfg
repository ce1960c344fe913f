SPECIFICATION FairSpec
CONSTANTS
  Call = {c1, c2, c3}
  FailureThreshold = 2  SuccessThreshold = 2  HalfOpenMaxProbes = 1
  Models = 2  MaxAttempts = 2
  Cancelling = {c1}
INVARIANTS NoPhantomProbe
PROPERTIES OpenIsTimed Recovers
CHECK_DEADLOCK FALSE
