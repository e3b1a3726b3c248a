\* Two requests (three of the rate limiter) race in each of the components.
SPECIFICATION Spec
CONSTANTS
  r1 = r1
  r2 = r2
  h3 = h3
  MaxPairs = 2
  AuthReqs = {r1, r2}
  AccessTTL = 1
  RefreshTTL = 2
  AuthHorizon = 2
  Hits = {r1, r2, h3}
  LimitOf <- RateLimits
  Window = 2
  RateHorizon = 4
  NameReqs = {r1, r2}
  Views = {r1, r2}
  MaxAccess = 1
  ShareTTL = 3
  PreviewTTL = 1
  ShareHorizon = 7
  Editors = {r1, r2}
  MaxSecret = 1
SYMMETRY Symmetry
INVARIANTS
  TypeOK
  RevokedIsRefused
  IdentityIsCurrent
  ScopesOnlyRestrict
  RolesIntersect
  WindowHolds
  ImportsAreAnswered
  ReportIsSealed
  NamesAreTakenInOrder
PROPERTIES
  SecretsSurviveEdits
\* The clocks stop at their bounds, and every pair of tokens is issued once.
CHECK_DEADLOCK FALSE
