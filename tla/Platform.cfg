SPECIFICATION PlatformSpec
CONSTANTS
  MaxCount = 3
  DefIds = {1, 2}
  DefNames = {n1, n2}
  DefRequests = {w1, w2}
  MaxDefRequests = 4
  OrgIsProject = TRUE
  Names <- MCNames
  DependsOn <- MCDependsOn
  Plan <- MCPlan
  MaxRegFaults = 2
  MaxPublished = 2
  IdRequests = {r1, r2, r3}
  MaxTokens = 3
  MaxResets = 1
  Users = {u1, u2}
  TenantRequests = {t1, t2}
  MaxInvitations = 1
  CampRounds = 6
  CampThreshold = 8
  CampResults <- MCCampResults
  MaxCampCrashes = 1
  Gates = {r1, r2, r3}
  FailureThreshold = 2
  RecoveryTimeout = 1
  HalfOpenMaxCalls = 1
  SuccessThreshold = 2
  FailureWindow = 1
  Requests = {r1, r2, r3}
  MaxRetries = 1
  RequestTimeout = 2
  RetryBudget = 3
  RequestsPerWindow = 3
  RateWindow = 1
  ConcurrentRequests = 2
  MaxTime = 3
  MaxGeneration = 1
SYMMETRY Symmetric
INVARIANT PlatformTypeOK
PROPERTY ProgressMonotone
INVARIANT StartOrderSound
INVARIANT ConsumersMatchSubscriptions
PROPERTY StrayMovesAreStale
INVARIANT OneSessionPerLogin
INVARIANT OwnerLostOnlyToCrossing
INVARIANT ReplayRebuildsCampaign
INVARIANT DuplicatesOnlyInWindow
INVARIANT ProbeSlotsExact
INVARIANT ConcurrencyExact
INVARIANT RateWindowHeld
PROPERTY OpensOnThreshold
CHECK_DEADLOCK FALSE
