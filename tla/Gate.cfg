SPECIFICATION FairSpec
CONSTANTS
  Calls = {r1, r2}
  Sinks = {s1, s2}
  Flaky = {s2}
  MaxCred = 3
  Sourceless = {3}
  Shared = shared
  MaxCrashes = 2
  Deploys <- MCDeploys
INVARIANTS
  MoneyIsLogged
  LossIsExplained
  PaidCallsAreLetIn
PROPERTIES
  ActsAsPaywall
  EveryCallEnds
CHECK_DEADLOCK FALSE
