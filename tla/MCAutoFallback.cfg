CONSTANTS
  a = a  b = b  c = c  p = p  q = q
  NoModel = NoModel
  Model <- MCModel
  Provider <- MCProvider
  ProviderOf <- MCProviderOf
  Rank <- MCRank
  Free <- MCModel
  Flaky = {b}
  Scope = "provider"
  Whitelist = {}
  Restore = TRUE
  AutoContinueMax = 2
  TTL = 0
  MaxStrikes = 2
  MaxHistory = 2
  MaxTime = 1
  MaxRuns = 2
  MaxPicks = 1
  MaxSessions = 1
  MaxToggles = 1
SPECIFICATION Spec
INVARIANTS TypeOK ReplaysBounded TagScoped SwitchesSound MessageOfThisRun
PROPERTIES ReplayOnNewModel
CHECK_DEADLOCK FALSE
