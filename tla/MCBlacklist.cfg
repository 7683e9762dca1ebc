CONSTANTS
  Key = {m1, m2}
  TTL = 2
  MaxStrikes = 3
  MaxTime = 7
  MaxCount = 4
  MAX_LOG_BYTES = 2
  LOG_BACKUP_COUNT = 2
  MaxLines = 5
  MaxFlushes = 1
  MaxFaults = 1
  Provider = {"p", "q"}
  Work = {"restore", "refresh"}
  Detached = {"refresh"}
  MaxEntries = 2
  MaxSessions = 2
  MaxReports = 1
  Id = {"free", "paid"}
  FreeId = {"free"}
  MAX_RECENT_CALLS = 1
  IN_FLIGHT_TTL = 2
  MAX_SANE_LATENCY = 1
  QUOTA_TTL = 1
  MaxCallRuns = 2
  MaxTurns = 2
  MaxResponses = 1
  MaxSelects = 1
  WINDOW = 2
  MaxRuns = 4
  Horizon = 3
SPECIFICATION MCSpec
SYMMETRY Symmetry
INVARIANTS TypeOK WindowHoldsStreak JournalsSound
PROPERTIES FailureBans HardBanOutlastsWindow
CHECK_DEADLOCK FALSE
