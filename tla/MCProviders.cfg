CONSTANTS
  Ports = {1, 2}
  Providers = {"google", "github"}
  ExpiresIn = 4
  MaxAttempts = 3
  Latency = 2
  Floor = 1
  Margin = 2
  Hour = 3
  Long = 5
  Lives = {1, 4}
  MaxTime = 8
  MaxTokens = 3
  MaxPiece = 3
  Tool = {1}
  MaxOther = 2
  Model = {m1, m2}
  MaxRetries = 1
  MaxTickets = 3
  MaxLeakRetries = 2
  MaxTries = 3
  Reader = {1, 2}
  MODELS_DEV_RETRIES = 2
  MODELS_DEV_CACHE_TTL = 2
  MaxAge = 3
SPECIFICATION MCSpec
INVARIANTS LoginsSafe AnswersSound CatalogsSound
PROPERTIES CancelHolds HeldBack ProvidersEnd
CHECK_DEADLOCK FALSE
