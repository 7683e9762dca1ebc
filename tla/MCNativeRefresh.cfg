CONSTANTS
  a = a  b = b
  Provider = {a, b}
  NoToken = {b}
  MaxRetries = 1
  MaxFaults = 1
  MaxSessions = 2
  MaxReloads = 1
  MaxStorms = 2
SPECIFICATION FairSpec
INVARIANTS CatalogsWhole
PROPERTIES NoDowngrade NudgesEnd CleanWithoutReload GivesUpLast
CHECK_DEADLOCK FALSE
