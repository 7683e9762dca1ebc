CONSTANTS
  Task = {t1, t2}
  Command = {x1, x2}
  None = None
  MaxStarts = 3
  MaxReloads = 1
  a = a  b = b
  Provider = {a, b}
  DefaultsTrue = {b}
  MaxCommands = 3
  MaxRestarts = 1
  Model = {1, 2, 3}
  FallbackModels = {1}
  NamedFree = {2}
  Job = {j1, j2}
  BatchSize = 2
  MaxJobs = 2
  MaxEdits = 1
  MaxTicks = 1
  Own = {1, 2}
  Upstream = {1}
  Other = {8, 9}
  Restore = {1, 2}
  MaxSessions = 2
  MaxPicks = 1
SPECIFICATION MCSpec
PROPERTIES AutoProbes
CHECK_DEADLOCK FALSE
