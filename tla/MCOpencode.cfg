CONSTANTS
  Turn = {s, u, w}
  Prewarm = {w}
  Relayable = {s, w}
  MaxRelays = 3
  Stream = {s1, s2}
  MaxEvents = 2
  MaxFaults = 1
  Entry = {"compat", "providers/all"}
  MaxLoads = 2
  MaxInstalls = 1
SPECIFICATION MCSpec
INVARIANTS OpencodeSafe
PROPERTIES LoadErrorIsFresh OpencodeEnds
CHECK_DEADLOCK FALSE
