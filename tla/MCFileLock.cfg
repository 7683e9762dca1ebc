CONSTANTS
  p = p  q = q  r = r  p1 = p1  p2 = p2  q1 = q1  q2 = q2  r1 = r1
  None = None
  Proc = {p, q}
  Caller = {p1, p2, q1, q2}
  ProcOf <- MCProcOf
  Crashable = {p}
  Suspend = FALSE
SPECIFICATION FairSpec
INVARIANTS TypeOK Mutex
PROPERTIES Ends
CHECK_DEADLOCK FALSE
