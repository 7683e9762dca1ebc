CONSTANTS
  p = p  q = q  r = r  p1 = p1  p2 = p2  q1 = q1  q2 = q2  r1 = r1
  None = None
  Proc = {p, q, r}
  Caller = {p1, p2, q1, r1}
  ProcOf <- MCProcOfThree
  Crashable = {p}
  Suspend = FALSE
SPECIFICATION Spec
INVARIANTS Mutex
CHECK_DEADLOCK FALSE
