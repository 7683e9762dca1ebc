CONSTANTS
  p = p  q = q  p1 = p1  p2 = p2  q1 = q1  f = f  g = g
  None = None
  Proc = {p, q}
  Caller = {p1, p2, q1}
  ProcOf <- MCProcOf
  Crashable = {p}
  Suspend = FALSE
  Field = {f, g}
  FieldOf <- MCFieldOf
  Legacy = {f}
  InitForm = {"none", "lacking", "full"}
  Overlap = FALSE
SPECIFICATION ConfigSpec
INVARIANTS ConfigTypeOK ReadIsFresh
PROPERTIES UpdatesAreAtomic
CHECK_DEADLOCK FALSE
