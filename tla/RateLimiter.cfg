SPECIFICATION Spec
CONSTANTS
  p1 = p1
  p2 = p2
  Procs = {p1, p2}
  Clients = {"ip1"}
  Actions <- MCActions
  Limits <- MCLimits
  MaxTime = 4
  MaxCalls = 5
SYMMETRY Symmetry
INVARIANTS TypeOK WindowBound
PROPERTIES ImplementsLimiter
CHECK_DEADLOCK FALSE
