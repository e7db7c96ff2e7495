SPECIFICATION Spec
CONSTANTS
  p1 = p1
  r1 = r1
  r2 = r2
  r3 = r3
  look = look
  None = None
  Garbage = Garbage
  Procs = {p1}
  LogProcs = {p1}
  Requests = {r1, r2}
  Nonces = {"n1", "n2"}
  Stamps = {1, 3}
  Looks = {look}
  Messages <- MCMessages
  Levels = {"INFO", "WARNING", "ERROR"}
  Breakable = {}
  MaxClears = 0
  Rank <- FileRank
  Window = 1
  CleanupInterval = 0
  MaxNonces = 1
  MaxTime = 1
INVARIANTS RefusedWith400
CHECK_DEADLOCK FALSE
