SPECIFICATION Spec
CONSTANTS
  p1 = p1
  r1 = r1
  r2 = r2
  r3 = r3
  look = look
  None = None
  Garbage = Garbage
  Procs = {p1}
  LogProcs = {p1}
  Requests = {r1, r2, r3}
  Nonces = {"n1", "n2"}
  Stamps = {1, 3}
  Looks = {look}
  Messages <- MCMessages
  Levels = {"INFO", "WARNING", "ERROR"}
  Breakable = {"ERROR"}
  MaxClears = 1
  Rank <- FileRank
  Window = 1
  CleanupInterval = 0
  MaxNonces = 1
  MaxTime = 2
CONSTRAINT Bounded
SYMMETRY Symmetry
INVARIANTS TypeOK NonceOnce ReplayHasOriginal PassedOnce LogComplete LogDeduplicated
CHECK_DEADLOCK FALSE
