SPECIFICATION Spec
CONSTANTS
  r1 = r1
  r2 = r2
  None = None
  Users = {"u1", "u2"}
  Known = {"u1"}
  Subjects <- MCSubjects
  Devices = {"d1"}
  Pages = {"p1", "p2"}
  Device <- TwoTabs
  Tickets = {r1, r2}
  Claims = {r1, r2}
  a1 = a1
  Asks = {a1}
  TokenTTL = 1
  MaxTime = 2
SYMMETRY Symmetry
INVARIANTS TypeOK TokenIsEarned MessageIsHonest InfoIsFresh CompletedForGood
CHECK_DEADLOCK FALSE
