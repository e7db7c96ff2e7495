SPECIFICATION Spec
CONSTANTS
  u1 = u1
  u2 = u2
  c1 = c1
  c2 = c2
  o1 = o1
  o2 = o2
  v1 = v1
  v2 = v2
  Junk = Junk
  None = None
  Users = {u1}
  Identifiers = {"e1", "n1"}
  Email <- OneEmail
  Username <- OneName
  Creds = {c1}
  Owner <- OneOwner
  Counterless = {}
  Devices = {"d1"}
  Addresses = {"ip1"}
  Address <- LoneAddress
  Agents = {"a1"}
  Agent <- LoneAgent
  OptReqs = {o1}
  VerReqs = {v1, v2}
  ChallengeTTL = 2
  AuthLimit <- WideLimit
  LockoutLimit = 2
  RapidRequests = 2
  ManyAgents = 1
  ManyAddresses = 1
  Faults = {}
  MaxFaults = 0
  MaxTime = 1
INVARIANT AssertionUsedOnce
SYMMETRY Symmetry
CHECK_DEADLOCK FALSE
