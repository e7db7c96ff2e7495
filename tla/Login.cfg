SPECIFICATION Spec
CONSTANTS
  u1 = u1
  u2 = u2
  c1 = c1
  c2 = c2
  o1 = o1
  o2 = o2
  v1 = v1
  v2 = v2
  Junk = Junk
  None = None
  Users = {u1, u2}
  Identifiers = {"e1", "n1", "x"}
  Email <- TwoEmails
  Username <- TwoNames
  Creds = {c1}
  Owner <- OneOwner
  Counterless = {}
  Devices = {"d1", "d2"}
  Addresses = {"ip1"}
  Address <- OneAddress
  Agents = {"a1", "a2"}
  Agent <- OwnAgents
  OptReqs = {o1, o2}
  VerReqs = {v1, v2}
  ChallengeTTL = 1
  AuthLimit <- TightLimit
  LockoutLimit = 2
  RapidRequests = 2
  ManyAgents = 1
  ManyAddresses = 1
  Faults = {"redis", "db", "audit", "crash"}
  MaxFaults = 2
  MaxTime = 1
INVARIANTS TypeOK SessionIsEarned NoReuseAfterSuccess SuccessIsDurable FailuresHaveCause
PROPERTIES ChallengesExpire RegressionNeedsOverlap ReplayNeedsRegression ExpiredForACause
    CountingLoginAccepted ImplementsCeremony
SYMMETRY Symmetry
CHECK_DEADLOCK FALSE
