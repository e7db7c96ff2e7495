SPECIFICATION FairSpec
CONSTANTS
  e1 = e1
  e2 = e2
  o1 = o1
  o2 = o2
  v1 = v1
  v2 = v2
  v3 = v3
  None = None
  Names = {e1}
  Emails = {e1}
  Devices = {"d1", "d2"}
  Addresses = {"ip1"}
  Address <- TwoAddresses
  OptReqs = {o1, o2}
  VerReqs = {v1, v2}
  Shapes = {"padded", "attestation", "outer"}
  ChallengeTTL = 1
  RegLimit <- TightLimit
  EmailFirst = FALSE
  Faults = {"redis"}
  MaxTime = 1
INVARIANTS RegistrationIsEarned
PROPERTIES ExpiredForACause RequestsAnswered
CHECK_DEADLOCK FALSE
