SPECIFICATION Spec
CONSTANTS
  e1 = e1
  e2 = e2
  o1 = o1
  o2 = o2
  v1 = v1
  v2 = v2
  v3 = v3
  None = None
  Names = {e1, e2}
  Emails = {e1, e2}
  Devices = {"d1"}
  Addresses = {"ip1"}
  Address <- LoneAddress
  OptReqs = {o1, o2}
  VerReqs = {v1, v2, v3}
  Shapes = {"padded"}
  ChallengeTTL = 2
  RegLimit <- WideLimit
  EmailFirst = TRUE
  Faults = {"db", "audit", "crash"}
  MaxTime = 0
INVARIANTS TypeOK NoHollowAccount AccountsDistinct SuccessIsDurable
    InsertsWaitForWork GenuineAttestationIsNew
PROPERTIES ImplementsCeremony
SYMMETRY Symmetry
CHECK_DEADLOCK FALSE
