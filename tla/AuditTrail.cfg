SPECIFICATION Spec
CONSTANTS
  c1 = c1
  Callers = {c1}
  MaxCalls = 5
INVARIANTS TypeOK HalfDoneOnlyByCalls WorkLostOnlyByWrapper EventsAreWhole
CHECK_DEADLOCK FALSE
