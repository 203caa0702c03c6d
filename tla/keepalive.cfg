SPECIFICATION Spec
CONSTANTS
  Period = 4
  Limit = 10
  Lag = 1
  Delay = 5
  MaxSilence = 20
INVARIANTS TypeOK SteadyKept SilenceNoticed
CHECK_DEADLOCK FALSE
