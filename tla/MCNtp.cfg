CONSTANTS
  BootTime = 5
  MaxNow = 25
  Wrap = 12
  Second = 2
  UpdateInterval = 6
  Tries = 2
  MaxDelay = 2
  MaxPoll = 2
  MaxFlight = 2
SPECIFICATION Spec
INVARIANT TypeOK
INVARIANT NeverFarAhead
INVARIANT BehindByALateAnswer
PROPERTY StepBackBounded
