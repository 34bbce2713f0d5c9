SPECIFICATION SpecAll
CONSTANTS
  p1 = p1
  p2 = p2
  None = None
  User = {p1, p2}
  Driver = {}
  SCHED_RATE = 2
  Deltas = {0, 1, 3}
  MaxDelta = 3
  MaxTicks = 6
  MaxLost = 1
CHECK_DEADLOCK FALSE
INVARIANTS RightPlace MotorsMinded RightlyRevived TimeKept
PROPERTIES ImplementsGrid Answered
