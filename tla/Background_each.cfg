SPECIFICATION MCSpec
CONSTANTS
  i1 = i1 i2 = i2 h1 = h1 c1 = c1 c2 = c2 w1 = w1
  poll = poll report = report once = once None = None
  l1 = l1 l2 = l2 l3 = l3 q1 = q1 q2 = q2 q3 = q3
  Names = {poll, once}
  Kind <- ControlKind
  Delay <- ControlDelay
  Waiting = {}
  Loops = {l1, l2, l3}
  Runs = {q1, q2}
  MaxTime = 4
  MaxCalls = 2
  ResumeDuring = {"serving"}
INVARIANTS TypeOK LoopsReached TicksKept
PROPERTIES StopEndsWithoutBurst TurnsEnd
CHECK_DEADLOCK FALSE
