SPECIFICATION Spec
CONSTANTS
  c1 = c1
  c2 = c2
  c3 = c3
  c4 = c4
  f1 = f1
  f2 = f2
  Nil = Nil
  Coros = {c1, c2, c3}
  Fds = {f1}
  MaxEvents = 1
  Durations = {0, 1, 2}
  Gran = 3
  IntMax = 7
  MaxTime = 8
  Exclusive = FALSE
  Signals = FALSE
INVARIANTS
  PollRespectsTimers
  DeafUnderOneMs
PROPERTIES
  NoSpuriousWakeup
  TimersInOrder
CHECK_DEADLOCK FALSE
SYMMETRY Symmetry
