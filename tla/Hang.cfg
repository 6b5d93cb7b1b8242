SPECIFICATION FairSpec
CONSTANTS
  c1 = c1
  c2 = c2
  c3 = c3
  c4 = c4
  f1 = f1
  f2 = f2
  Nil = Nil
  Coros = {c1, c2}
  Fds = {f1}
  MaxEvents = 1
  Durations = {1}
  Gran = 1
  IntMax = 7
  MaxTime = 2
  Exclusive = TRUE
  Signals = FALSE
PROPERTIES
  RunReturns
CHECK_DEADLOCK FALSE
