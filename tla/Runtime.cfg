SPECIFICATION Spec
CONSTANTS
  c1 = c1
  c2 = c2
  c3 = c3
  c4 = c4
  f1 = f1
  f2 = f2
  Nil = Nil
  Coros = {c1, c2, c3}
  Fds = {f1, f2}
  MaxEvents = 1
  Durations = {1}
  Gran = 1
  IntMax = 7
  MaxTime = 2
  Exclusive = TRUE
  Signals = TRUE
INVARIANTS
  TypeOK
  NoStaleWakeup
  NoDoubleWakeup
  NoLostCoroutine
  NoLostEdge
  CalleesReclaimed
  OneRuns
  RunCompletes
PROPERTIES
  ImplementsContract
SYMMETRY Symmetry
