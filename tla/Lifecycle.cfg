\* Cards come and go, also after an early failure and with files open.  The
\* bound on probes stops the model.
SPECIFICATION Spec
CONSTANTS
  d1 = d1
  d2 = d2
  f1 = f1
  f2 = f2
  Cards = {d1, d2}
  Files = {f1, f2}
  Nothing = Nothing
  CHANNELS = 2
  IRQS = 2
  Failing = {"setup", "vectors"}
  EarlyOpen = FALSE
  HotRemove = TRUE
  LateStart = FALSE
  MaxProbes = 4
INVARIANTS
  LcTypeOK
  NoLeftovers
  
  MinorsDistinct
CHECK_DEADLOCK FALSE
