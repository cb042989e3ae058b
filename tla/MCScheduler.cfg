SPECIFICATION Spec
SYMMETRY Symmetry
CONSTANTS
  NWorkers = 2
  c1 = c1
  r1 = r1
  r2 = r2
  r3 = r3
  f1 = f1
  f2 = f2
  Clients <- MCClients
  Resumables <- MCResumables
  Fds <- MCFds
  ClosedFds = {}
  Durations = {1}
  ReadyBound = 1
  DequeueMax = 1
  SpinsBeforeIdle = 1
  LongPreemption = TRUE
  MaxLag = 1
  Never = 9
  None = None
INVARIANTS TypeOK OneOwner ParksWithoutSleepers NextItemIsEarliest
PROPERTIES ImplementsLifecycle
