SPECIFICATION Spec
SYMMETRY Symmetry
CONSTANTS
  NWorkers = 2
  c1 = c1
  r1 = r1
  r2 = r2
  f1 = f1
  f2 = f2
  Clients <- MCClients
  Resumables <- MCResumables
  Fds <- MCFds
  ClosedFds <- MCClosedFds
  Durations = {0, 2}
  Slack = 1
  MaxLag = 1
  Never = 9
  None = None
INVARIANTS OneOwner NeverEnteredTwice StaysHome NextWakeupIsEarliest
PROPERTIES ImplementsLifecycle
