SPECIFICATION FairSpec
CONSTANTS
  NWorkers = 2
  c1 = c1
  r1 = r1
  r2 = r2
  f1 = f1
  f2 = f2
  Clients <- MCClients
  Resumables <- MCResumables
  Fds = {}
  ClosedFds = {}
  Durations = {1}
  Slack = 0
  MaxLag = 0
  Never = 9
  None = None
PROPERTIES HandedOverRuns SleepersWake
