SPECIFICATION FairSpec
CONSTANTS
  NWorkers = 1
  c1 = c1
  r1 = r1
  r2 = r2
  r3 = r3
  f1 = f1
  f2 = f2
  Clients <- MCClients
  Resumables <- MCThree
  Fds <- MCAllFds
  ClosedFds <- MCClosedFds
  Durations = {0, 1}
  ReadyBound = 1
  DequeueMax = 1
  SpinsBeforeIdle = 1
  LongPreemption = FALSE
  MaxLag = 1
  Never = 9
  None = None
INVARIANTS ParksOnlyWhenIdle
PROPERTIES SleepersWake InputTaken
