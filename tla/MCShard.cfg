SPECIFICATION MCSpec
CONSTANTS
  t1 = t1
  t2 = t2
  t3 = t3
  c0 = c0
  c2 = c2
  v1 = v1
  v2 = v2
  Tasks <- MCTasks
  Channels <- MCChannels
  Size <- MCSize
  Values <- MCOne
  Garbage = Garbage
  Nothing = Nothing
  Shards = {s0, s1}
  Main = s0
  MaxPosts = 2
  Hooks = 1
INVARIANTS TypeOK ReceiversWaitOnEmptyBuffer ScheduledOnce NoSenderForgotten
PROPERTIES ImplementsBus ReceiverServed ImplementsExecutor StopsWhenTold
