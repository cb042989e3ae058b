SPECIFICATION Spec
CONSTANTS
  t1 = t1
  t2 = t2
  t3 = t3
  c0 = c0
  c2 = c2
  v1 = v1
  v2 = v2
  Tasks <- MCTasks
  Channels <- MCBuffered
  Size <- MCSizeTwo
  Values <- MCTwo
  Garbage = Garbage
  Nothing = Nothing
PROPERTIES BufferedImplementsBus
