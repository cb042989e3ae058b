SPECIFICATION MCSpec
CONSTANTS
  Lengths = {0, 6}
  FrameTypes = {0, 4, 5, 10}
  FlagSets = {{}, {"ACK"}, {"PADDED"}}
  Streams = {0, 1}
  ChunkSizes = {24, 16, 40}
  MaxChunks = 2
  MaxWrites = 1
  MaxBuffered = 2
  Space = 1
  Filters = {f1, f2, f3}
  None = None
  MaxDeferred = 2
INVARIANTS EventUsedWhileActive FlushedBeforeClose PassesEveryFilter
PROPERTIES KeepsServing
CHECK_DEADLOCK FALSE
