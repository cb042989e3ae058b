SPECIFICATION MCSpec
SYMMETRY Symmetry
CONSTANTS
  small = small
  large = large
  Objects <- MCObjects
  Length <- MCLength
  Word = 2
  Sizes <- MCSizes
  Reserves <- MCReserves
  Marker = Marker
  Junk = Junk
  None = None
  b1 = b1
  b2 = b2
  Buffers <- MCBufferSet
  Capacities <- MCCapacities
  Rooms <- MCRooms
  Amounts <- MCAmounts
  MaxBytes = 3
  MaxFragments = 3
  MayWrap = FALSE
  s1 = s1
  s2 = s2
  s3 = s3
  Slots <- MCSlots
  BlobSizes <- MCBlobSizes
  Arena = Arena
  ArenaSize = 2
  LowWatermark = 0
  MaxObjects = 3
  MaxImpls = 3
  AppendsAnywhere = FALSE
  c1 = c1
  c2 = c2
  Cpus <- MCCpus
  Allocating <- MCAllocating
  BootPages = 6
  MaxPages = 9
  EntriesPerPage = 5
  SpanSize = 2
  MinFree = 1
  MaxFree = 2
  MinFreePages = 2
  SyncReclaimer = TRUE
  ByteSizes <- MCByteSizes
  MallocSizes <- MCMallocSizes
  NewSizes <- MCNewSizes
  Alignments <- MCAlignments
  MaxAllocs = 5
INVARIANTS WritesFreeSpace NextIsOldest HoldsStream ReadsStream ComparesBytes FreedOnce
INVARIANTS PagesOwnedOnce FindsFreeSpans SmallObjectsOnce SizeClassesFit
CHECK_DEADLOCK FALSE
