\* Two seconds for the shared registers, seven ticks for the drives; two
\* drives, two cards of each maker, three adapters, two processors.
CONSTANTS
  c1 = c1
  c2 = c2
  PrivMaxTime = 2
  BoardInterval = 1
  MemoryInterval = 1
  Registers = 1
  Slots = {1, 2}
  EnumInterval = 3
  TempInterval = 2
  StoreMaxTime = 7
  Threads = 2
  MaxCount = 1
  Cards <- MCCards
  Newest <- MCNewest
  NvInterval = 1
  NvMaxTime = 2
  Boards <- MCCards
  MaxAdapters = 3
  MaximumGpus = 2
  AmdInterval = 2
  AmdMaxTime = 3
  Megabytes = {0, 1}
  Polls = 2
SPECIFICATION ProvidersSpec
INVARIANTS
  ProvidersTypeOK
  ResourcesAreReturned
  ReadingsAreSound
  DrivesAreFollowed
  CardsAreIdentified
  EntryIsTrue
PROPERTIES
  CallEnds
  UsageIsSinceLastQuery
  StopIsHonoured
