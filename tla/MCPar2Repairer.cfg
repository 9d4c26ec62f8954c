CONSTANTS
  a = a
  b = b
  x = x
  ta = ta
  tb = tb
  index = index
  vol = vol
  Files <- MCFiles
  NumBlocks <- MCNumBlocks
  Sliced <- MCSliced
  OddLengths = {"long"}
  NumChunks = 1
  NumThreads = 1
  Bytes <- MCBytes
  Extras <- MCExtras
  Layouts <- MCLayouts
  TempOf <- MCTempOf
  Volumes <- MCVolumes
  PacketsIn <- MCPacketsIn
  MaxFailures = 1
  MaxCrashes = 1
  MaxCancels = 1

SPECIFICATION RunnerFairSpec

INVARIANTS
  RunnerTypeOK
  OkIsWhole
  ReplacedIsWhole
PROPERTIES
  PurgedIsWhole
  StaysRepairable
  IntactStaysIntact
  RunEnds
  RetryingConverges
