CONSTANTS
  a = a
  b = b
  c = c
  x = x
  y = y
  Files <- MCFiles
  NumBlocks <- MCNumBlocks
  Sliced <- MCSliced
  OddLengths = {"long"}
  NumChunks = 1
  NumThreads = 1
  Bytes <- MCBytes
  Extras <- MCExtras
  Layouts <- MCLayouts
  MaxFailures = 1

SPECIFICATION FairSpec

INVARIANTS
  TypeOK
  AllVerifiedIsWhole
  HandsOverVerdict
  CancelHonoured
PROPERTIES
  NothingLost
  VerifyReturns
