CONSTANTS
  a = a
  b = b
  empty = empty
  r0 = r0
  r1 = r1
  twin = twin
  forged = forged
  Files <- MCFiles
  NumBlocks <- MCNumBlocks
  Sliced <- MCSliced
  OddLengths = {"long"}
  NumChunks = 2
  NumThreads = 2
  Recovery <- MCRecovery
  Exponent <- MCExponent
  Authentic <- MCAuthentic
  RecoverySets <- MCRecoverySets
  BlockConstant <- MCBlockConstant
  MaxBlocks = 6
  MaxFailures = 1
  MaxStaleFailures = 0
  MaxChanged = 0

SPECIFICATION Spec

INVARIANT
  TempsGone
