CONSTANTS
  fa = fa
  fb = fb
  Inputs <- MCInputs
  Originals <- MCOriginals
  Edits <- MCEdits
  MaxMishaps = 1
  Options <- MCOptions
  MinBlockSize = 4
  MaxBlockSize = 8
  TargetBlocks = 3
  MaxBlocks = 8
  VolumeCap = 2
  Radix = 3
  BarePaths = {FALSE, TRUE}
  MaxCreations = 2

SPECIFICATION ArchiveFairSpec

INVARIANTS
  ArchiveTypeOK
  VolumesTile
  LoadedBlocksAreRight
  IntactRecoveryIsLoaded
  RoundTrip
  IntactMainLoads
PROPERTY
  CallsReturn
