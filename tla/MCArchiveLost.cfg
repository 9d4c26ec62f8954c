CONSTANTS
  fa = fa
  fb = fb
  Inputs <- MCInputs
  Originals <- MCOriginals
  Edits <- MCEdits
  MaxMishaps = 1
  Options <- MCOptions
  MinBlockSize = 4
  MaxBlockSize = 8
  TargetBlocks = 3
  MaxBlocks = 8
  VolumeCap = 2
  Radix = 3
  BarePaths = {FALSE}
  MaxCreations = 1

SPECIFICATION ArchiveSpec
INVARIANT ListedFilesAreDescribed
