CONSTANTS
  Width = 4
  Poly = 19
  DataBlocks = 5
  RecoveryBlocks = 7
  DataBatch = 2
  SourceBatch = 2
  MaxLost = 3
  Samples <- MCSamples

SPECIFICATION Spec

INVARIANTS
  TypeOK
  TablesMultiply
  RecoveryIsWeightedSum
  RecordReplaysElimination
  SingularIsGenuine
  ConsecutiveIsSolved
  UnmovedRestores
