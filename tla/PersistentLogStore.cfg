CONSTANTS
  MaxIndex = 3
  MaxTerm = 2
  MaxBatch = 2
  shard_id = 0
  Absent = Absent
SPECIFICATION Spec
INVARIANTS
  TypeOK
  FlushedIsDurable
  NoHole
  PositionSurvives
PROPERTY KeepsPromise
