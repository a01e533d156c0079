SPECIFICATION Spec
CONSTANTS
  Starts = {s1, s2}
  None = None
  Bounds <- MCBounds
SYMMETRY StartSymmetry
INVARIANTS TypeOK AbandonedNeverRecords StorageModeHonest ConsentKnown DeletedStaysDeleted
CHECK_DEADLOCK FALSE
