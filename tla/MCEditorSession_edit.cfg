SPECIFICATION Spec
CONSTANTS
  Saves = {p1, p2}
  None = None
  MaxVersion = 2
  Sessions <- MCSessions
SYMMETRY SaveSymmetry
INVARIANTS TypeOK NoBlindOverwrite RetryNotRefused
PROPERTIES UnaskedKeepsEdits
CHECK_DEADLOCK FALSE
