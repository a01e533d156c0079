SPECIFICATION Spec
CONSTANTS
  Saves = {p1, p2}
  None = None
  MaxVersion = 2
  Sessions <- MCSessions
PROPERTIES DraftKeptForItsVersion
CHECK_DEADLOCK FALSE
