SPECIFICATION Spec
CONSTANTS
  Vocabulary <- MCWords
  Blank = "_"
  Placeholder = "new"
  KindOf <- MCKindOf
  Names <- MCNames
  Participants = {"A"}
  Imports <- MCImports
  Texts <- MCTexts
  Transcripts <- MCTranscripts
  SegmentIds = {1, 2, 3, 4}
  AliasLimit = 1
  None = "none"
  Bounds <- MCBounds
INVARIANTS TypeOK 
PROPERTIES OnlySplitBreaksClusters EditsTraced
CHECK_DEADLOCK FALSE
