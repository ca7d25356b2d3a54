SPECIFICATION Spec
CONSTANTS
  TBL_WORDS = 4
  LOOKAHEAD = 3
  Tables <- TaggedTables
INVARIANTS
  LookaheadIsWindow
  NoStarvation
  OffsetIsOfEop
PROPERTIES
  BatchStaysEnded
