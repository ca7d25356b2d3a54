SPECIFICATION FairSpec
CONSTANTS
  TBL_WORDS = 2
  Requests <- ReadHost
  Instructions = {"DMI"}
  RATIO = 0
  DR_BITS = 1
  TRST = FALSE
INVARIANTS
  ReadsSettle
PROPERTIES
  NeverStalls
