SPECIFICATION Spec
CONSTANTS
  TBL_WORDS = 2
  Requests <- LoadHost
  Instructions = {"DMI"}
  RATIO = 1
  DR_BITS = 12
  TRST = TRUE
INVARIANTS
  AnswersTheLastRequest
  EachRequestOnce
PROPERTIES
  TransparentIsPassive
