SPECIFICATION StaticFairSpec
CONSTANTS
  SCRUB_LEN = 2
  TM_LEAD = 0
  TM_TAIL_CYCLES = 0
  TBL_WORDS = 5
  LOOKAHEAD = 2
  WORD = 2
  RTC_ALIGN_EN = FALSE
  RST_CYC = 2
  SCRUB = FALSE
  MEM_RESTORE = FALSE
  FI_KIND = 1
  FI_LOG_DEPTH = 1
  FI_BANKS = 1
  FI_BANK_DEPTH = 1
  FI_FILL_WORD = 0
  Word = {0}
  DUT_UNRULY = FALSE
  FI_SCAN_LEN = 3
  Indices = {0, 1, 2, 3}
  SPACING = 4
  MAX_PASSES = 2
INVARIANTS
  OneFlipPerPass
PROPERTIES
  PassesEnd
