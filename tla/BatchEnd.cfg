SPECIFICATION Spec
CONSTANTS
  SCRUB_LEN = 2
  TM_LEAD = 0
  TM_TAIL_CYCLES = 0
  TBL_WORDS = 5
  LOOKAHEAD = 2
  WORD = 16
  RTC_ALIGN_EN = TRUE
  RST_CYC = 2
  SCRUB = TRUE
  MEM_RESTORE = TRUE
  FI_KIND = 0
  FI_LOG_DEPTH = 1
  FI_BANKS = 1
  FI_BANK_DEPTH = 2
  FI_FILL_WORD = 0
  Word = {0, 1}
  DUT_UNRULY = TRUE
  FI_W_IDX = 2
  FI_SCAN_LEN = 3
  Campaigns <- ShortCampaigns
  TO_THR = 8
  BATCHES = 1
  PAUSE = TRUE
  ENDS = TRUE
INVARIANTS
  OnlyThePlan
PROPERTIES
  MemoryAccounted
  HaltIsFinal
