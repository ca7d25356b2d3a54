SPECIFICATION FairSpec
CONSTANTS
  SCRUB_LEN = 2
  TM_LEAD = 1
  TM_TAIL_CYCLES = 2
  TBL_WORDS = 5
  LOOKAHEAD = 2
  WORD = 16
  RTC_ALIGN_EN = FALSE
  RST_CYC = 1
  SCRUB = TRUE
  MEM_RESTORE = TRUE
  FI_KIND = 1
  FI_LOG_DEPTH = 1
  FI_BANKS = 1
  FI_BANK_DEPTH = 2
  FI_FILL_WORD = 0
  Word = {0, 1}
  DUT_UNRULY = FALSE
  FI_W_IDX = 2
  FI_SCAN_LEN = 3
  Campaigns <- MixedCampaigns
  TO_THR = 8
  BATCHES = 2
  PAUSE = TRUE
  ENDS = FALSE
INVARIANTS
  MemoryOffLimits
  NoTestmodeInReset
PROPERTIES
  RunsThePlan
  CleanStart
  CampaignEnds
