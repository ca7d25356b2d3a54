SPECIFICATION FairSpec
CONSTANTS
  FI_KIND = 0
  FI_LOG_DEPTH = 3
  FI_BANKS = 1
  FI_BANK_DEPTH = 2
  FI_FILL_WORD = 0
  Word = {0, 1}
INVARIANTS
  DoneMeansRestored
  LossIsReported
PROPERTIES
  RestoreEnds
