SPECIFICATION Spec
CONSTANTS
  ScanLen = 3
  Patterns <- LegalPatterns
  SCRUB_LEN = 2
  TM_LEAD = 0
  TM_TAIL_CYCLES = 0
INVARIANTS
  TypeOK
  FreezeAccount
  Restored
  PatternDelivered
PROPERTIES
  AtomicInjection
