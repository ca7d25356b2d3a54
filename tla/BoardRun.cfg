SPECIFICATION FairSpec
CONSTANTS
 DEPTH = 10
 LINE = 2
 TRIALS <- Numbers
 COUNTS <- Counts
 N_END = 2
 CRASH <- Crash
 TO_THR = 25
 GAP = 26
 QUIET_MIN = 20
 BOOT = 20
 N = 2
 CAMPAIGNS = 1
 SCRIPTS <- Scripts
 GOLDENS <- Goldens
INVARIANTS
 FifoHolds
 RecordsInStep
 VerdictIsTheTrials
PROPERTY
 SessionEnds
CHECK_DEADLOCK FALSE
