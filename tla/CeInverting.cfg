SPECIFICATION Spec
CONSTANTS
 Designs <- Inverting
 Models <- Library
 FpgaModels <- Fpga
 WORDS = 2
 NB = 4
 BYTES = {1}
 ORIGINS = {0}
 MAX_TOKENS = 1
INVARIANTS
 SameContents
CHECK_DEADLOCK FALSE
