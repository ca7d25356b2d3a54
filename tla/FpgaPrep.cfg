SPECIFICATION Spec
CONSTANTS
 Designs <- All
 Models <- Library
 FpgaModels <- Fpga
 WORDS = 2
 NB = 4
 BYTES = {1, 127}
 ORIGINS = {0, 3, 7, 8}
 MAX_TOKENS = 5
INVARIANTS
 FlatIsConnectivity
 ClocksAsTraced
 ConversionExact
 NothingElseChanges
 EnablesWired
 RestoreWired
 RomIsImage
CHECK_DEADLOCK FALSE
