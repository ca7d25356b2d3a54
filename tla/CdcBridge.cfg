SPECIFICATION FairSpec
CONSTANTS
  Data = {d1, d2, d3, d4}
  NoData = none
PROPERTIES
  ExactlyOnce
  Delivered
