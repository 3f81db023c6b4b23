\* Reordered, duplicated and lost data segments, ISN near the wrap.
CONSTANTS
  SeqBits = 4
  Isn <- MCIsn
  SegLens <- MCSegLens
  Repacketize = FALSE
  ReplaySynAck = FALSE
  FinWithData = TRUE
  FinOvertakes = FALSE
SPECIFICATION FairSpec
PROPERTIES
  EventuallyComplete
