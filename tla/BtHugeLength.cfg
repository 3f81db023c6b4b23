\* A length prefix above 2^31 in front of a BITFIELD.
CONSTANTS
  Msgs <- MCHugeMsgs
  ExtName <- MCExtName
  Chunks <- MCChunks
  After <- ShortAfter
  Word <- MCWord
SPECIFICATION Spec
CHECK_DEADLOCK FALSE
INVARIANTS
  NeverAborts
