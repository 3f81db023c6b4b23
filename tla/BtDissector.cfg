\* A whole session, any segmentation, the directions interleaved causally.
CONSTANTS
  Msgs <- MCMsgs
  ExtName <- MCExtName
  Chunks <- MCChunks
  After <- MCAfter
  Word <- MCWord
SPECIFICATION Spec
\* the capture ends once both streams are delivered
CHECK_DEADLOCK FALSE
INVARIANTS
  TypeOK
  TranscriptMatchesMessages
  SkipWithinStream
