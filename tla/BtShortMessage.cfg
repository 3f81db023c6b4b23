\* A HAVE message whose length prefix is shorter than its fixed field.
CONSTANTS
  Msgs <- MCShortMsgs
  ExtName <- MCExtName
  Chunks <- MCChunks
  After <- ShortAfter
  Word <- MCWord
SPECIFICATION Spec
CHECK_DEADLOCK FALSE
INVARIANTS
  SkipWithinStream
