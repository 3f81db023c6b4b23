\* The session again; in may reach the dissector before out's info-hash.
CONSTANTS
  Msgs <- MCMsgs
  ExtName <- MCExtName
  Chunks <- MCChunks
  After <- HandshakeUnordered
  Word <- MCWord
SPECIFICATION Spec
CHECK_DEADLOCK FALSE
INVARIANTS
  TranscriptMatchesMessages
