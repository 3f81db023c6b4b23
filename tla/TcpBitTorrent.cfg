\* A BitTorrent session over one TCP connection: segments reordered,
\* duplicated and lost, the initiator's sequence numbers wrapping.
CONSTANTS
  SeqBits = 8
  Isn <- MCIsn
  SegLens <- MCSegLens
  Repacketize = FALSE
  ReplaySynAck = FALSE
  FinWithData = FALSE
  FinOvertakes = FALSE
  Msgs <- MCMsgs
  ExtName <- MCExtName
  Word <- MCWord
  Answers <- MCAnswers
  MaxRepeats = 2
SPECIFICATION FairBtSpec
\* the capture ends after its last packet
CHECK_DEADLOCK FALSE
INVARIANTS
  TypeOK
  ExpectedAtDeliveredEdge
  OooStrictlyAhead
  TranscriptOfCapture
PROPERTIES
  Refines
  EventuallyComplete
  EventuallyFullTranscript
