\* Two connections between the same endpoints, one opened by each peer,
\* with ids three apart across the wrap; packets of both interleave,
\* reordered, duplicated and lost.
CONSTANTS
  Conns <- TwoConns
  Initiator <- TwoInitiator
  Isn <- TwoIsn
  ConnId <- TwoConnId
  NumPkts <- TwoNumPkts
  ReplaySyn = FALSE
  NotFound = NotFound
SPECIFICATION FairSpec
INVARIANTS
  TypeOK
  ExpectedAtDeliveredEdge
PROPERTIES
  Refines
  EventuallyComplete
