\* Ethernet, IP and TCP fields, uTP header fields, option chains and IP fragment flags of one frame.
CONSTANTS
  Datagrams <- MCDatagrams
  LittleEndian = TRUE
SPECIFICATION Spec
INVARIANTS
  TypeOK
  UnfragmentedMatchesWireFormat
