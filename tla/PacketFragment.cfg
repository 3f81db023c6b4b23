\* The same frames, checked for later IP fragments reaching the lookup.
CONSTANTS
  Datagrams <- MCDatagrams
  LittleEndian = TRUE
SPECIFICATION Spec
INVARIANTS
  LaterFragmentsDropped
