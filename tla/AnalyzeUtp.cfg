\* Every option line; each datagram's fragments back to back.
CONSTANTS
  Datagrams <- MCDatagrams
  Argvs <- MCArgvs
  Atoi <- MCAtoi
  Ipv4 <- MCIpv4
  Interleave = FALSE
  NoFilter = NoFilter
SPECIFICATION Spec
\* main() may exit before pcap_loop, and pcap_loop ends with the capture.
CHECK_DEADLOCK FALSE
INVARIANTS
  TypeOK
  FocusMatchesSpec
  FragmentsFollowFirst
  StatsDumpCountsDatagrams
