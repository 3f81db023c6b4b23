---------------------------- MODULE MC_AnalyzeUtp ----------------------------
(* Model-checking instances of AnalyzeUtp.                                 *)
EXTENDS AnalyzeUtp

Dgram(frame, id, connid, nfrag, df, small, https) ==
  [frame |-> frame, id |-> id, connid |-> connid, nfrag |-> nfrag, df |-> df,
   small |-> small, https |-> https]

\* Connection ids on both sides of the wrap; IP ids all different.
MCDatagrams ==
  { Dgram("udp", 7, 65535, 2, FALSE, FALSE, FALSE),
    Dgram("udp", 8, 3, 2, FALSE, FALSE, FALSE),
    Dgram("udp", 9, 1, 1, TRUE, FALSE, FALSE),
    Dgram("udp", 10, 1, 1, FALSE, TRUE, FALSE),
    Dgram("udp", 11, 1, 2, FALSE, FALSE, TRUE),
    Dgram("tcp", 12, 0, 1, FALSE, FALSE, FALSE) }

\* Focus ids 0 (matching 65535 and 1) and 2 (matching 1 and 3), --stats,
\* and command lines main() rejects or answers with the usage text.
MCArgvs ==
  { <<"cap">>, <<"--stats", "cap">>, <<"--focus-id", "0", "cap">>,
    <<"--focus-id", "2", "--home-ip", "10.0.0.1", "cap">>,
    <<"--help", "cap">>, <<"--focus-id", "cap">>, <<"cap", "--stats">>, <<>>,
    <<"--stats", "--home-ip", "10.0.0", "cap">> }

MCAtoi == ("0" :> 0) @@ ("2" :> 2)

MCIpv4 == {"10.0.0.1"}

\* Two datagrams from different hosts that carry the same IP id 7 (one
\* unfragmented with DF set and focused, one fragmented and not focused),
\* and a focused fragmented datagram whose fragments others may split.
FragmentIdDatagrams ==
  { Dgram("udp", 7, 1, 1, TRUE, FALSE, FALSE),
    Dgram("udp", 7, 3, 2, FALSE, FALSE, FALSE),
    Dgram("udp", 8, 0, 2, FALSE, FALSE, FALSE) }
FragmentIdArgvs == {<<"--focus-id", "0", "cap">>}
=============================================================================
