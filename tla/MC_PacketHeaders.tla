-------------------------- MODULE MC_PacketHeaders --------------------------
(* Model-checking instance of PacketHeaders on an x86 (little-endian)     *)
(* build.                                                                  *)
EXTENDS PacketHeaders, TLC

\* Byte strings of length at most n over the byte values B.
Strings(B, n) == UNION {[1 .. k -> B] : k \in 0 .. n}

\* A frame: ip_len counts the uTP header and rest exactly; trail is the
\* Ethernet padding the capture holds behind it.
Frame(ether, ver, ihl, proto, thoff, cid, trail) ==
  [ether |-> ether, ver |-> ver, ihl |-> ihl, proto |-> proto, thoff |-> thoff,
   cid |-> cid, trail |-> trail]

Dg(fr, len, ver, type, ext, sport, dport, rest, flags, offset) ==
  fr @@
  [len |-> len, tv |-> type * 16 + ver, ext |-> ext, sport |-> sport,
   dport |-> dport, rest |-> rest, flags |-> flags, offset |-> offset]

Good == Frame("ip", 4, 5, "udp", 5, <<0, 1>>, <<>>)

\* Every Ethernet/IP/TCP field combination around a valid uTP header; every
\* uTP header-field combination; every option chain of up to four bytes
\* over 0 .. 2 behind each valid ext, with and without padding and either
\* connection id; every IP flag combination with the fragment offsets 0, 1,
\* 32 (bit 5 set) and 185 (1480 bytes), over UDP and TCP.
MCDatagrams ==
  {Dg(Frame(et, v, ihl, p, th, <<0, 1>>, <<>>), ln, 1, 0, 0, 6881, 6881, <<>>, {}, 0) :
      et \in {"ip", "arp"}, v \in {4, 6}, ihl \in {4, 5, 6},
      p \in {"tcp", "udp", "icmp"}, th \in {4, 5}, ln \in {12, 20}}
  \cup {Dg(Good, 20, v, t, e, sp, dp, <<>>, {}, 0) :
          v \in {0, 1}, t \in {0, 4, 5}, e \in {0, 1, 2, 3},
          <<sp, dp>> \in {<<6881, 6881>>, <<443, 6881>>, <<6881, 443>>}}
  \cup {Dg(Frame("ip", 4, 5, "udp", 5, c, tr), 20 + Len(r), 1, 0, e, 6881, 6881, r, {}, 0) :
          e \in {0, 1, 2}, r \in Strings(0 .. 2, 4), c \in {<<0, 1>>, <<1, 0>>},
          tr \in {<<>>, <<0>>}}
  \cup {Dg(Frame("ip", 4, 5, p, 5, <<0, 1>>, <<>>), 20, 1, t, 0, 6881, 6881, <<>>, f, o) :
          p \in {"tcp", "udp"}, t \in {0, 4}, f \in SUBSET {"DF", "MF"},
          o \in {0, 1, 32, 185}}
=============================================================================
